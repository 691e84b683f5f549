-------------------------- MODULE SpeakerRegistry --------------------------
(***************************************************************************)
(* The speakers of speaker_struct.c: a flat array of speakers, and for     *)
(* each line and channel a list of pointers into it.                       *)
(*                                                                         *)
(* Of a speaker's data only what the lists depend on is kept: its id, its  *)
(* line and channel (its "place") and whether its state is                 *)
(* SPEAKER_STAT_DELETED. A write outside a list's memory, and entries in   *)
(* memory that was never written, stop the model ("broken"): what the      *)
(* program does from then on is undefined.                                 *)
(***************************************************************************)
EXTENDS Integers, FiniteSets

CONSTANTS
  Ids,               \* speaker ids
  Places,            \* pairs of a line and a channel
  DefaultPlaces,     \* those of DEFAULT_LINE, the only ones speaker_init allocates
  MaxSpeakers,       \* SPEAKER_MAX_COUNT (255)
  GrowStep,          \* SPEAKER_GROW_STEP (10)
  PointersPerSpeaker \* sizeof(speaker_t) / sizeof(speaker_t *)

ASSUME RegistryAssumption ==
  /\ DefaultPlaces \subseteq Places
  /\ {MaxSpeakers, GrowStep, PointersPerSpeaker} \subseteq Nat \ {0}

Speakers == 0 .. MaxSpeakers - 1
NULL     == -1

\* A list never gets longer than this: grow_speakerlist stops at MaxSpeakers.
Room == 0 .. MaxSpeakers + GrowStep - 1

List == [max : 0 .. MaxSpeakers + GrowStep, len : 0 .. MaxSpeakers + GrowStep,
         speakers : [Room -> Speakers \cup {NULL}]]

VARIABLES
  count,    \* speakers_list_flat.len
  id,       \* id[s], place[s], deleted[s]: the fields of the s-th speaker
  place,
  deleted,
  list,     \* list[p]: max, len and the pointers of speakers_list_ch[line][ch]
  changed,  \* history: some speaker has changed its channel
  broken    \* the program has lost its memory

vars == <<count, id, place, deleted, list, changed, broken>>

RegistryTypeOK ==
  /\ count \in 0 .. MaxSpeakers
  /\ id \in [0 .. count - 1 -> Ids]
  /\ place \in [0 .. count - 1 -> Places]
  /\ deleted \in [0 .. count - 1 -> BOOLEAN]
  /\ list \in [Places -> List]
  /\ changed \in BOOLEAN /\ broken \in BOOLEAN

\* speaker_init
Init ==
  /\ count = 0
  /\ id = <<>> /\ place = <<>> /\ deleted = <<>>
  /\ list = [p \in Places |-> [max |-> IF p \in DefaultPlaces THEN GrowStep ELSE 0,
                               len |-> 0,
                               speakers |-> [k \in Room |-> NULL]]]
  /\ changed = FALSE
  /\ broken = FALSE

Entries(l) == {l.speakers[k] : k \in 0 .. l.len - 1} \ {NULL}

\* Mutant: list->speakers[++list->len] = sp
AddedAfter(l, s) == [l EXCEPT !.speakers[l.len + 1] = s, !.len = l.len + 1]

\* list->speakers[list->len++] = sp
Added(l, s) == [l EXCEPT !.speakers[l.len] = s, !.len = l.len + 1]

Extended(g, s, v) == [t \in 0 .. s |-> IF t = s THEN v ELSE g[t]]

-----------------------------------------------------------------------------
(* add_speaker, followed by the caller's SPEAKER_STRUCT_INIT_FROM_HEADER,   *)
(* which writes the id: add_speaker does not. A known id gives back the     *)
(* speaker there is, wherever it is, and the caller's macro makes it live.  *)

\* Mutants: the list never grows; the id is not looked for; no upper limit.
NotGrown(l) == l
KnownToNobody(i) == {}
NoLimit == TRUE

Grown(l) == IF l.len >= l.max THEN [l EXCEPT !.max = l.max + GrowStep] ELSE l

Known(i)   == {s \in 0 .. count - 1 : id[s] = i}
HasRoom    == count < MaxSpeakers
CanGrow(l) == l.len < l.max \/ l.max < MaxSpeakers

add_speaker(i, p) ==
  \/ /\ ~broken
     /\ \E s \in Known(i) : deleted' = [deleted EXCEPT ![s] = FALSE]
     /\ UNCHANGED <<count, id, place, list, changed, broken>>
  \/ /\ ~broken
     /\ Known(i) = {}
     /\ HasRoom
     /\ CanGrow(list[p])
     /\ count' = count + 1
     /\ id' = Extended(id, count, i)
     /\ place' = Extended(place, count, p)
     /\ deleted' = Extended(deleted, count, FALSE)
     /\ list' = [list EXCEPT ![p] = Added(Grown(list[p]), count)]
     /\ UNCHANGED <<changed, broken>>

\* speaker_check_online: the state becomes ONLINE or OFFLINE.
speaker_check_online(s) ==
  /\ ~broken
  /\ deleted' = [deleted EXCEPT ![s] = FALSE]
  /\ UNCHANGED <<count, id, place, list, changed, broken>>

-----------------------------------------------------------------------------
(* change_channel                                                          *)

\* Mutant: the entry in the old list is not cleared.
WithoutNothing(l, s) == l

\* find_speaker_by_sp, then *tmp = NULL
Without(l, s) ==
  [l EXCEPT !.speakers = [k \in Room |-> IF k < l.len /\ @[k] = s THEN NULL ELSE @[k]]]

\* The number of entries pack_list_by_ch__ counts. Its inner loop always runs
\* to the end of the list, so that no entry is ever moved.
Kept(l, gone) ==
  Cardinality({k \in 0 .. l.len - 1 : l.speakers[k] /= NULL /\ l.speakers[k] \notin gone})

\* memset clears whole speakers where it means pointers, from the d-th on.
\* With d = l.len the size wraps around to almost 2^32 of them.
Wiped(l, d) == d + PointersPerSpeaker * (l.len - d - 1)

PackOverruns(l, gone) ==
  LET d == Kept(l, gone) IN d = l.len \/ Wiped(l, d) > l.max

Packed(l, gone) ==
  LET d == Kept(l, gone) IN
  [l EXCEPT !.len = d + 1,
            !.speakers = [k \in Room |-> IF k >= d /\ k < Wiped(l, d) THEN NULL ELSE @[k]]]

\* SPEAKERLIST_ADD does not grow the list. The speaker is left DELETED.
change_channel(s, p) ==
  /\ ~broken
  /\ place[s] /= p
  /\ place' = [place EXCEPT ![s] = p]
  /\ deleted' = [deleted EXCEPT ![s] = TRUE]
  /\ LET old  == Without(list[place[s]], s)
         gone == {t \in 0 .. count - 1 : deleted'[t]} IN
     IF list[p].len >= list[p].max \/ PackOverruns(old, gone)
     THEN broken' = TRUE /\ UNCHANGED list
     ELSE /\ list' = [list EXCEPT ![place[s]] = Packed(old, gone), ![p] = Added(@, s)]
          /\ UNCHANGED broken
  /\ changed' = TRUE
  /\ UNCHANGED <<count, id>>

-----------------------------------------------------------------------------
\* speaker_deinit, then speaker_init: memory is given back and taken anew, but
\* no length is reset. With a speaker in the registry they count what was never
\* written; without one the lists are as they were.
speaker_restart ==
  /\ ~broken
  /\ broken' = (count > 0)
  /\ UNCHANGED <<count, id, place, deleted, list, changed>>

-----------------------------------------------------------------------------
Next ==
  \/ \E i \in Ids, p \in Places : add_speaker(i, p)
  \/ \E s \in 0 .. count - 1 : speaker_check_online(s)
  \/ \E s \in 0 .. count - 1, p \in Places : change_channel(s, p)
  \/ speaker_restart

Spec == Init /\ [][Next]_vars

-----------------------------------------------------------------------------
(* Properties. *)

\* No two speakers have the same id, so that find_speaker_by_id means one
\* (add_speaker, as long as its callers write the id at once).
IdsUnique == Cardinality({id[s] : s \in 0 .. count - 1}) = count

\* Whatever is added and moved about, a speaker is in no list but that of its
\* own line and channel, and there at most once (add_speaker, change_channel,
\* pack_list_by_ch__). It may be missing there, see OnlyTheMovedLeave.
ListsAgree ==
  ~broken =>
    \A p \in Places : /\ \A s \in Entries(list[p]) : place[s] = p
                      /\ \A j, k \in 0 .. list[p].len - 1 :
                           list[p].speakers[j] = list[p].speakers[k] /\ j /= k
                             => list[p].speakers[j] = NULL

\* As long as nobody changes channels every speaker is in the list of its
\* line and channel, whatever order they are added in (add_speaker).
EveryoneListed ==
  ~changed => \A s \in 0 .. count - 1 : s \in Entries(list[place[s]])

\* No list is longer than its memory, although the lists of all lines but the
\* default one start out without any: what add_speaker adds has room, and
\* where change_channel adds without room the model has stopped
\* (grow_speakerlist).
ListsFit == \A p \in Places : list[p].len <= list[p].max

\* "remove sp from old list": a change of channel takes the speaker that moves
\* out of its old list, and nobody else out of any (change_channel).
OnlyTheMovedLeave ==
  [][\A p \in Places : \A s \in Entries(list[p]) \ Entries(list'[p]) : place'[s] /= place[s]]_vars
=============================================================================
