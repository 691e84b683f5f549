----------------------------- MODULE LogConfig -----------------------------
(***************************************************************************)
(* What log.c lets through to stderr: a default level, a table of filters  *)
(* that give single tags levels of their own, and the quiet switch.        *)
(*                                                                         *)
(* Names are compared in two ways, which the constants Folded and Cut tell *)
(* apart: strcmp on the stored names when a filter is set, strcasecmp when *)
(* it is looked up; and only 15 characters of a name are stored. A level   *)
(* string is the sequence of its parts, each a level for a name or the     *)
(* default one; what does not parse has the level Bad.                     *)
(***************************************************************************)
EXTENDS Integers, Sequences, SequencesExt

CONSTANTS
  Names,        \* names of filters and tags of messages
  Folded,       \* Folded[n]: n in lower case
  Cut,          \* Cut[n]: the first 15 characters of n
  Levels,       \* LOG_TRACE .. LOG_FATAL, as numbers
  MaxFilters,   \* MAX_FILTERS (32)
  MaxParts      \* bound on the parts of a level string

ASSUME LogAssumption ==
  /\ Folded \in [Names -> Names] /\ Cut \in [Names -> Names]
  /\ \A n \in Names : Folded[Folded[n]] = Folded[n] /\ Cut[Cut[n]] = Cut[n]
  /\ 0 \in Levels /\ Levels \subseteq Nat
  /\ {MaxFilters, MaxParts} \subseteq Nat \ {0}

Default == "default"   \* in place of a name: the default level
Bad     == -1          \* parse_level_string could not make sense of it

VARIABLES
  level,      \* L.level
  filter,     \* L.filter, L.filter_len
  quiet,      \* L.quiet
  wanted      \* history: the level last asked for, for the plain names that have one

logVars == <<level, filter, quiet, wanted>>

\* Names that fit, are spelled in one way only and are no other's beginning.
Plain(n) == /\ Cut[n] = n
            /\ \A m \in Names \ {n} : Folded[Cut[m]] /= Folded[n]

LogInit ==
  /\ level = 0
  /\ filter = <<>> /\ quiet = FALSE
  /\ wanted = <<>>

-----------------------------------------------------------------------------
(* Setting levels: log_set_level, log_add_filter,                          *)
(* log_set_level_from_string.                                              *)

Asked(w, n, l) ==
  IF Plain(n) THEN [m \in DOMAIN w \cup {n} |-> IF m = n THEN l ELSE w[m]] ELSE w

\* Mutant: the last filter is not looked at.
FilterNamedButLast(fs, n) == SelectInSeq(SubSeq(fs, 1, Len(fs) - 1), LAMBDA e : e.name = n)

\* The filter whose stored name is n, exactly as spelled; 0 if there is none.
FilterNamed(fs, n) == SelectInSeq(fs, LAMBDA e : e.name = n)

\* Mutant: a filter that is there is not changed.
SetOnce(fs, n, l) ==
  IF FilterNamed(fs, n) /= 0 \/ Len(fs) >= MaxFilters THEN fs
  ELSE Append(fs, [name |-> Cut[n], level |-> l])

\* Mutant: a new filter goes to the front.
SetFront(fs, n, l) ==
  IF FilterNamed(fs, n) /= 0 THEN [fs EXCEPT ![FilterNamed(fs, n)].level = l]
  ELSE IF Len(fs) >= MaxFilters THEN fs ELSE <<[name |-> Cut[n], level |-> l]>> \o fs

\* A full table refuses new names without a word.
SetFilter(fs, n, l) ==
  IF FilterNamed(fs, n) /= 0 THEN [fs EXCEPT ![FilterNamed(fs, n)].level = l]
  ELSE IF Len(fs) >= MaxFilters THEN fs
  ELSE Append(fs, [name |-> Cut[n], level |-> l])

log_set_level(l) ==
  /\ level' = l
  /\ UNCHANGED <<filter, quiet, wanted>>

log_add_filter(n, l) ==
  /\ filter' = SetFilter(filter, n, l)
  /\ wanted' = Asked(wanted, n, l)
  /\ UNCHANGED <<level, quiet>>

\* One part after the other, up to the first that does not parse or to where
\* the table is full; what came before stays in force.
Apply(c, part) ==
  IF c.stopped THEN c
  ELSE IF part.level = Bad THEN [c EXCEPT !.stopped = TRUE]
  ELSE LET d == IF part.name = Default
                THEN [c EXCEPT !.level = part.level]
                ELSE [c EXCEPT !.filter = SetFilter(c.filter, part.name, part.level),
                               !.wanted = Asked(c.wanted, part.name, part.level)]
       IN [d EXCEPT !.stopped = Len(d.filter) >= MaxFilters]

log_set_level_from_string(parts) ==
  LET after[k \in 0 .. Len(parts)] ==
        IF k = 0 THEN [level |-> level, filter |-> filter, wanted |-> wanted, stopped |-> FALSE]
        ELSE Apply(after[k - 1], parts[k])
      end == after[Len(parts)]
  IN /\ level' = end.level /\ filter' = end.filter /\ wanted' = end.wanted
     /\ UNCHANGED quiet

log_set_quiet(b) == quiet' = b /\ UNCHANGED <<level, filter, wanted>>

-----------------------------------------------------------------------------
(* Letting through: filter_log, which log_log asks for every message. *)

FilterFor(tag) == SelectInSeq(filter, LAMBDA e : Folded[e.name] = Folded[tag])

filter_log(tag, l) ==
  /\ ~quiet
  /\ l >= IF FilterFor(tag) /= 0 THEN filter[FilterFor(tag)].level ELSE level

-----------------------------------------------------------------------------
LevelParts == [name : Names \cup {Default}, level : Levels \cup {Bad}]

LogNext ==
  \/ \E l \in Levels : log_set_level(l)
  \/ \E n \in Names, l \in Levels : log_add_filter(n, l)
  \/ \E k \in 1 .. MaxParts : \E parts \in [1 .. k -> LevelParts] : log_set_level_from_string(parts)
  \/ \E b \in BOOLEAN : log_set_quiet(b)

LogSpec == LogInit /\ [][LogNext]_logVars

-----------------------------------------------------------------------------
(* Properties. *)

\* "name:level": as long as the table has room, a message with a plain tag is
\* printed if and only if it reaches the level last asked for its tag, or else
\* the default one, whichever way and in whatever order the levels were set
\* (log_add_filter, log_set_level_from_string, filter_log).
PrintedAsAsked ==
  Len(filter) < MaxFilters =>
    \A n \in Names, l \in Levels :
      Plain(n) => (filter_log(n, l) <=>
                     ~quiet /\ l >= IF n \in DOMAIN wanted THEN wanted[n] ELSE level)

\* Once a filter decides for a tag, no other filter ever does, so that a later
\* spelling of the name has no effect; and no tag loses its filter again
\* (log_add_filter, filter_log).
FiltersStay ==
  [][\A n \in Names : FilterFor(n) /= 0 => FilterFor(n)' = FilterFor(n)]_logVars

\* Names that are stored as they are have one filter: setting their level again
\* does not use up the table. (Each setting of a longer name does.)
OneFilterPerName ==
  \A n \in Names : (\A m \in Names \ {n} : Cut[m] /= n) =>
    \A j, k \in DOMAIN filter : filter[j].name = n /\ filter[k].name = n => j = k
=============================================================================
