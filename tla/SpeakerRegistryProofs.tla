----------------------- MODULE SpeakerRegistryProofs -----------------------
(***************************************************************************)
(* Theorems about SpeakerRegistry, for every number of speakers, lines and *)
(* channels and every size of memory.                                      *)
(***************************************************************************)
EXTENDS SpeakerRegistry, FiniteSetTheorems, TLAPS

Used == {id[s] : s \in 0 .. count - 1}

\* Lists point to speakers there are: a speaker that is added is in none.
PointersLive == \A p \in Places : \A k \in Room : list[p].speakers[k] < count

IInv == RegistryTypeOK /\ ListsFit /\ IsFiniteSet(Used) /\ IdsUnique /\ PointersLive /\ ListsAgree

-----------------------------------------------------------------------------
(* The operations on a list. *)

Fits(l) == l.len <= l.max

Distinct(l) ==
  \A j, k \in 0 .. l.len - 1 : l.speakers[j] = l.speakers[k] /\ j /= k => l.speakers[j] = NULL

\* grow_speakerlist makes room for an entry, within the limit, and touches none.
LEMMA GrownHasRoom ==
  ASSUME NEW l \in List, Fits(l), CanGrow(l)
  PROVE  /\ Grown(l) \in List
         /\ Grown(l).len = l.len /\ Grown(l).speakers = l.speakers
         /\ l.len < Grown(l).max
  <1>1. MaxSpeakers \in Nat \ {0} /\ GrowStep \in Nat \ {0}
    BY RegistryAssumption
  <1>2. CASE l.len >= l.max
    <2>1. l.len = l.max /\ l.max < MaxSpeakers
      BY <1>1, <1>2 DEF List, Fits, CanGrow
    <2>2. Grown(l) = [l EXCEPT !.max = l.max + GrowStep]
      BY <1>2 DEF Grown
    <2>3. l.max + GrowStep \in 0 .. MaxSpeakers + GrowStep
      BY <1>1, <2>1 DEF List
    <2> QED
      BY <1>1, <2>1, <2>2, <2>3 DEF List
  <1>3. CASE ~(l.len >= l.max)
    BY <1>1, <1>3 DEF List, Grown
  <1> QED
    BY <1>2, <1>3

\* list->speakers[list->len++] = sp: one entry more, and no other.
LEMMA AddedEntry ==
  ASSUME NEW l \in List, l.len < l.max, NEW s \in Speakers
  PROVE  /\ Added(l, s) \in List
         /\ Fits(Added(l, s))
         /\ Entries(Added(l, s)) = Entries(l) \cup {s}
         /\ Distinct(l) /\ s \notin Entries(l) => Distinct(Added(l, s))
         /\ \A k \in Room : Added(l, s).speakers[k] \in {l.speakers[k], s}
  <1>1. MaxSpeakers \in Nat \ {0} /\ GrowStep \in Nat \ {0}
    BY RegistryAssumption
  <1> DEFINE n == l.len
             a == Added(l, s)
  <1>2. n \in Room /\ n + 1 \in 0 .. MaxSpeakers + GrowStep /\ n \in Nat
    BY <1>1 DEF List, Room
  <1>3. a = [l EXCEPT !.speakers = [l.speakers EXCEPT ![n] = s], !.len = n + 1]
    BY DEF Added, List
  <1>4. a.len = n + 1 /\ a.max = l.max /\ a.speakers = [l.speakers EXCEPT ![n] = s] /\ a \in List
    BY <1>2, <1>3 DEF List
  <1>5. a.speakers[n] = s /\ \A k \in 0 .. n - 1 : a.speakers[k] = l.speakers[k] /\ k \in Room
    BY <1>1, <1>2, <1>4 DEF List, Room
  <1>6. 0 .. a.len - 1 = (0 .. n - 1) \cup {n}
    BY <1>2, <1>4
  <1>7. s /= NULL
    BY <1>1 DEF Speakers, NULL
  <1>8. Entries(a) = Entries(l) \cup {s}
    BY <1>5, <1>6, <1>7 DEF Entries
  <1>9. ASSUME Distinct(l), s \notin Entries(l)
        PROVE  Distinct(a)
    <2>1. \A k \in 0 .. n - 1 : l.speakers[k] /= s
      BY <1>7, <1>9 DEF Entries
    <2> QED
      BY <1>5, <1>6, <1>9, <2>1 DEF Distinct
  <1>10. \A k \in Room : a.speakers[k] \in {l.speakers[k], s}
    BY <1>4 DEF List
  <1> QED
    BY <1>2, <1>4, <1>8, <1>9, <1>10 DEF Fits, List

\* What change_channel and pack_list_by_ch__ leave of the old list, where they
\* stay within it: it fits, and the speaker that moves is not in it.
LEMMA PackedEntries ==
  ASSUME NEW l \in List, Fits(l), NEW s \in Speakers, NEW gone,
         ~PackOverruns(Without(l, s), gone)
  PROVE  LET a == Packed(Without(l, s), gone) IN
         /\ a \in List
         /\ Fits(a)
         /\ Entries(a) \subseteq Entries(l) \ {s}
         /\ Distinct(l) => Distinct(a)
         /\ \A k \in Room : a.speakers[k] \in {l.speakers[k], NULL}
  <1>1. MaxSpeakers \in Nat \ {0} /\ GrowStep \in Nat \ {0}
    BY RegistryAssumption
  <1> DEFINE w == Without(l, s)
             d == Kept(w, gone)
             a == Packed(w, gone)
  <1>2. /\ w \in List /\ w.len = l.len /\ w.max = l.max
        /\ w.speakers = [k \in Room |-> IF k < l.len /\ l.speakers[k] = s THEN NULL ELSE l.speakers[k]]
    BY DEF Without, List
  <1>3. d \in Nat /\ d < l.len
    <2> DEFINE K == {k \in 0 .. w.len - 1 : w.speakers[k] /= NULL /\ w.speakers[k] \notin gone}
    <2>1. l.len \in Nat
      BY <1>1, <1>2 DEF List
    <2>2. IsFiniteSet(0 .. w.len - 1) /\ Cardinality(0 .. w.len - 1) = l.len
      <3>1. w.len - 1 = l.len - 1 /\ l.len - 1 \in Int /\ 0 \in Int
        BY <1>2, <2>1
      <3>2. IsFiniteSet(0 .. l.len - 1) /\ Cardinality(0 .. l.len - 1) = l.len
        BY <2>1, <3>1, FS_Interval, SMTT(30)
      <3> QED
        BY <3>1, <3>2
    <2>3. IsFiniteSet(K) /\ Cardinality(K) <= l.len
      <3>1. K \in SUBSET (0 .. w.len - 1)
        OBVIOUS
      <3> HIDE DEF K
      <3> QED
        BY <2>2, <3>1, FS_Subset
    <2>4. d = Cardinality(K) /\ Cardinality(K) \in Nat
      <3>1. d = Cardinality(K)
        BY DEF Kept
      <3> HIDE DEF K, d
      <3> QED
        BY <2>3, <3>1, FS_CardinalityType
    <2>5. d /= w.len
      BY DEF PackOverruns
    <2> HIDE DEF d, K
    <2> QED
      BY <1>2, <2>1, <2>3, <2>4, <2>5
  <1>4. a = [w EXCEPT !.len = d + 1,
                      !.speakers = [k \in Room |-> IF k >= d /\ k < Wiped(w, d) THEN NULL ELSE w.speakers[k]]]
    BY DEF Packed
  <1> HIDE DEF d
  <1>5. d + 1 \in 0 .. MaxSpeakers + GrowStep /\ d + 1 <= l.len
    BY <1>1, <1>3 DEF List
  <1>6. /\ a.len = d + 1 /\ a.max = l.max
        /\ a.speakers = [k \in Room |-> IF k >= d /\ k < Wiped(w, d) THEN NULL ELSE w.speakers[k]]
    BY <1>2, <1>4 DEF List
  <1>7. \A k \in Room : a.speakers[k] \in {w.speakers[k], NULL}
    BY <1>6
  <1>8. \A k \in Room : w.speakers[k] \in {l.speakers[k], NULL}
    BY <1>2
  <1>9. a \in List
    <2>1. a.speakers \in [Room -> Speakers \cup {NULL}]
      BY <1>2, <1>6 DEF List
    <2> QED
      BY <1>2, <1>4, <1>5, <1>6, <2>1 DEF List
  <1>10. 0 .. a.len - 1 \subseteq 0 .. l.len - 1 /\ 0 .. l.len - 1 \subseteq Room
    BY <1>1, <1>3, <1>5, <1>6 DEF List, Room
  <1>11. \A k \in 0 .. a.len - 1 : a.speakers[k] \in {l.speakers[k], NULL} /\ a.speakers[k] /= s
    <2>1. \A k \in 0 .. l.len - 1 : w.speakers[k] /= s
      BY <1>1, <1>2, <1>10 DEF List, Speakers, NULL
    <2> QED
      BY <1>1, <1>7, <1>8, <1>10, <2>1 DEF Speakers, NULL
  <1>12. Entries(a) \subseteq Entries(l) \ {s}
    BY <1>10, <1>11 DEF Entries
  <1>13. Distinct(l) => Distinct(a)
    BY <1>10, <1>11 DEF Distinct
  <1>14. Fits(a)
    BY <1>1, <1>3, <1>5, <1>6 DEF Fits, List
  <1> QED
    BY <1>7, <1>8, <1>9, <1>12, <1>13, <1>14

-----------------------------------------------------------------------------
(* The inductive invariant.                                                *)

LEMMA InvInit == Init => IInv
  <1> SUFFICES ASSUME Init
               PROVE  IInv
    OBVIOUS
  <1>1. MaxSpeakers \in Nat \ {0} /\ GrowStep \in Nat \ {0}
    BY RegistryAssumption
  <1>2. count = 0 /\ 0 .. count - 1 = {} /\ changed = FALSE /\ broken = FALSE
    BY DEF Init
  <1>3. \A p \in Places : /\ list[p] \in List /\ list[p].len = 0 /\ list[p].max \in Nat
                          /\ \A k \in Room : list[p].speakers[k] = NULL
    BY <1>1 DEF Init, List
  <1>4. list \in [Places -> List]
    BY <1>1 DEF Init, List
  <1>5. id \in [{} -> Ids] /\ place \in [{} -> Places] /\ deleted \in [{} -> BOOLEAN]
    BY DEF Init
  <1>6. RegistryTypeOK
    <2>1. count \in 0 .. MaxSpeakers
      BY <1>1, <1>2
    <2>2. changed \in BOOLEAN /\ broken \in BOOLEAN
      BY <1>2
    <2> QED
      BY <1>2, <1>4, <1>5, <2>1, <2>2 DEF RegistryTypeOK
  <1>7. Used = {} /\ IsFiniteSet(Used) /\ Cardinality(Used) = 0
    BY <1>2, FS_EmptySet DEF Used
  <1>8. IdsUnique
    BY <1>2, <1>7 DEF IdsUnique, Used
  <1>9. PointersLive
    BY <1>2, <1>3 DEF PointersLive, NULL
  <1>10. ListsAgree
    BY <1>3 DEF ListsAgree, Entries
  <1>11. ListsFit
    BY <1>3 DEF ListsFit
  <1> QED
    BY <1>6, <1>7, <1>8, <1>9, <1>10, <1>11 DEF IInv

\* Steps that leave lists, ids and places alone.
LEMMA LeavesLists ==
  ASSUME IInv, UNCHANGED <<count, id, place, list>>,
         deleted' \in [0 .. count - 1 -> BOOLEAN], changed' \in BOOLEAN, broken' \in BOOLEAN,
         broken => broken'
  PROVE  IInv'
  BY DEF IInv, RegistryTypeOK, ListsFit, Used, IdsUnique, PointersLive, ListsAgree, Entries

LEMMA AddKeepsInv ==
  ASSUME IInv, NEW i \in Ids, NEW p \in Places, add_speaker(i, p)
  PROVE  IInv'
  <1>1. CASE \E s \in Known(i) : deleted' = [deleted EXCEPT ![s] = FALSE]
             /\ UNCHANGED <<count, id, place, list, changed, broken>>
    <2>1. deleted' \in [0 .. count - 1 -> BOOLEAN] /\ changed' \in BOOLEAN /\ broken' \in BOOLEAN
      BY <1>1 DEF IInv, RegistryTypeOK
    <2> QED
      BY <1>1, <2>1, LeavesLists
  <1>2. CASE ~broken /\ Known(i) = {} /\ HasRoom /\ CanGrow(list[p])
             /\ count' = count + 1
             /\ id' = Extended(id, count, i)
             /\ place' = Extended(place, count, p)
             /\ deleted' = Extended(deleted, count, FALSE)
             /\ list' = [list EXCEPT ![p] = Added(Grown(list[p]), count)]
             /\ UNCHANGED <<changed, broken>>
    <2> DEFINE a == Added(Grown(list[p]), count)
    <2>1. MaxSpeakers \in Nat \ {0} /\ count \in Nat /\ count < MaxSpeakers /\ count \in Speakers
      BY <1>2, RegistryAssumption DEF IInv, RegistryTypeOK, HasRoom, Speakers
    <2>2. list \in [Places -> List] /\ list[p] \in List /\ Fits(list[p])
      BY DEF IInv, RegistryTypeOK, ListsFit, Fits
    <2>3. /\ Grown(list[p]) \in List /\ Grown(list[p]).len = list[p].len
          /\ Grown(list[p]).speakers = list[p].speakers /\ list[p].len < Grown(list[p]).max
      BY <1>2, <2>2, GrownHasRoom
    <2>4. Entries(Grown(list[p])) = Entries(list[p])
      BY <2>3 DEF Entries
    <2>5. Distinct(Grown(list[p])) <=> Distinct(list[p])
      BY <2>3 DEF Distinct
    <2>6. /\ a \in List /\ Fits(a)
          /\ Entries(a) = Entries(list[p]) \cup {count}
          /\ Distinct(list[p]) /\ count \notin Entries(list[p]) => Distinct(a)
          /\ \A k \in Room : a.speakers[k] \in {list[p].speakers[k], count}
      BY <2>1, <2>3, <2>4, <2>5, AddedEntry
    <2> HIDE DEF a
    <2>7. list' \in [Places -> List] /\ list'[p] = a /\ \A q \in Places \ {p} : list'[q] = list[q]
      BY <1>2, <2>2, <2>6 DEF a
    <2>8. 0 .. count' - 1 = 0 .. count /\ 0 .. count = (0 .. count - 1) \cup {count}
      BY <1>2, <2>1
    <2>9. /\ id' \in [0 .. count -> Ids] /\ id'[count] = i /\ \A t \in 0 .. count - 1 : id'[t] = id[t]
          /\ place' \in [0 .. count -> Places] /\ place'[count] = p
          /\ \A t \in 0 .. count - 1 : place'[t] = place[t]
          /\ deleted' \in [0 .. count -> BOOLEAN]
      <3>1. id \in [0 .. count - 1 -> Ids] /\ place \in [0 .. count - 1 -> Places]
            /\ deleted \in [0 .. count - 1 -> BOOLEAN]
        BY DEF IInv, RegistryTypeOK
      <3>2. /\ id' \in [0 .. count -> Ids] /\ id'[count] = i
            /\ \A t \in 0 .. count - 1 : id'[t] = id[t]
        BY <1>2, <2>1, <3>1 DEF Extended
      <3>3. /\ place' \in [0 .. count -> Places] /\ place'[count] = p
            /\ \A t \in 0 .. count - 1 : place'[t] = place[t]
        BY <1>2, <2>1, <3>1 DEF Extended
      <3>4. deleted' \in [0 .. count -> BOOLEAN]
        <4>1. \A t \in 0 .. count : t = count \/ t \in 0 .. count - 1
          BY <2>1
        <4>2. deleted' = [t \in 0 .. count |-> IF t = count THEN FALSE ELSE deleted[t]]
          BY <1>2 DEF Extended
        <4> QED
          BY <3>1, <4>1, <4>2, Zenon
      <3> QED
        BY <3>2, <3>3, <3>4
    <2>10. RegistryTypeOK'
      <3>1. count' \in 0 .. MaxSpeakers
        BY <1>2, <2>1
      <3>2. changed' \in BOOLEAN /\ broken' \in BOOLEAN
        BY <1>2 DEF IInv, RegistryTypeOK
      <3> QED
        BY <2>7, <2>8, <2>9, <3>1, <3>2 DEF RegistryTypeOK
    <2>11. ListsFit'
      BY <2>6, <2>7 DEF IInv, ListsFit, Fits
    <2>12. IsFiniteSet(Used') /\ IdsUnique'
      <3>1. Used' = Used \cup {i}
        <4>1. Used' = {id'[t] : t \in (0 .. count - 1) \cup {count}}
          BY <2>8 DEF Used
        <4> QED
          BY <2>9, <4>1 DEF Used
      <3>2. i \notin Used
        BY <1>2 DEF Known, Used
      <3>3. IsFiniteSet(Used) /\ Cardinality(Used) = count
        BY DEF IInv, IdsUnique, Used
      <3>4. IsFiniteSet(Used \cup {i}) /\ Cardinality(Used \cup {i}) = count + 1
        BY <3>2, <3>3, FS_AddElement
      <3>5. IdsUnique' <=> Cardinality(Used') = count'
        BY DEF IdsUnique, Used
      <3> QED
        BY <1>2, <3>1, <3>4, <3>5
    <2>13. \A q \in Places : \A s \in Entries(list[q]) : s \in 0 .. count - 1
      <3> SUFFICES ASSUME NEW q \in Places, NEW k \in 0 .. list[q].len - 1, list[q].speakers[k] /= NULL
                   PROVE  list[q].speakers[k] \in 0 .. count - 1
        BY DEF Entries
      <3>1. k \in Room
        BY RegistryAssumption DEF IInv, RegistryTypeOK, List, ListsFit, Room
      <3>2. list[q].speakers[k] \in Speakers \cup {NULL} /\ list[q].speakers[k] < count
        BY <3>1 DEF IInv, RegistryTypeOK, List, PointersLive
      <3> QED
        BY <2>1, <3>2 DEF Speakers
    <2>14. PointersLive'
      <3> SUFFICES ASSUME NEW q \in Places, NEW k \in Room
                   PROVE  list'[q].speakers[k] < count'
        BY DEF PointersLive
      <3>1. list[q].speakers[k] \in Int /\ list[q].speakers[k] < count
        BY <2>1 DEF IInv, RegistryTypeOK, List, PointersLive, Speakers, NULL
      <3> QED
        BY <1>2, <2>1, <2>6, <2>7, <3>1
    <2>15. ListsAgree'
      <3>1. \A q \in Places : Distinct(list[q]) /\ \A s \in Entries(list[q]) : place[s] = q
        BY <1>2 DEF IInv, ListsAgree, Distinct
      <3>2. Distinct(a) /\ \A s \in Entries(a) : place'[s] = p
        BY <2>1, <2>6, <2>9, <2>13, <3>1
      <3>3. \A q \in Places \ {p} : \A s \in Entries(list[q]) : place'[s] = q
        BY <2>9, <2>13, <3>1
      <3>4. \A q \in Places : Distinct(list'[q]) /\ \A s \in Entries(list'[q]) : place'[s] = q
        BY <2>7, <3>1, <3>2, <3>3
      <3> QED
        BY <3>4 DEF ListsAgree, Entries, Distinct
    <2> QED
      BY <2>10, <2>11, <2>12, <2>14, <2>15 DEF IInv
  <1> QED
    BY <1>1, <1>2 DEF add_speaker

LEMMA ChangeKeepsInv ==
  ASSUME IInv, NEW s \in 0 .. count - 1, NEW p \in Places, change_channel(s, p)
  PROVE  IInv'
  <1> DEFINE o == place[s]
             old == Without(list[o], s)
             gone == {t \in 0 .. count - 1 : deleted'[t]}
             k == Packed(old, gone)
  <1>1. s \in Speakers /\ o \in Places /\ o /= p /\ count \in Nat /\ ~broken
    BY RegistryAssumption DEF IInv, RegistryTypeOK, Speakers, change_channel
  <1>2. /\ list \in [Places -> List]
        /\ \A q \in Places : Fits(list[q]) /\ Distinct(list[q])
        /\ \A q \in Places : \A t \in Entries(list[q]) : place[t] = q
    BY <1>1 DEF IInv, RegistryTypeOK, ListsFit, Fits, ListsAgree, Distinct
  <1>3. /\ count' = count /\ id' = id /\ place' = [place EXCEPT ![s] = p]
        /\ deleted' = [deleted EXCEPT ![s] = TRUE] /\ changed' = TRUE
    BY DEF change_channel
  <1>4. deleted' \in [0 .. count - 1 -> BOOLEAN] /\ changed' \in BOOLEAN
    BY <1>3 DEF IInv, RegistryTypeOK
  <1>5. place' \in [0 .. count - 1 -> Places] /\ place'[s] = p
        /\ \A t \in 0 .. count - 1 : t /= s => place'[t] = place[t]
    BY <1>3 DEF IInv, RegistryTypeOK
  <1>6. IsFiniteSet(Used') /\ IdsUnique'
    BY <1>3 DEF IInv, Used, IdsUnique
  <1>7. CASE list' = list /\ broken' = TRUE
    <2>1. RegistryTypeOK'
      BY <1>3, <1>4, <1>5, <1>7 DEF IInv, RegistryTypeOK
    <2>2. ListsFit' /\ PointersLive' /\ ListsAgree'
      BY <1>3, <1>7 DEF IInv, ListsFit, PointersLive, ListsAgree
    <2> QED
      BY <1>6, <2>1, <2>2 DEF IInv
  <1>8. CASE /\ list[p].len < list[p].max /\ ~PackOverruns(old, gone) /\ broken' = broken
             /\ list' = [list EXCEPT ![o] = k, ![p] = Added(list[p], s)]
    <2> DEFINE a == Added(list[p], s)
    <2>1. /\ k \in List /\ Fits(k) /\ Distinct(k)
          /\ Entries(k) \subseteq Entries(list[o]) \ {s}
          /\ \A n \in Room : k.speakers[n] \in {list[o].speakers[n], NULL}
      <3>1. list[o] \in List /\ Fits(list[o]) /\ Distinct(list[o])
        BY <1>1, <1>2
      <3> QED
        BY <1>1, <1>8, <3>1, PackedEntries
    <2>2. s \notin Entries(list[p])
      BY <1>1, <1>2
    <2>3. /\ a \in List /\ Fits(a) /\ Distinct(a)
          /\ Entries(a) = Entries(list[p]) \cup {s}
          /\ \A n \in Room : a.speakers[n] \in {list[p].speakers[n], s}
      <3>1. list[p] \in List /\ list[p].len < list[p].max /\ Distinct(list[p])
        BY <1>2, <1>8
      <3> QED
        BY <1>1, <2>2, <3>1, AddedEntry
    <2> HIDE DEF a, k
    <2>4. /\ list' \in [Places -> List] /\ list'[o] = k /\ list'[p] = a
          /\ \A q \in Places \ {o, p} : list'[q] = list[q]
      BY <1>1, <1>2, <1>8, <2>1, <2>3 DEF a
    <2>5. RegistryTypeOK'
      <3>1. broken' \in BOOLEAN
        BY <1>8 DEF IInv, RegistryTypeOK
      <3> QED
        BY <1>3, <1>4, <1>5, <2>4, <3>1 DEF IInv, RegistryTypeOK
    <2>6. ListsFit'
      <3>1. \A q \in Places : Fits(list'[q])
        BY <1>2, <2>1, <2>3, <2>4
      <3> QED
        BY <3>1 DEF ListsFit, Fits
    <2>7. PointersLive'
      <3> SUFFICES ASSUME NEW q \in Places, NEW n \in Room
                   PROVE  list'[q].speakers[n] < count
        BY <1>3 DEF PointersLive
      <3>1. \A r \in Places : list[r].speakers[n] < count
        BY DEF IInv, PointersLive
      <3>2. s < count /\ NULL < count
        BY <1>1 DEF NULL
      <3> QED
        BY <1>1, <2>1, <2>3, <2>4, <3>1, <3>2
    <2>8. ListsAgree'
      <3>1. \A q \in Places : \A t \in Entries(list[q]) : t /= s /\ t \in 0 .. count - 1 => place'[t] = q
        BY <1>2, <1>5
      <3>2. \A q \in Places : \A t \in Entries(list[q]) : t \in 0 .. count - 1
        <4> SUFFICES ASSUME NEW q \in Places, NEW n \in 0 .. list[q].len - 1, list[q].speakers[n] /= NULL
                     PROVE  list[q].speakers[n] \in 0 .. count - 1
          BY DEF Entries
        <4>a. list[q] \in List
          BY DEF IInv, RegistryTypeOK
        <4>b. list[q].len \in Nat /\ list[q].max \in 0 .. MaxSpeakers + GrowStep
          BY <4>a DEF List
        <4>c. list[q].len <= list[q].max
          BY DEF IInv, ListsFit
        <4>1. n \in Room
          BY <4>b, <4>c, RegistryAssumption DEF Room
        <4>2. list[q].speakers[n] \in Speakers \cup {NULL} /\ list[q].speakers[n] < count
          BY <4>1 DEF IInv, RegistryTypeOK, List, PointersLive
        <4> QED
          BY <1>1, <4>2 DEF Speakers
      <3>3. \A q \in Places \ {o, p} : s \notin Entries(list[q])
        BY <1>2
      <3>4. \A t \in Entries(k) : place'[t] = o
        BY <1>1, <2>1, <3>1, <3>2
      <3>5. \A t \in Entries(a) : place'[t] = p
        BY <1>5, <2>2, <2>3, <3>1, <3>2
      <3>6. \A q \in Places \ {o, p} : \A t \in Entries(list[q]) : place'[t] = q
        BY <3>1, <3>2, <3>3
      <3>7. \A q \in Places : Distinct(list'[q]) /\ \A t \in Entries(list'[q]) : place'[t] = q
        BY <1>2, <2>1, <2>3, <2>4, <3>4, <3>5, <3>6
      <3> QED
        BY <3>7 DEF ListsAgree, Entries, Distinct
    <2> QED
      BY <1>6, <2>5, <2>6, <2>7, <2>8 DEF IInv
  <1>9. \/ list' = list /\ broken' = TRUE
        \/ /\ list[p].len < list[p].max /\ ~PackOverruns(old, gone) /\ broken' = broken
           /\ list' = [list EXCEPT ![o] = k, ![p] = Added(list[p], s)]
    <2>1. \/ (list[p].len >= list[p].max \/ PackOverruns(old, gone)) /\ list' = list /\ broken' = TRUE
          \/ /\ ~(list[p].len >= list[p].max \/ PackOverruns(old, gone)) /\ broken' = broken
             /\ list' = [list EXCEPT ![o] = k, ![p] = Added(@, s)]
      BY DEF change_channel
    <2>2. list[p].len \in Int /\ list[p].max \in Int
      BY <1>2 DEF List
    <2>3. [list EXCEPT ![o] = k, ![p] = Added(@, s)] = [list EXCEPT ![o] = k, ![p] = Added(list[p], s)]
      BY <1>1, <1>2
    <2> QED
      BY <2>1, <2>2, <2>3
  <1> QED
    BY <1>7, <1>8, <1>9

\* The invariant holds throughout: one step per operation.
LEMMA StepKeepsInv == IInv /\ [Next]_vars => IInv'
  <1> SUFFICES ASSUME IInv, [Next]_vars
               PROVE  IInv'
    OBVIOUS
  <1>1. CASE \E i \in Ids, p \in Places : add_speaker(i, p)
    BY <1>1, AddKeepsInv
  <1>2. CASE \E s \in 0 .. count - 1 : speaker_check_online(s)
    <2>1. /\ deleted' \in [0 .. count - 1 -> BOOLEAN]
          /\ UNCHANGED <<count, id, place, list, changed, broken>>
      BY <1>2 DEF speaker_check_online, IInv, RegistryTypeOK
    <2>2. changed' \in BOOLEAN /\ broken' \in BOOLEAN
      BY <2>1 DEF IInv, RegistryTypeOK
    <2> QED
      BY <2>1, <2>2, LeavesLists
  <1>3. CASE \E s \in 0 .. count - 1, p \in Places : change_channel(s, p)
    BY <1>3, ChangeKeepsInv
  <1>4. CASE speaker_restart
    <2>1. /\ ~broken /\ broken' = (count > 0)
          /\ UNCHANGED <<count, id, place, list, deleted, changed>>
      BY <1>4 DEF speaker_restart
    <2>2. deleted' \in [0 .. count - 1 -> BOOLEAN] /\ changed' \in BOOLEAN /\ broken' \in BOOLEAN
      BY <2>1 DEF IInv, RegistryTypeOK
    <2> QED
      BY <2>1, <2>2, LeavesLists
  <1>5. CASE UNCHANGED vars
    <2>1. UNCHANGED <<count, id, place, list, deleted, changed, broken>>
      BY <1>5 DEF vars
    <2>2. deleted' \in [0 .. count - 1 -> BOOLEAN] /\ changed' \in BOOLEAN /\ broken' \in BOOLEAN
      BY <2>1 DEF IInv, RegistryTypeOK
    <2> QED
      BY <2>1, <2>2, LeavesLists
  <1> QED
    BY <1>1, <1>2, <1>3, <1>4, <1>5 DEF Next

LEMMA InvHolds == Spec => []IInv
  BY InvInit, StepKeepsInv, PTL DEF Spec

\* Speakers, their fields and the lists keep their types: no list, however its
\* speakers are added and moved, outgrows the limit of grow_speakerlist.
THEOREM RegistryTypeCorrect == Spec => []RegistryTypeOK
  <1>1. IInv => RegistryTypeOK
    BY DEF IInv
  <1> QED
    BY <1>1, InvHolds, PTL

\* No two speakers of the flat list have the same id (find_speaker_by_id,
\* add_speaker).
THEOREM IdsStayUnique == Spec => []IdsUnique
  <1>1. IInv => IdsUnique
    BY DEF IInv
  <1> QED
    BY <1>1, InvHolds, PTL

\* No list is longer than its memory (grow_speakerlist, pack_list_by_ch__).
THEOREM ListsAlwaysFit == Spec => []ListsFit
  <1>1. IInv => ListsFit
    BY DEF IInv
  <1> QED
    BY <1>1, InvHolds, PTL

\* A speaker is in no list but that of its line and channel, and there at most
\* once (add_speaker, change_channel, pack_list_by_ch__).
THEOREM ListsAlwaysAgree == Spec => []ListsAgree
  <1>1. IInv => ListsAgree
    BY DEF IInv
  <1> QED
    BY <1>1, InvHolds, PTL

-----------------------------------------------------------------------------
(* Who is only added is listed.                                            *)

LEMMA AddKeepsListed ==
  ASSUME IInv, EveryoneListed, NEW i \in Ids, NEW p \in Places, add_speaker(i, p)
  PROVE  EveryoneListed'
  <1>1. CASE UNCHANGED <<count, place, list, changed>>
    BY <1>1 DEF EveryoneListed, Entries
  <1>2. CASE ~changed' /\ ~broken /\ Known(i) = {} /\ HasRoom /\ CanGrow(list[p])
             /\ count' = count + 1
             /\ place' = Extended(place, count, p)
             /\ list' = [list EXCEPT ![p] = Added(Grown(list[p]), count)]
             /\ UNCHANGED <<changed, broken>>
    <2> DEFINE a == Added(Grown(list[p]), count)
    <2>1. MaxSpeakers \in Nat \ {0} /\ count \in Nat /\ count \in Speakers
      BY <1>2, RegistryAssumption DEF IInv, RegistryTypeOK, HasRoom, Speakers
    <2>2. list \in [Places -> List] /\ list[p] \in List /\ Fits(list[p])
      BY DEF IInv, RegistryTypeOK, ListsFit, Fits
    <2>3. /\ Grown(list[p]) \in List /\ Grown(list[p]).len = list[p].len
          /\ Grown(list[p]).speakers = list[p].speakers /\ list[p].len < Grown(list[p]).max
      BY <1>2, <2>2, GrownHasRoom
    <2>4. Entries(Grown(list[p])) = Entries(list[p])
      BY <2>3 DEF Entries
    <2>5. Entries(a) = Entries(list[p]) \cup {count}
      BY <2>1, <2>3, <2>4, AddedEntry
    <2> HIDE DEF a
    <2>6. list'[p] = a /\ \A q \in Places \ {p} : list'[q] = list[q]
      BY <1>2, <2>2 DEF a
    <2>7. \A q \in Places : Entries(list[q]) \subseteq Entries(list'[q])
      BY <2>5, <2>6
    <2>8. place \in [0 .. count - 1 -> Places]
      BY DEF IInv, RegistryTypeOK
    <2>9. place'[count] = p /\ \A t \in 0 .. count - 1 : place'[t] = place[t]
      BY <1>2, <2>1, <2>8 DEF Extended
    <2>10. \A t \in 0 .. count - 1 : t \in Entries(list[place[t]])
      BY <1>2 DEF EveryoneListed
    <2>11. \A t \in 0 .. count' - 1 : t = count \/ t \in 0 .. count - 1
      BY <1>2, <2>1
    <2>12. \A t \in 0 .. count' - 1 : t \in Entries(list'[place'[t]])
      BY <2>5, <2>6, <2>7, <2>8, <2>9, <2>10, <2>11
    <2> QED
      BY <2>12 DEF EveryoneListed, Entries
  <1>3. CASE changed'
    BY <1>3 DEF EveryoneListed
  <1> QED
    BY <1>1, <1>2, <1>3 DEF add_speaker

\* As long as nobody changes channels every speaker is in the list of its line
\* and channel, whatever memory the lists start with (add_speaker).
THEOREM EveryoneStaysListed == Spec => []EveryoneListed
  <1>1. Init => EveryoneListed
    BY DEF Init, EveryoneListed
  <1>2. IInv /\ EveryoneListed /\ [Next]_vars => EveryoneListed'
    <2> SUFFICES ASSUME IInv, EveryoneListed, [Next]_vars
                 PROVE  EveryoneListed'
      OBVIOUS
    <2>1. CASE \E i \in Ids, p \in Places : add_speaker(i, p)
      BY <2>1, AddKeepsListed
    <2>2. CASE \E s \in 0 .. count - 1, p \in Places : change_channel(s, p)
      <3>1. changed' = TRUE
        BY <2>2 DEF change_channel
      <3> QED
        BY <3>1 DEF EveryoneListed
    <2>3. CASE (\E s \in 0 .. count - 1 : speaker_check_online(s)) \/ speaker_restart \/ UNCHANGED vars
      <3>1. UNCHANGED <<count, place, list, changed>>
        BY <2>3 DEF speaker_check_online, speaker_restart, vars
      <3> QED
        BY <3>1 DEF EveryoneListed, Entries
    <2> QED
      BY <2>1, <2>2, <2>3 DEF Next
  <1> QED
    BY <1>1, <1>2, InvHolds, PTL DEF Spec
=============================================================================
