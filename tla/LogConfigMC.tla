---------------------------- MODULE LogConfigMC ----------------------------
(***************************************************************************)
(* Names for TLC: a plain one, one in two spellings, and one that is too   *)
(* long beside what is left of it.                                         *)
(***************************************************************************)
EXTENDS LogConfig

MCNames  == {"event", "queue", "Queue", "verylong", "verylongname"}
MCFolded == [n \in MCNames |-> IF n = "Queue" THEN "queue" ELSE n]
MCCut    == [n \in MCNames |-> IF n = "verylongname" THEN "verylong" ELSE n]
=============================================================================
