---------------------------- MODULE BlockQueueMC ----------------------------
(***************************************************************************)
(* Instances of BlockQueue for TLC. The configurations give the threads as *)
(* model values; a set of threads is symmetric in every safety property.   *)
(***************************************************************************)
EXTENDS BlockQueue, TLC

ThreadSymmetry == Permutations(Producers) \cup Permutations(Consumers)
=============================================================================
