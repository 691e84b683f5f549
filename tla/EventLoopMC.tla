---------------------------- MODULE EventLoopMC ----------------------------
(***************************************************************************)
(* Instances of EventLoop for TLC. Connections differ only in the place    *)
(* the table gives them, and payloads in nothing but their identity: the   *)
(* safety properties are symmetric in both.                                *)
(***************************************************************************)
EXTENDS EventLoop, TLC

LoopSymmetry == Permutations(Connections) \cup Permutations(Data)
=============================================================================
