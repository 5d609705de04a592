----------------------------- MODULE MCVolumes -----------------------------
(***************************************************************************)
(* An instance of Volumes for TLC.                                         *)
(***************************************************************************)
EXTENDS Volumes, TLC

\* Requests, commands and blocks are interchangeable.
ProcSymmetry == Permutations(Tasks) \cup Permutations(Clis) \cup Permutations(Blocks)

\* Bound: on the requests and commands that are under way at once.
AtMostThree == Cardinality({p \in Procs : ~At(p, "idle")}) <= 3
=============================================================================
