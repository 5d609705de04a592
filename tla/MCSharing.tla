----------------------------- MODULE MCSharing -----------------------------
(***************************************************************************)
(* An instance of Sharing for TLC.                                         *)
(***************************************************************************)
EXTENDS Sharing, TLC

\* Connections, requests and invites are interchangeable.
SharingSymmetry == Permutations(Conns) \cup Permutations(Tasks) \cup Permutations(Invites)
=============================================================================
