---------------------------- MODULE MCNamespace ----------------------------
(***************************************************************************)
(* Instances of Namespace for TLC.                                         *)
(***************************************************************************)
EXTENDS Namespace, TLC

\* Names are interchangeable.
NameSymmetry == Permutations(Names)

\* The statements whose failure the handlers look at.
CheckedFailures == {"begin", "insert", "update", "delete", "commit"}

\* The same but for commits, and a crash between the statements of symlink.
Interruptions == {"begin", "insert", "update", "delete", "crash"}

NoFailures == {}
=============================================================================
