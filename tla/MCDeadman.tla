----------------------------- MODULE MCDeadman -----------------------------
(***************************************************************************)
(* Instances of Deadman for TLC.                                           *)
(***************************************************************************)
EXTENDS Deadman

\* A trigger that always errors, one that may error or fire, one that may fire.
MixedTriggers == <<"rpc", "custom", "network", "heartbeat">>

ThreePhases == <<"keys", "custom", "database">>
=============================================================================
