---------------------------- MODULE MCTelegram -----------------------------
(***************************************************************************)
(* An instance of Telegram for TLC.                                        *)
(***************************************************************************)
EXTENDS Telegram
=============================================================================
