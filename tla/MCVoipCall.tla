----------------------------- MODULE MCVoipCall -----------------------------
(***************************************************************************)
(* VoipCall for TLC: two calls, two processes that work on them.           *)
(***************************************************************************)
EXTENDS VoipCall, TLC

=============================================================================
