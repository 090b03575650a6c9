----------------------------- MODULE MCUlnReceive -----------------------------
(***************************************************************************)
(* Small instances of UlnReceive, under weakly fair off-chain parties.     *)
(***************************************************************************)
EXTENDS UlnReceive
==============================================================================
