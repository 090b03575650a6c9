------------------------------- MODULE MCLzApp -------------------------------
(***************************************************************************)
(* Small instances of LzApp.                                               *)
(***************************************************************************)
EXTENDS LzApp
==============================================================================
