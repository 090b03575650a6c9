--------------------------- MODULE MCLimiterWindow ---------------------------
(***************************************************************************)
(* Small instances of LimiterWindow.                                       *)
(***************************************************************************)
EXTENDS LimiterWindow
==============================================================================
