--------------------------- MODULE MCOracleMultisig ---------------------------
(***************************************************************************)
(* Small instances of OracleMultisig.                                      *)
(***************************************************************************)
EXTENDS OracleMultisig
==============================================================================
