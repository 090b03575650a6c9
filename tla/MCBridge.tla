------------------------------- MODULE MCBridge -------------------------------
(***************************************************************************)
(* Small instances of Bridge.                                              *)
(***************************************************************************)
EXTENDS Bridge, TLC

\* Nothing tells two chains apart.
ChainSymmetry == Permutations(Chains)
==============================================================================
