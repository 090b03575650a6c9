------------------------------ MODULE MCChannel ------------------------------
(***************************************************************************)
(* A small instance of Channel.  Remotes and hashes are interchangeable:   *)
(* no definition tells two of them apart.                                  *)
(***************************************************************************)
EXTENDS Channel, TLC

Symmetry == Permutations(Remotes) \union Permutations(Hashes)
==============================================================================
