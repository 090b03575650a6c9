------------------------------ MODULE MCWireEvm -----------------------------
(* One network, with wrapped ether.                                        *)
EXTENDS WireEvm

CONSTANTS n1, weth

MCCoins == [n \in Networks |-> <<weth>>]

MCSrcNetworks == SUBSET Networks \ {{}}
==============================================================================
