------------------------------ MODULE MCDeploy ------------------------------
(* With one trouble: two operators of LayerZero, or one of it and one of    *)
(* the counter.  With two: one operator of LayerZero and two applications.  *)
EXTENDS Deploy

CONSTANTS a, b

Staff(first, second) == [o \in Operators |-> IF o = a THEN first ELSE second]

SingleHanded == Staff({"layerzero", "counter", "bridge"}, {})

MCStaffs ==
  {Staff({"layerzero"}, {"layerzero"}), Staff({"layerzero"}, {"counter"}), SingleHanded}

MCMaxTroubles == [s \in MCStaffs |-> IF s = SingleHanded THEN 2 ELSE 1]
==============================================================================
