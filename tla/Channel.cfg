\* One UA, two remotes, two hashes: a hash can be replaced, and a step on one
\* channel can be told from a step on the other.
CONSTANTS
  UAs = {counter}
  Remotes = {r1, r2}
  Hashes = {h1, h2}
  MaxNonce = 3
  NoHash = NoHash
SPECIFICATION Spec
SYMMETRY Symmetry
INVARIANTS
  TypeOK
  NoStaleHash
  HandedInOrder
PROPERTY HandedOnce
\* The nonces are bounded: the channels stop once all are used.
CHECK_DEADLOCK FALSE
