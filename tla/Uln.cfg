\* Two payloads that compete for one nonce; one honest and one dishonest party
\* of each kind, and a chain that reorgs.
CONSTANTS
  UAs = {u1}
  Remotes = {s1}
  Payloads = {p1, p2}
  MaxNonce = 1
  NoHash = NoHash
  DstChains = {local}
  LocalChain = local
  Oracles = {o1, o2}
  Relayers = {r1, r2}
  HonestOracles = {o1}
  HonestRelayers = {r1}
  Null = Null
  Finality = 2
  MaxConfirmations = 2
  Versions = {"1.0", "default"}
SPECIFICATION FairSpec
INVARIANTS
  Genuine
PROPERTIES
  NoSubstitution
  FinalIsAccepted
\* Nonces, depths and claims are bounded.
CHECK_DEADLOCK FALSE
