\* Three possible validators, one of them dishonest, one administrator, and
\* thresholds that run past the number of validators.
CONSTANTS
  Accounts = {v1, v2, v3}
  Bad = {v3}
  Admins = {a1}
  FirstAdmin = a1
  Hashes = {real, fake}
  FakeHashes = {fake}
  MaxConfirmations = 2
  MaxThreshold = 3
SPECIFICATION FairSpec
INVARIANTS
  FakeNeverProposed
  ProposedIsHighestSubmitted
PROPERTIES
  OverThresholdIsFinal
  ReachableIsProposed
\* Everything may end up submitted.
CHECK_DEADLOCK FALSE
