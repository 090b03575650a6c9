\* One administrator, two possible validators: enough for a threshold that the
\* validators do not reach.
CONSTANTS
  Accounts = {v1, v2}
  Bad = {}
  Admins = {a1}
  FirstAdmin = a1
  Hashes = {real}
  FakeHashes = {}
  MaxConfirmations = 1
  MaxThreshold = 3
SPECIFICATION Spec
INVARIANT EnoughValidators
\* Everything may end up submitted.
CHECK_DEADLOCK FALSE
