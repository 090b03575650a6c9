\* Two senders, of which one is trusted at a time, two messages each, and a
\* payload that the application accepts beside one that it rejects.
CONSTANTS
  UA = counter
  Remotes = {s1, s2}
  Payloads = {good, poison}
  Poison = {poison}
  MaxNonce = 2
  NoHash = NoHash
  NoRemote = NoRemote
SPECIFICATION FairSpec
INVARIANTS
  StoredIsPending
PROPERTIES
  ImplementsInbox
  EveryMessageIsTaken
\* The nonces are bounded.
CHECK_DEADLOCK FALSE
