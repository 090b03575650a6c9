\* Two operators of LayerZero, or one of it and one of the counter, and one
\* trouble: an interruption, a failed compilation or a change of the sources; or one
\* operator of it all and two troubles, so that a build of old sources is there to
\* be published when a compilation fails.
SPECIFICATION DeploySpec
CONSTANTS
  a = a
  b = b
  Operators = {a, b}
  Staffs <- MCStaffs
  MaxTroubles <- MCMaxTroubles
INVARIANTS
  ReportedIsConfigured
  NoFailureUnprovoked
  ReportedIsCurrent
PROPERTY RerunsDeploy
\* Nothing is left to do once everything is deployed.
CHECK_DEADLOCK FALSE
