\* Two caps, windows of two and three seconds, a window of 0 that disables all
\* sends, and a clock that passes several windows, also at once.
CONSTANTS
  Caps = {1, 3}
  Windows = {0, 2, 3}
  Jumps = {1, 4}
  MaxTime = 8
  MaxAmount = 3
SPECIFICATION Spec
INVARIANTS
  TypeOK
  OutflowBounded
  QuotedIsAccepted
PROPERTIES
  LoweredCapBinds
\* The clock is bounded, and a limiter whose cap is reached lets nothing in.
CHECK_DEADLOCK FALSE
