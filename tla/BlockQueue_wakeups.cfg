SPECIFICATION Spec
CONSTANTS
  Producers = {p1, p2, p3}
  Consumers = {c1, c2, c3}
  Data = {d1}
  NoData = none
  Length = 3
  Flags = {TRUE}
  Waits = {"forever"}
  CallbackMayFail = FALSE
  SpuriousWakeups = FALSE
SYMMETRY ThreadSymmetry
INVARIANT NoLostWakeup
