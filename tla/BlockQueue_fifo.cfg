SPECIFICATION FairSpec
CONSTANTS
  Producers = {p1, p2}
  Consumers = {c1}
  Data = {d1, d2}
  NoData = none
  Length = 3
  Flags = {TRUE}
  Waits = {"forever"}
  CallbackMayFail = TRUE
  SpuriousWakeups = TRUE
INVARIANT TypeOK
INVARIANT HeldSlotIsTheGap
PROPERTY ImplementsFairFifo
PROPERTY PoppedEntryStable
