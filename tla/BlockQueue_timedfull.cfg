SPECIFICATION Spec
CONSTANTS
  Producers = {p1, p2}
  Consumers = {c1}
  Data = {d1}
  NoData = none
  Length = 3
  Flags = {TRUE}
  Waits = {"timed"}
  CallbackMayFail = FALSE
  SpuriousWakeups = FALSE
PROPERTY FullQueueBlocksPush
