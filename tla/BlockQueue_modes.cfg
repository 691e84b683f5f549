SPECIFICATION FairSpec
CONSTANTS
  Producers = {p1}
  Consumers = {c1}
  Data = {d1, d2}
  NoData = none
  Length = 4
  Flags = {TRUE, FALSE}
  Waits = {"forever", "timed"}
  CallbackMayFail = TRUE
  SpuriousWakeups = FALSE
PROPERTY ImplementsFifo
PROPERTY PushReturns
