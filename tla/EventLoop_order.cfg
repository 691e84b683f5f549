SPECIFICATION Spec
CONSTANTS
  Connections = {a, b}
  NoConn = null
  TableSize = 2
  Editors = {"main", "callback", "udp"}
  RepeatEdits = FALSE
  EditsMeet = FALSE
  Data = {d1, d2}
  Nothing = nothing
  SelectCapacity = 2
  RecvCapacity = 1
  SystemErrors = TRUE
  MaxSent = 2
SYMMETRY LoopSymmetry
INVARIANT TypeOK
INVARIANT MainNeverBlocks
PROPERTY ImplementsService
INVARIANT TableExact
PROPERTY DeletedStaysQuiet
