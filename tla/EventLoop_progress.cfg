SPECIFICATION FairSpec
CONSTANTS
  Connections = {a, b}
  NoConn = null
  TableSize = 2
  RepeatEdits = FALSE
  EditsMeet = FALSE
  Data = {d1}
  Nothing = nothing
  SelectCapacity = 1
  RecvCapacity = 1
  Editors = {"main", "callback"}
  SystemErrors = FALSE
  MaxSent = 2
INVARIANT OneToken
PROPERTY Delivery
PROPERTY DeletedGoesQuiet
