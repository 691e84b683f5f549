SPECIFICATION PackageSpec
CONSTANTS
  Families <- MCFamilies
  Requests <- MCRequests
  Responses <- MCResponses
  Commands <- MCCommands
  Times <- MCTimes
  Streams <- MCStreams
  Junk <- MCJunk
INVARIANT LenArrives
