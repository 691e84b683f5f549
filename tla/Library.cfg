SPECIFICATION LibrarySpec
CHECK_DEADLOCK FALSE
CONSTANTS
  Families <- MCFamilies
  Requests <- MCRequests
  Responses <- MCResponses
  Commands <- MCCommands
  Times <- MCTimes
  Streams <- MCStreams
  Junk <- MCJunk
  Names <- MCNames
  Folded <- MCFolded
  Cut <- MCCut
  Levels = {0, 2}
  MaxFilters = 3
  MaxParts = 2
  Writers = {w1, w2}
  Sinks = {file, net}
  OutLevels = {0, 2}
  Threshold = 1
  MaxCallbacks = 2
  MaxCalls = 4
  Files <- PlayedFiles
  RateEntries = 2
  BitsEntries = 2
  CrcBytes = {{}, {0}, {0, 1, 2}, {7}, {0, 1, 7}, {0, 1, 2, 3, 4, 5, 6, 7}}
  MaxCrc = 3
  Hosts <- MCHosts
  SomeTexts <- MCSomeTexts
  Texts <- MCTexts
  Rest = {0, 7}
  Ports = {0, 4417, 65537}
  MaxRecorded = 3
  Systems <- MCSystems
  Inquiries <- MCInquiries
  AddressNames = {"::7"}
  Sockets = {"inet", "inet6"}
  MaxLen = 1
  MaxChanges = 2
  MaxQuestions = 2
SYMMETRY LogSymmetry
INVARIANT RequestFollowsTable
INVARIANT PackagesArrive
INVARIANT PrintedAsAsked
INVARIANT OneFilterPerName
INVARIANT SameOrder
INVARIANT EveryCallbackTold
INVARIANT ListIsOfThisFile
INVARIANT ChunksAreWhole
INVARIANT MasksTellFormats
INVARIANT ChecksumCloses
INVARIANT SpeakersAreFound
INVARIANT EverythingGivenBack
INVARIANT AnswersAreTrue
PROPERTY FiltersStay
