SPECIFICATION WaveSpec
CHECK_DEADLOCK FALSE
CONSTANTS
  Files <- MCFiles
INVARIANT AcceptsOnlyWithData
