SPECIFICATION Spec
CHECK_DEADLOCK FALSE
CONSTANTS
  Ids = {i1, i2, i3, i4}
  Places = {left, right, other}
  DefaultPlaces = {left, right}
  MaxSpeakers = 3
  GrowStep = 2
  PointersPerSpeaker = 3
PROPERTY OnlyTheMovedLeave
