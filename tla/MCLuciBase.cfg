\* Three edits and a save that may fail; one polled function, one lost reply.
SPECIFICATION BaseSpec
CONSTANTS
  n1 = n1
  n2 = n2
  n3 = n3
  n4 = n4
  o = o
  p = p
  x = x
  Name = {n1, n2, n3, n4}
  Option = {o, p}
  Val = {x}
  None = None
  Stored <- StoredValue
  MaxEdits = 3
  MaxFaults = 1
  Fn = {"scan"}
  Interval <- EveryOtherTick
  Wrap = 2
  Removed = {"scan"}
  MaxLost = 1
INVARIANTS
  CallsAreAnswered
PROPERTIES
  IsDocument
  SavedAsSeen
  SavedInOrder
  PollingStops
