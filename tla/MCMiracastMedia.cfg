SPECIFICATION Spec
CONSTANTS
  PacketLen = 188
  PacketsPerDatagram = 2
  TableInterval = 3
  CcModulus = 4
  SeqModulus = 10
  ReorderWindow = 2
  VideoLengths = {161, 500}
  SamplesPerFrame = 82
  SampleCounts = {41, 123}
  MaxUnits = 4
  MaxFaults = 2
  Reach = 2
INVARIANTS UnitsAreWhole WholeUnitsAreDelivered
CHECK_DEADLOCK FALSE
