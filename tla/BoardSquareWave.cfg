SPECIFICATION FairSpec
CONSTANTS
  d1 = d1
  d2 = d2
  d3 = d3
  NoDevice = NoDevice
  Kinds = {"pwm"}
  Bases = {0}
  WorkBase = 0
  MaxLive = 1
  Pins = {0, 31, 32}
  Bytes = {1, 2}
  FifoBound = 2
  Modes = {0, 1}
  Dividers = {1, 2}
  Devices = {d1, d2, d3}
  AddressOf <- MCAddressOf
  Channels = {0, 1}
  Volts = {0, 1, 3, 5}
  DefaultVref = 3
  SystemClockHz = 4
  CountRange = 8
  Duties = {0, 50, 100, 101}
PROPERTY SquareWave
CHECK_DEADLOCK FALSE
