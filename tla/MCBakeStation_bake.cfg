SPECIFICATION StationSpec
CONSTANTS
  Procs = {p1, p2}
  Captures = {c1, c2}
  MaxCommands = 3
  MaxCrashes = 1
  None = None
  Empty = Empty
  Garbled = Garbled
  Runs = {r1, r2}
  Offsets = {o1}
  Stamps = {1, 2}
  MaxPowerCuts = 1
  NoStill = NoStill
INVARIANT SpoolIsKept
INVARIANT CountNeverLow
PROPERTY DueIsUploaded
CHECK_DEADLOCK FALSE
