SPECIFICATION BootstrapSpec
CONSTANTS
  s1 = s1  s2 = s2  db = db  journal = journal
  c1 = c1  c2 = c2  wheels = wheels  mixed = mixed
  Absent = Absent
  Scripts = {s1, s2}
  Files = {db, journal}
  MaxWrites = 2
  Candidates = {c1, c2}
  Archives = {wheels, mixed}
  Mixed = {mixed}
  Plans <- ThePlans
INVARIANTS NoSplitService BootstrapIsSound
PROPERTIES ReportIsTrue EndsServing
CHECK_DEADLOCK FALSE
