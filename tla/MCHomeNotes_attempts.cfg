SPECIFICATION NotesSpec
CONSTANTS
  Callers = {t1}
  Titles = {bread}
  Bodies <- TheBodies
  MaxCalls = 4
  MaxCrashes = 0
CHECK_DEADLOCK FALSE
INVARIANT AttemptsSurvive
