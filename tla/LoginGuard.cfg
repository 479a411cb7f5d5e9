SPECIFICATION Spec
CONSTANTS
  Attempts = {a1, a2}
  Codes = {c1}
  NoCode = NoCode
  Budget = 1
  MaxFailed = 2
  MaxStarts = 3
  MaxWindows = 2
  MaxUpdates = 1
  MaxErrors = 1
SYMMETRY InFlight
CHECK_DEADLOCK FALSE
INVARIANTS WindowBudget LockoutEngages
