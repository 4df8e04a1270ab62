SPECIFICATION ScreenSpec
CONSTANTS
  Targets = {A, B}
  Managed = {A}
  First = A
  Operations = {1, 2}
  Refusable = {1}
  MaxVisits = 2
  MaxReads = 1
  MaxRestarts = 1
  Unset = Unset
PROPERTIES NoBlindReplacement ScreenUnblocks
CHECK_DEADLOCK FALSE
