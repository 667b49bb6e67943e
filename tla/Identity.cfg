SPECIFICATION Spec
CONSTANTS
  Inputs <- MCInputs
  Precision = 4
  Family = "all"
INVARIANTS
  KeysEnforced
  KeyrefsEnforced
  RejectsOnlyBroken
