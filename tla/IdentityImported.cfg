SPECIFICATION Spec
CONSTANTS
  Inputs <- MCInputs
  Precision = 4
  Family = "imported"
INVARIANTS
  ImportedKeyrefsResolve
