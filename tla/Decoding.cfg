SPECIFICATION Spec
CONSTANTS
  Docs <- MCDocs
INVARIANTS
  TypeOK
  UnreadKept
  ReadAsDeclared
