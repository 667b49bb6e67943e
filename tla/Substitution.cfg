SPECIFICATION FairSpec
CONSTANTS
  Element = {"a", "b", "c", "d"}
  Type = {"base", "derived", "derived2", "any", "other"}
  AnyType = "any"
  Namespace = {"m", "n", "none"}
  Prefix = {"", "p"}
  Local = {"a", "b", "c", "d", "none"}
  NoElement = "noelement"
  NoGroup <- MCNoGroup
  NoType = "notype"
  Absent = "absent"
  Declarations <- MCDeclarations
  MaxChain = 2
  Family = "all"
INVARIANTS
  TypeOK
  ClosesOnce
  GroupsSound
  RejectsOnlyFaults
PROPERTIES
  Termination
