SPECIFICATION FairSpec
CONSTANTS
  Type = {"a", "b", "d", "k"}
  Element = {"g", "l", "v"}
  Group = {"p", "q", "r"}
  AttrGroup = {"G", "H", "M"}
  AttrDecl = {"x1", "x2", "x3", "x4", "y1"}
  Name = {"x", "y"}
  NoType = "none"
  Simple = "simple"
  Missing = "missing"
  Unnamed = "unnamed"
  Schemas <- MCSchemas
  MaxDepth = 9
  Family = "all"
INVARIANTS
  TypeOK
  PlainRecursionEnds
  FoldedOnce
  ChainInherited
  GroupsWrittenOut
  PlainAttrsInherited
  RefusesFaults
PROPERTIES
  SecondPassIdle
  Termination
