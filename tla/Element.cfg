SPECIFICATION Spec
CONSTANTS
  Text <- MCText
  Rank <- MCRank
  Number <- MCNumber
  NaN = NaN
  NoNumber = NoNumber
  Builtin <- MCBuiltin
  Numeric <- MCNumeric
  Accepted <- MCAccepted
  Types <- MCTypes
  Nil = Nil
  Blank = {""}
  TargetNamespace = "t"
  Families <- MCFamilies
INVARIANTS
  TypeAsDocumented
  ElementJudged
