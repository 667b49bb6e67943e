SPECIFICATION Spec
CONSTANTS
  Node <- MCNode
  Height <- MCHeight
  Payload <- MCPayload
  TagName <- MCTagName
INVARIANTS
  RoundTrip
  FailsOnlyForNames
  AnyReaderAgrees
