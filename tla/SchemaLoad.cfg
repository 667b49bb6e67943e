SPECIFICATION FairSpec
CONSTANTS
  Location <- MCLocation
  TopLocation = "t"
  NoLocation = "top"
  Hint <- MCHint
  NoHint = "none"
  Namespace = {"", "n1", "n2"}
  NoNS = ""
  Prefix = {"", "p"}
  NoPrefix = ""
  Name = {"x", "y", "r", "q", "g", "h"}
  Corpora <- MCCorpora
  ResolverGiven = TRUE
  MaxDepth = 11
  ResolveLocation <- MCResolveLocation
INVARIANTS
  TypeOK
  FetchedOnce
  NoReentry
  MergeDropsNothing
  LinksCurrent
  IncludesShareNamespace
PROPERTIES
  Progress
  Termination
  ClosureSpec
