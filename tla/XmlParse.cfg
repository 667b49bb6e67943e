SPECIFICATION Spec
CONSTANTS
  Docs <- MCDocs
  Prefix <- MCPrefix
  Local <- MCLocal
  Value <- MCValue
  MaxTokens = 4
INVARIANTS
  TypeOK
  ScopesBalanced
  DocumentsJudged
  TreeFaithful
