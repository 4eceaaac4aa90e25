SPECIFICATION Spec
CONSTANTS
  Types <- FewTypes
  Path <- TwoSchemas
  BuiltinCasts <- FewCasts
  Seeds <- EmptySeed
  Signatures <- FewSigs
  Results <- FewResults
  NewCasts <- FewNewCasts
  Calls <- ViewCalls
  Viewed <- ViewCalls
  MaxStatements = 4
CHECK_DEADLOCK FALSE
PROPERTY DropsRefused
