SPECIFICATION Spec
CONSTANTS
  Types <- FewTypes
  Path <- TwoSchemas
  BuiltinCasts <- FewCasts
  Seeds <- FewSeeds
  Signatures <- FewSigs
  Results <- FewResults
  NewCasts <- FewNewCasts
  Calls <- FewCalls
  Viewed <- ViewCalls
  MaxStatements = 2
CHECK_DEADLOCK FALSE
INVARIANT FunctionsAgree OperatorsAgree PinStable
