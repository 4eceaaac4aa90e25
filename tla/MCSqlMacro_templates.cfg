SPECIFICATION Spec
CONSTANTS
  Letter <- Letters
  Wide <- WideLetters
  BuiltinMap <- RustNames
  BuiltinType <- WireTypes
  Fragments <- AllFragments
  Quoting <- QuotingFragments
  MaxFragments = 3
  MaxQuoting = 4
  MaxStudied = 2
  Carriers <- CarrierFragments
  Bases <- BaseTypes
  MaxDepth = 3
  MaxItems = 2
  MaxRows = 3
  Gaps <- NoGaps
INVARIANTS
  SentMeansTemplate
  AnnotationsKept
  ValuesTravel
  RowsReported
