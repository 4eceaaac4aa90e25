SPECIFICATION Spec
CONSTANTS
  Stem <- Stems
  MaxFiles = 4
INVARIANTS
  EmbedAgrees
  CompileOrderAgrees
PROPERTIES
  AppendsLater
