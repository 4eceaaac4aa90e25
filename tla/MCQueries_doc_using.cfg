\* Three FROM items merged by USING: does the merged name still resolve?
CONSTANTS
    Tables     <- TwoTables
    Aliases    <- ThreeAliases
    Clauses    <- GroupClauses
    Constants  <- Lists
    MaxResults = 0
SPECIFICATION Spec
CHECK_DEADLOCK FALSE
INVARIANTS
    MergedNamesResolve
