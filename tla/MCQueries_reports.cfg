\* Three FROM items in a query, or a finished query and two.
CONSTANTS
    Tables     <- TwoTables
    Aliases    <- ThreeAliases
    Clauses    <- GroupClauses
    Constants  <- Lists
    MaxResults = 1
SPECIFICATION Spec
CONSTRAINT NoGapYet
CHECK_DEADLOCK FALSE
INVARIANTS
    ReportsHold
    ResultsHold
    StarAgrees
    GroupsSettled
