SPECIFICATION Spec
CONSTANTS
    Schema = {"public", "s"}
    Public = "public"
    Name = {t, u, w}
    Column = {a, b}
    MaxOid = 4
    MaxAttnum = 2
    MaxSources = 1
    MaxConstraints = 2
    Gaps <- NoGaps
SYMMETRY Alike
INVARIANTS
    TypeOK
    NamesInSync
    RowsResolve
    ViewsIntact
    KeysIndexed
    FksCovered
PROPERTY CascadeOnlyDependents
CHECK_DEADLOCK FALSE
