SPECIFICATION Spec
CONSTANTS
    x = x
    y = y
    z = z
    k = k
    l = l
    m = m
    o = o
    n = n
    Schema = {"public", "s"}
    Public = "public"
    Home = {"public"}
    UserName <- Names
    MemberName <- Members
    Label = {k, l, m, o}
    Unit = 2
    Registry <- Contrib
    MaxOid = 12
    Gaps <- NoGaps
SYMMETRY Alike
CONSTRAINT Focus
INVARIANTS
    TypeOK
    TypesTied
    TypesResolve
    LabelsAgree
    ExtensionsWhole
PROPERTY RenamesItsOwn
CHECK_DEADLOCK FALSE
