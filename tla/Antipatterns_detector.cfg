SPECIFICATION DetectorSpec
CONSTANTS
    t = t
    u = u
    w = w
    dv = dv
    k = k
    x = x
    c = c
    d = d
    lower = lower
    upper = upper
    binary = binary
    nocase = nocase
    None = None
    Opaque = Opaque
    Tables <- MCTables
    Names <- MCNames
    Values <- MCValues
    Signatures <- MCSignatures
    Canon <- MCCanon
    Catalog <- MCCatalog
    Queries <- AllQueries
    Databases <- AllDatabases
    MaxSources = 3
    Selects <- AllSelects
    Many = 2
    Columns <- MCColumns
    MaxLeaves = 2
    MaxRead = 4
CHECK_DEADLOCK FALSE
SYMMETRY Perms
INVARIANTS
    EqualitiesHold NullsRejected ParitySound
    EquatedAgree GroupsAreDetermined DistinctRemovesNothing NonNullSound
    UncountedAddNothing ReportedIsProduct
