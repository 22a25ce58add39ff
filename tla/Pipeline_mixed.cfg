SPECIFICATION Spec
CONSTANTS
    x = x
    y = y
    t = t
    u = u
    P = P
    C = C
    a = a
    b = b
    None = None
    Tables <- AllTables
    Columns <- AllColumns
    Families <- AllFamilies
    Values <- AllValues
    Ids <- GivenIds
    Dbs <- AllDbs
    Texts <- AllTexts
    Jobs <- MixedJobs
CHECK_DEADLOCK FALSE
INVARIANTS NothingAfterFailure OutputIsPrefix EventsMatchSteps OneVerdictPerDb SchemaStepsRight
