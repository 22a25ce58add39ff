SPECIFICATION Spec
CONSTANTS
    p1 = p1
    p2 = p2
    given = given
    derived = derived
    partly = partly
    garbled = garbled
    good = good
    other = other
    broken = broken
    junk = junk
    a = a
    b = b
    c = c
    None = None
    Bad = Bad
    Supplied = Supplied
    Procs <- OneProc
    Ids <- AllIds
    Schemas <- AllSchemas
    Items <- BrokenItems
    Tables <- AllTables
    Script <- Scripts
    Unparsable <- JunkOnly
    IdOf <- DerivedIds
    ServerAdapters <- FileAdapter
    MaxItems = 2
    MaxRestarts = 0
CHECK_DEADLOCK FALSE
INVARIANT OkMeansWhole
