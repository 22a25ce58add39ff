SPECIFICATION Spec
CONSTANTS
    p1 = p1
    p2 = p2
    given = given
    derived = derived
    partly = partly
    garbled = garbled
    good = good
    other = other
    broken = broken
    junk = junk
    a = a
    b = b
    c = c
    None = None
    Bad = Bad
    Supplied = Supplied
    Procs <- TwoProcs
    Ids <- AllIds
    Schemas <- AllSchemas
    Items <- RaceItems
    Tables <- AllTables
    Script <- Scripts
    Unparsable <- JunkOnly
    IdOf <- DerivedIds
    ServerAdapters <- EitherAdapter
    MaxItems = 2
    MaxRestarts = 2
CHECK_DEADLOCK FALSE
SYMMETRY Perms
INVARIANTS OneWriter AtRestWhole OkExplained UnmarkedHasHealth
PROPERTY SettledIsFrozen
