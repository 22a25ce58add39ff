SPECIFICATION FairSpec
CONSTANTS
    schema = schema
    exec = exec
    generic = generic
    None = None
    Tables <- AllTables
    Keyed <- KeyedTables
    NullKeys <- SchemaOnly
    BatchSize = 2
    JsonlEnabled = TRUE
    MaxEvents = 5
    MaxFaults = 1
    MaxInterrupts = 1
CHECK_DEADLOCK FALSE
INVARIANTS KeyedRowsArePrefix ClosedMeansStored RowsAreLines UnkeyedRowsOnce
PROPERTIES StuckTableStoresNoMore ImplementsLog CloseEnds
