SPECIFICATION Spec
CONSTANTS
    schema = schema
    exec = exec
    generic = generic
    None = None
    Tables <- AllTables
    Keyed <- KeyedTables
    NullKeys <- SchemaOnly
    BatchSize = 2
    JsonlEnabled = TRUE
    MaxEvents = 3
    MaxFaults = 0
    MaxInterrupts = 0
CHECK_DEADLOCK FALSE
INVARIANT CloseFlushesHealthyTables
