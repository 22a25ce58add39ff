SPECIFICATION Spec
CONSTANTS
    None = None
    plain = plain
    odd = odd
    Tables <- TwoTables
    Canons <- FewCanons
    Payloads <- TwoPayloads
    Content <- Rows
    Statements <- Mutations
    Policies <- Writable
    MaxItems = 1
CHECK_DEADLOCK FALSE
INVARIANT MutationsRolledBack
