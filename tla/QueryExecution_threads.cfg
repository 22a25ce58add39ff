SPECIFICATION FairSpec
CONSTANTS
    None = None
    plain = plain
    odd = odd
    Tables <- TwoTables
    Canons <- FewCanons
    Payloads <- TwoPayloads
    Content <- Rows
    Statements <- AllStatements
    Policies <- AllPolicies
    MaxItems = 2
CHECK_DEADLOCK FALSE
INVARIANTS SelectOnlyIsInert TransactionsLeaveNoTrace OkIsOwnAnswer LabelSound
PROPERTY EveryItemReported
