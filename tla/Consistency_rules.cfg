SPECIFICATION Spec
CONSTANTS
    Families <- MCFamilies
    Sample <- MCSample
    Texts <- MCTexts
    Spelling <- MCSpelling
    Tables <- MCTables
CHECK_DEADLOCK FALSE
INVARIANTS LiteralVerdictsRight BoundaryVerdictsRight StringVerdictsRight AggregationVerdictsRight TopKVerdictsRight
