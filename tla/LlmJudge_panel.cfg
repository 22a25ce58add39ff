CONSTANTS
    k1 = k1
    k2 = k2
    None = None
    MaxItems = 2
CONSTANTS
    Keys <- MCKeys
    Panels <- MCPanels
    Answers <- MCAnswers
SPECIFICATION FairSpec
INVARIANTS
    ResultsAreTheVoters
    StatusIsTheMajoritys
    ExhaustedMeansNoKey
PROPERTY
    EveryItemJudged
CHECK_DEADLOCK FALSE
