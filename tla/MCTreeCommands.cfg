SPECIFICATION Spec
CONSTANTS
    Names <- MCNames
    NameOrder <- MCNameOrder
    Words = {"x", "y"}
    Trees <- MCTrees
    Commands <- MCCommands
    MaxCalls = 2
INVARIANTS
    TypeOK
    AnswersAreTrue
    WalksAgree
PROPERTIES
    OnlyAsAsked
CHECK_DEADLOCK FALSE
