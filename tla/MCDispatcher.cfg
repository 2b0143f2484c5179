SPECIFICATION FairSpec
CONSTANTS
    Keys = {k1, k2}
    Asks = {a1}
    MaxMessages = 2
INVARIANTS
    OneAgentPerConversation
    AllowOnlyByPortal
    TurnLeavesNothing
PROPERTIES
    NeverBusyForGood
    AnsweredOnce
    RequestsWithdrawn
CHECK_DEADLOCK FALSE
