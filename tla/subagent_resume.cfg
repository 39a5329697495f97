SPECIFICATION Spec
CONSTANTS
    Job = {1}
    Lease <- LeasePerClaimAndTurn
    MaxTurns = 2
    MaxAttempts = 2
    Responses <- Answers
    MaxConcurrent = 1
    MaxClaims = 3
    Overlap = FALSE
CHECK_DEADLOCK FALSE
INVARIANTS OncePerUse ToolsAnswered LedgerAgrees CallSeesTables TurnsBounded LeasesCapped
PROPERTIES LeaseProtocol
