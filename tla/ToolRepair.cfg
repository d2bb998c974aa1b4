SPECIFICATION Spec
CONSTANTS
    ClientIds <- MCClientIds
    MaxBlock = 2
    MaxMessages = 4
    MaxTurns = 2
    MaxFaults = 2
    MaxRequests = 1
INVARIANTS StrictContract RepairedOnce NothingLost AnswersAreTrue
CHECK_DEADLOCK FALSE
