CONSTANTS
    chat1 = chat1
    chat2 = chat2
    aider = aider
    cursor = cursor
    glm = glm
    mimo = mimo
    Sessions = {chat1, chat2}
    Clients = {aider, cursor}
    Tags = {"fix"}
    FleetModels = {glm}
    DirectModels = {mimo}
    NoTag = NoTag
    NoModel = NoModel
    NoRecord = NoRecord
    Clear = Clear
    Plain = Plain
    Unsure = Unsure
    SESSION_TTL = 2
    SESSION_CAP = 1
    MaxRequests = 4
    MaxExchanges = 9
    MaxDisturbances = 1
    USAGE_STATE_TTL = 2
    USAGE_STATE_MAX_SESSIONS = 1
    SUMMARY_LIMIT = 2
    Price <- MCPrice
    Uses <- MCUses

SPECIFICATION Spec
SYMMETRY Symmetric
INVARIANTS TypeOK TaskSpendIsTagged RedoIsReal SpendIsNeverInvented
PROPERTIES SwitchBackIsExact
CHECK_DEADLOCK FALSE
