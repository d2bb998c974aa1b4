SPECIFICATION HSpec
CONSTANTS
    Sessions = {here}
    Models = {glm, kimi}
    Kinds = {"debug"}
    Phrases = {"parser"}
    here = here
    glm = glm
    kimi = kimi
    NoSession = NoSession
    NoRecord = NoRecord
    NoReset = NoReset
    Absent = Absent
    NoArg = NoArg
    MIN_EVIDENCE = 2
    PHRASE_EVIDENCE = 1
    ROW_CAP = 1
    CLEAN_TURNS = 3
    REASK_CONTRIB_CAP = 1
    SWITCH_NEGATIVES_CAP = 1
    KEY_POINTS_KEEP = 1
    QUEUE_MAX = 2
    EXTRACT_BATCH = 2
    ExtractorRuns = {"dropped"}
    MaxRequests = 2
    MaxDisturbances = 1
    Asks <- MCAsks
    Requests <- Repeating
    Reasks <- Repeats
    Continues <- Repeats
    Mentions <- ParserMentioned
    ToolCalls <- ResetAll
    Intents <- NoIntents
INVARIANT ResetStartsOver
(* The number of requests is bounded. *)
CHECK_DEADLOCK FALSE
