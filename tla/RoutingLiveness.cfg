SPECIFICATION FairHSpec
CONSTANTS
    Sessions = {first}
    NoModel = NoModel
    NoRequest = NoRequest
    NoKind = "none"
    NoAsk = "none"
    qwen = qwen
    glm = glm
    kimi = kimi
    glmPro = glmPro
    first = first
    second = second
    third = third
    FirstInFleet = qwen
    SESSION_TTL = 1
    SESSION_CAP = 2
    CASCADE_FAILURE_WINDOW = 1
    PIN_GRACE_TURNS = 1
    PIN_PREMIUM_CEIL = 2
    KIND_ALARM_HKD = 1000
    KIND_ALARM_TTL = 1
    EXEC_PHASE_TURNS = 2
    RUNAWAY_PROMPT_TOKENS = 100000
    RUNAWAY_TURNS = 100
    LeaseModels = {}
    LeaseTerms = {1}
    Budgets = {400}
    WeightChoices = {}
    LearningChoices = {}
    FailingModels = {qwen, glm, kimi}
    FailoverModels = {}
    Bills = {}
    Crashes = TRUE
    MaxRequests = 2
    MaxTime = 0
    MaxEpoch = 0
    MaxBilled = 2000
    MaxLeases = 0
    Models <- MCModels
    Vision <- MCVision
    Window <- MCWindow
    CostIn <- MCCostIn
    CostOut <- MCCostOut
    Latency <- MCLatency
    Kinds <- MCKinds
    BaseBar <- MCBaseBar
    Cap <- MCCap
    Fleet <- MCSmallFleet
    Asks <- MCAsks
    Signatures <- LiveTurns
    LearnedTables <- NoLearning
PROPERTY EveryRequestDecided
(* The router may idle, and the number of requests is bounded. *)
CHECK_DEADLOCK FALSE
