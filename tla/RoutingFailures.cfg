SPECIFICATION HSpec
CONSTANTS
    Sessions = {first}
    NoModel = NoModel
    NoRequest = NoRequest
    NoKind = "none"
    NoAsk = "none"
    qwen = qwen
    glm = glm
    kimi = kimi
    glmPro = glmPro
    first = first
    second = second
    third = third
    FirstInFleet = qwen
    SESSION_TTL = 1
    SESSION_CAP = 2
    CASCADE_FAILURE_WINDOW = 1
    PIN_GRACE_TURNS = 1
    PIN_PREMIUM_CEIL = 2
    KIND_ALARM_HKD = 1000
    KIND_ALARM_TTL = 1
    EXEC_PHASE_TURNS = 2
    RUNAWAY_PROMPT_TOKENS = 260
    RUNAWAY_TURNS = 100
    LeaseModels = {}
    LeaseTerms = {1}
    Budgets = {400}
    WeightChoices = {}
    LearningChoices = {TRUE, FALSE}
    FailingModels = {glm, kimi}
    FailoverModels = {}
    Bills = {}
    Crashes = FALSE
    MaxRequests = 3
    MaxTime = 2
    MaxEpoch = 0
    MaxBilled = 2000
    MaxLeases = 0
    Models <- MCModels
    Vision <- MCVision
    Window <- MCWindow
    CostIn <- MCCostIn
    CostOut <- MCCostOut
    Latency <- MCLatency
    Kinds <- MCKinds
    BaseBar <- MCBaseBar
    Cap <- MCCap
    Fleet <- MCSmallFleet
    Asks <- MCAsks
    Signatures <- GuardTurns
    LearnedTables <- SomeLearning
INVARIANT GatesHold
INVARIANT CascadeRespected
PROPERTY CapForcesCheapest
(* The router may idle, and the number of requests is bounded. *)
CHECK_DEADLOCK FALSE
