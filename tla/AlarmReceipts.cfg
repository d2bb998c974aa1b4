SPECIFICATION ASpec
CONSTANTS
    Sessions = {first, second, third}
    NoModel = NoModel
    NoRequest = NoRequest
    NoKind = "none"
    NoAsk = "none"
    qwen = qwen
    glm = glm
    kimi = kimi
    glmPro = glmPro
    first = first
    second = second
    third = third
    FirstInFleet = qwen
    SESSION_TTL = 1
    SESSION_CAP = 1
    CASCADE_FAILURE_WINDOW = 1
    PIN_GRACE_TURNS = 1
    PIN_PREMIUM_CEIL = 2
    KIND_ALARM_HKD = 1000
    KIND_ALARM_TTL = 1
    EXEC_PHASE_TURNS = 2
    RUNAWAY_PROMPT_TOKENS = 100000
    RUNAWAY_TURNS = 100
    LeaseModels = {}
    LeaseTerms = {1}
    Budgets = {}
    WeightChoices = {}
    LearningChoices = {}
    FailingModels = {}
    FailoverModels = {glmPro}
    Bills = {1000}
    Crashes = TRUE
    MaxRequests = 3
    MaxTime = 0
    MaxEpoch = 1
    MaxBilled = 1000
    MaxLeases = 0
    Models <- MCModels
    Vision <- MCVision
    Window <- MCWindow
    CostIn <- MCCostIn
    CostOut <- MCCostOut
    Latency <- MCLatency
    Kinds <- MCKinds
    BaseBar <- MCBaseBar
    Cap <- MCCap
    Fleet <- MCSmallFleet
    Asks <- MCAsks
    Signatures <- AlarmTurns
    LearnedTables <- NoLearning
SYMMETRY SessionSymmetry
INVARIANT SessionsBounded
PROPERTY AlarmNeedsNewSpend
PROPERTY AlarmIsPerSession
(* The router may idle, and the number of requests is bounded. *)
CHECK_DEADLOCK FALSE
