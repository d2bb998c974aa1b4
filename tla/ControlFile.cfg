SPECIFICATION HSpec
CONSTANTS
    first = first
    second = second
    policy = policy
    hook = hook
    kimi = kimi
    Keys = {"lease"}
    Values = {kimi}
    NoValue = NoValue
    Unreadable = Unreadable
    Free = Free
    Idle = Idle
    Readers = {policy, hook}
    Transient = {hook}
    PersistOutcomes = {"written", "failed"}
    MaxChanges = 2
    Handlers <- MCHandlers
    Edits <- MCEdits
SYMMETRY HandlerSymmetry
INVARIANT TypeOK
INVARIANT StampIsHonest
PROPERTY ImplementsRegister
PROPERTY CorruptionNeverEnables
(* The number of changes is bounded. *)
CHECK_DEADLOCK FALSE
