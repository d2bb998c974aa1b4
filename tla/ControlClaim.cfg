SPECIFICATION HSpec
CONSTANTS
    first = first
    second = second
    policy = policy
    hook = hook
    kimi = kimi
    Keys = {"lease"}
    Values = {kimi}
    NoValue = NoValue
    Unreadable = Unreadable
    Free = Free
    Idle = Idle
    Readers = {policy}
    Transient = {}
    PersistOutcomes = {"written", "failed"}
    MaxChanges = 3
    Handlers <- MCHandlers
    Edits <- NoEdits
SYMMETRY HandlerSymmetry
PROPERTY SwitchedOffStaysOff
(* The number of changes is bounded. *)
CHECK_DEADLOCK FALSE
