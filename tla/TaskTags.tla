------------------------------- MODULE TaskTags -------------------------------
(***************************************************************************)
(* The measurement side of routing_policy.py: sticky [[task:...]] tags and *)
(* the switch-back flag.  Each session leaves traces in two places: a      *)
(* fleet turn in STATE.sessions, a turn that bypasses the policy in        *)
(* _TAG_ONLY_SESSIONS, and each place is pruned on its own.  Both routes   *)
(* attach what they found to the call, whose receipt comes later.          *)
(*                                                                         *)
(* Every request takes a time of its own.                                  *)
(***************************************************************************)
EXTENDS Integers, FiniteSets

CONSTANTS
    Sessions, Clients, Tags,
    FleetModels,     \* models of the policy-governed group
    DirectModels,    \* models of the escape-hatch groups
    NoTag, NoModel, NoRecord,
    Clear,           \* an ask with the empty tag [[task:]]
    Plain,           \* an ask without a tag
    SESSION_TTL, SESSION_CAP,
    MaxRequests,     \* bound on the requests
    MaxDisturbances  \* bound on lease sweeps, restarts, failed writes, log mishaps

Models == FleetModels \cup DirectModels
Marks == Tags \cup {Clear, Plain}
MaybeTag == Tags \cup {NoTag}
MaybeModel == DirectModels \cup {NoModel}

FleetRecord == [ts : Nat, task_tag : MaybeTag]
OwnRecord == [ts : Nat, task_tag : MaybeTag, served_by : MaybeModel, served_ts : Nat]

ASSUME TagsAssumption ==
    /\ {SESSION_TTL, MaxRequests, MaxDisturbances} \subseteq Nat
    /\ SESSION_CAP \in Nat \ {0}
    /\ Tags \cap {Clear, Plain, NoTag} = {}
    /\ Clear # Plain
    /\ NoModel \notin Models
    /\ NoRecord \notin FleetRecord \cup OwnRecord

(* The signals of a call, as the receipt hook finds them.                   *)
Call == [no : Nat, session : Sessions, client : Clients, model : Models,
         task : MaybeTag, switch_back_from : MaybeModel]

VARIABLES
    now,
    fleet,         \* STATE.sessions
    own,           \* _TAG_ONLY_SESSIONS
    calls,         \* calls whose answers are not in yet
    requests,      \* requests so far
    disturbances   \* and what happened around them

tagVars == <<now, fleet, own, calls, requests, disturbances>>

TagsTypeOK ==
    /\ now \in Nat
    /\ fleet \in [Sessions -> FleetRecord \cup {NoRecord}]
    /\ own \in [Sessions -> OwnRecord \cup {NoRecord}]
    /\ calls \subseteq Call
    /\ requests \in Nat
    /\ disturbances \in Nat

TagsInit ==
    /\ now = 1
    /\ fleet = [s \in Sessions |-> NoRecord]
    /\ own = [s \in Sessions |-> NoRecord]
    /\ calls = {}
    /\ requests = 0
    /\ disturbances = 0

Disturbances(n) ==
    /\ disturbances + n <= MaxDisturbances
    /\ disturbances' = disturbances + n
-----------------------------------------------------------------------------
(* The records that pruning keeps: the newest SESSION_CAP of those that are *)
(* not older than SESSION_TTL.                                              *)
Held(records) == {s \in Sessions : records[s] # NoRecord}
Newest(records) ==
    {s \in Held(records) :
        Cardinality({o \in Held(records) : records[o].ts > records[s].ts}) < SESSION_CAP}
Pruned(records) ==
    [s \in Sessions |->
        IF s \in Newest(records) /\ now - records[s].ts <= SESSION_TTL
        THEN records[s] ELSE NoRecord]

(* _task_previous: the sticky tag of the newer record.                      *)
StickyFleetFirst(held, s) ==
    IF held[s] # NoRecord THEN held[s].task_tag
    ELSE IF own[s] # NoRecord THEN own[s].task_tag ELSE NoTag
Sticky(held, s) ==
    IF own[s] # NoRecord /\ (held[s] # NoRecord => own[s].ts >= held[s].ts)
    THEN own[s].task_tag
    ELSE IF held[s] # NoRecord THEN held[s].task_tag ELSE NoTag

(* _detect_task_tag                                                         *)
ClearAsTag(mark, sticky) == IF mark = Plain THEN sticky ELSE mark
TagOf(mark, sticky) ==
    IF mark = Clear THEN NoTag ELSE IF mark \in Tags THEN mark ELSE sticky

(* _switch_back_from: an escape-hatch turn newer than the fleet's record.   *)
SwitchBackFrom(held, s) ==
    IF own[s] = NoRecord THEN NoModel
    ELSE IF own[s].served_ts > (IF held[s] = NoRecord THEN 0 ELSE held[s].ts)
    THEN own[s].served_by ELSE NoModel

CallOf(s, client, model, task, back) ==
    [no |-> requests, session |-> s, client |-> client, model |-> model,
     task |-> task, switch_back_from |-> back]

Request(call) ==
    /\ requests < MaxRequests
    /\ requests' = requests + 1
    /\ now' = now + 1
    /\ calls' = calls \cup {call}
    /\ UNCHANGED disturbances

(* A request the policy decides.                                            *)
FleetTurn(s, client, model, mark) ==
    LET held == Pruned(fleet)
        task == TagOf(mark, Sticky(held, s))
    IN  /\ Request(CallOf(s, client, model, task, SwitchBackFrom(held, s)))
        /\ fleet' = [held EXCEPT ![s] = [ts |-> now, task_tag |-> task]]
        /\ UNCHANGED own

(* _annotate_skip_path.  Only an escape-hatch turn moves served_ts.         *)
StampAlways(s, model) == now
ServedTs(s, model) ==
    IF model # NoModel THEN now ELSE IF own[s] # NoRecord THEN own[s].served_ts ELSE 0
ServedBy(s, model) ==
    IF model # NoModel THEN model ELSE IF own[s] # NoRecord THEN own[s].served_by ELSE NoModel
Annotated(s, task, model) ==
    [own EXCEPT ![s] = [ts |-> now, task_tag |-> task,
                        served_by |-> ServedBy(s, model), served_ts |-> ServedTs(s, model)]]

(* A request to a model of the user's own choice.                           *)
DirectTurn(s, client, model, mark) ==
    LET held == Pruned(fleet)
        task == TagOf(mark, Sticky(held, s))
    IN  /\ Request(CallOf(s, client, model, task, NoModel))
        /\ fleet' = held
        /\ own' = Pruned(Annotated(s, task, model))

(* A request to the fleet in which no human ask is found: any of its models *)
(* serves it, and it keeps the tag.                                         *)
NoAskTurn(s, client, model) ==
    LET held == Pruned(fleet)
        task == TagOf(Plain, Sticky(held, s))
    IN  /\ Request(CallOf(s, client, model, task, NoModel))
        /\ fleet' = held
        /\ own' = Pruned(Annotated(s, task, NoModel))

(* drop_leases at the end of a lease, which drops the records it pinned.    *)
Sweep(pinned) ==
    /\ Disturbances(1)
    /\ pinned \cap Held(fleet) # {}
    /\ fleet' = [s \in Sessions |-> IF s \in pinned THEN NoRecord ELSE fleet[s]]
    /\ UNCHANGED <<now, own, calls, requests>>

TagsRestart ==
    /\ Disturbances(1)
    /\ fleet' = [s \in Sessions |-> NoRecord]
    /\ own' = [s \in Sessions |-> NoRecord]
    /\ calls' = {}
    /\ UNCHANGED <<now, requests>>
=============================================================================
