---------------------------- MODULE RoutingPolicy ----------------------------
(***************************************************************************)
(* The cursor-auto routing policy (routing_policy.py): PolicyState, and    *)
(* CursorAutoPolicy._run as two steps.  _run is synchronous, so requests   *)
(* never interleave with one another; but the operator's control service,  *)
(* the clock and the receipt writer run beside it.  Begin ends after the   *)
(* lease read that drives the expiry sweep; the Serve actions start with   *)
(* the second lease read and run to the logged decision.                   *)
(*                                                                         *)
(* control is the control-plane state as the policy's reads return it,     *)
(* real the per-(model, kind) totals load_view returns, failedAt what      *)
(* failure_hook.last_failure_ts returns.  The clock counts coarse ticks.   *)
(***************************************************************************)
EXTENDS Selection

CONSTANTS
    Sessions,            \* session keys
    Fleet,               \* `known`: profiles among the candidate models
    FirstInFleet,        \* known[0]
    Signatures,          \* the requests the environment may send
    LearnedTables,       \* what learned.json and the scorer may hold
    NoRequest, NoKind, NoAsk,
    \* the tuning constants of routing_policy.py
    SESSION_TTL, SESSION_CAP, CASCADE_FAILURE_WINDOW,
    PIN_GRACE_TURNS, PIN_PREMIUM_CEIL,
    KIND_ALARM_HKD, KIND_ALARM_TTL,
    EXEC_PHASE_TURNS, RUNAWAY_PROMPT_TOKENS, RUNAWAY_TURNS,
    \* what the operator, the upstreams and the receipts may do
    LeaseModels, LeaseTerms, Budgets, WeightChoices, LearningChoices,
    FailingModels, FailoverModels, Bills, Crashes,
    \* bounds of the exploration
    MaxRequests, MaxTime, MaxEpoch, MaxBilled, MaxLeases

TRUST_FLOOR == -400
TRUST_CEILING == 400
Never == -1                      \* no failure recorded for a model
DefaultWeights == [cost |-> 35, trust |-> 30, headroom |-> 10, latency |-> 10]
EXEC_PHASE_KINDS == {"design", "refactor", "debug", "review"}
EXEC_PHASE_KIND == "agentic"

ASSUME FleetAssumption ==
    /\ Fleet \subseteq Models
    /\ FirstInFleet \in Fleet
    /\ IsFiniteSet(Sessions)

ASSUME SignatureAssumption ==
    /\ EXEC_PHASE_KIND \in Kinds
    /\ Signatures \subseteq Signature
    /\ \A sig \in Signatures : sig.use # NoModel => "use" \in sig.directives
    /\ LearnedTables # {} /\ LearnedTables \subseteq Learned
    /\ NoRequest \notin [session: Sessions, sig: Signature,
                         view: [Models -> [Kinds -> Nat]]]

ASSUME TuningAssumption ==
    /\ {SESSION_TTL, SESSION_CAP, CASCADE_FAILURE_WINDOW, KIND_ALARM_TTL,
        PIN_GRACE_TURNS, PIN_PREMIUM_CEIL, EXEC_PHASE_TURNS} \subseteq Nat
    /\ {KIND_ALARM_HKD, RUNAWAY_PROMPT_TOKENS, RUNAWAY_TURNS} \subseteq Nat \ {0}

ASSUME EnvironmentAssumption ==
    /\ LeaseModels \subseteq Models /\ LeaseTerms \subseteq Nat \ {0}
    /\ Budgets \subseteq Nat \ {0}
    /\ WeightChoices \subseteq Weighting
    /\ LearningChoices \subseteq BOOLEAN
    /\ FailingModels \subseteq Models /\ FailoverModels \subseteq Models
    /\ Bills \subseteq Nat \ {0}
    /\ Crashes \in BOOLEAN
    /\ {MaxRequests, MaxTime, MaxEpoch, MaxBilled, MaxLeases} \subseteq Nat

VARIABLES
    now,          \* the clock
    control,      \* control.json, as read
    failedAt,     \* newest upstream failure per model
    real,         \* received spend per session, model and kind (usage_state.json)
    aggLost,      \* the receipt writer restarted since it last wrote that file
    \* PolicyState
    sessions, trust, lastLease, cleanedLeases, kindAlarms, alarmEpoch,
    usageBaseline,
    request,      \* the request between its two lease reads
    decision,     \* the decision record logged last
    served        \* number of decisions taken

environment == <<control, failedAt, real, aggLost>>
policyState == <<sessions, trust, lastLease, cleanedLeases, kindAlarms,
                 alarmEpoch, usageBaseline>>
vars == <<now, environment, policyState, request, decision, served>>
-----------------------------------------------------------------------------
(* Records.  Absence is a null record: a session without a model.           *)

(* A lease's deadline is a float of the wall clock and identifies it; under *)
(* a coarse clock a serial number keeps two leases apart.                   *)
Lease == [model: Models \cup {NoModel}, expires: Nat, serial: Nat]
NoLease == [model |-> NoModel, expires |-> 0, serial |-> 0]

Control == [lease: Lease, issued: Nat, budget: Nat, alarmEpoch: Nat,
            learning: BOOLEAN, weights: Weighting]

Spend == [Models -> [Kinds -> Nat]]
NoSpend == [m \in Models |-> [k \in Kinds |-> 0]]

SessionRecord ==
    [model: Models \cup {NoModel}, kind: Kinds \cup {NoKind}, ts: Nat, turns: Nat,
     tokens: Nat, ask: Asks \cup {NoAsk}, spend: Nat]
NoRecord ==
    [model |-> NoModel, kind |-> NoKind, ts |-> 0, turns |-> 0,
     tokens |-> 0, ask |-> NoAsk, spend |-> 0]
Live(s) == sessions[s].model # NoModel

(* A missing alarm entry and one with nothing charged act alike.            *)
Alarm == [spend: Nat, ts: Nat, epoch: Nat]
NoAlarm == [spend |-> 0, ts |-> 0, epoch |-> 0]
NoAlarms == [m \in Models |-> [k \in Kinds |-> NoAlarm]]

Request == [session: Sessions, sig: Signature, view: Spend]

Reasons == {"lease", "pinned-directive", "pinned-grace", "pinned-loyalty",
            "pin-swap", "budget-cap", "runaway", "kind-alarm", "fresh",
            "cascade-escalation"}
AlarmBases == {"none", "estimate", "real"}
Decision ==
    [session: Sessions, sig: Signature, winner: Models, reason: Reasons,
     excluded: SUBSET Models, fallback: BOOLEAN, breached: BOOLEAN,
     runaway: BOOLEAN, alarm: AlarmBases, lease: Models \cup {NoModel}]
NoDecision == [winner |-> NoModel, reason |-> "none"]

TypeOK ==
    /\ now \in Nat
    /\ control \in Control
    /\ failedAt \in [Models -> Nat \cup {Never}]
    /\ real \in [Sessions -> Spend]
    /\ aggLost \in BOOLEAN
    /\ sessions \in [Sessions -> SessionRecord]
    /\ trust \in [Kinds -> [Models -> TRUST_FLOOR..TRUST_CEILING]]
    /\ lastLease \in Lease
    /\ cleanedLeases \subseteq Lease
    /\ kindAlarms \in [Sessions -> [Models -> [Kinds -> Alarm]]]
    /\ alarmEpoch \in Nat
    /\ usageBaseline \in [Sessions -> Spend]
    /\ request \in Request \cup {NoRequest}
    /\ decision \in Decision \cup {NoDecision}
    /\ served \in Nat

FreshPolicyState ==
    /\ sessions = [s \in Sessions |-> NoRecord]
    /\ trust = [k \in Kinds |-> [m \in Models |-> 0]]
    /\ lastLease = NoLease
    /\ cleanedLeases = {}
    /\ kindAlarms = [s \in Sessions |-> NoAlarms]
    /\ alarmEpoch = 0
    /\ usageBaseline = [s \in Sessions |-> NoSpend]

Init ==
    /\ now = 0
    /\ control = [lease |-> NoLease, issued |-> 0, budget |-> 0, alarmEpoch |-> 0,
                  learning |-> TRUE, weights |-> DefaultWeights]
    /\ failedAt = [m \in Models |-> Never]
    /\ real = [s \in Sessions |-> NoSpend]
    /\ aggLost = FALSE
    /\ FreshPolicyState
    /\ request = NoRequest
    /\ decision = NoDecision
    /\ served = 0
-----------------------------------------------------------------------------
(* PolicyState.prune: evict the oldest records above SESSION_CAP, then the  *)
(* expired ones, expired alarms, and the baselines of sessions not held.    *)

Held == {s \in Sessions : Live(s)}

(* The record sets the cap may keep.  Records of one tick may go in any     *)
(* order.                                                                   *)
KeptByCapOffByOne ==
    {kept \in SUBSET Held :
        /\ Cardinality(kept) = AtMost(Cardinality(Held), SESSION_CAP + 1)
        /\ \A s \in kept, x \in Held \ kept : sessions[x].ts <= sessions[s].ts}

KeptByCap ==
    {kept \in SUBSET Held :
        /\ Cardinality(kept) = AtMost(Cardinality(Held), SESSION_CAP)
        /\ \A s \in kept, x \in Held \ kept : sessions[x].ts <= sessions[s].ts}

Unexpired(kept) == {s \in kept : now - sessions[s].ts <= SESSION_TTL}

UnexpiredAlarms ==
    [s \in Sessions |-> [m \in Models |-> [k \in Kinds |->
        IF now - kindAlarms[s][m][k].ts > SESSION_TTL
        THEN NoAlarm ELSE kindAlarms[s][m][k]]]]

(* kept survives prune, swept is what the lease sweep then drops.           *)
Prune(kept, swept) ==
    /\ sessions' = [s \in Sessions |->
                       IF s \in kept \ swept THEN sessions[s] ELSE NoRecord]
    /\ kindAlarms' = UnexpiredAlarms
    /\ usageBaseline' = [s \in Sessions |->
                            IF s \in kept THEN usageBaseline[s] ELSE NoSpend]

(* ControlStore.active_lease: the deadline is compared on every read.       *)
LiveLease ==
    IF control.lease.model # NoModel /\ now < control.lease.expires
    THEN control.lease ELSE NoLease

(* The sweep: the lease seen last has ended and was not swept before.       *)
LeaseEndSeen ==
    /\ LiveLease = NoLease
    /\ lastLease # NoLease
    /\ lastLease \notin cleanedLeases

SweptByCurrentLease ==
    IF LeaseEndSeen
    THEN {s \in Sessions : Live(s) /\ sessions[s].model = LiveLease.model}
    ELSE {}

SweptSessions ==
    IF LeaseEndSeen
    THEN {s \in Sessions : sessions[s].model = lastLease.model}
    ELSE {}

(* A cursor-auto request up to and including the first lease read.          *)
Begin(s, sig) ==
    /\ request = NoRequest
    /\ served < MaxRequests
    /\ \E kept \in KeptByCap : Prune(Unexpired(kept), SweptSessions)
    /\ request' = [session |-> s, sig |-> sig, view |-> real[s]]
    /\ lastLease' = LiveLease
    /\ cleanedLeases' = IF LeaseEndSeen THEN cleanedLeases \cup {lastLease}
                                        ELSE cleanedLeases
    /\ UNCHANGED <<now, environment, trust, alarmEpoch, decision, served>>

(* A request that skips the policy (an escape-hatch group, or no ask) still *)
(* prunes, in _annotate_skip_path.                                          *)
SkipPath ==
    /\ request = NoRequest
    /\ \E kept \in KeptByCap : Prune(Unexpired(kept), {})
    /\ UNCHANGED <<now, environment, trust, lastLease, cleanedLeases, alarmEpoch,
                   request, decision, served>>
-----------------------------------------------------------------------------
(* What the rest of _run reads, as functions of the state at Serve.         *)

Prev == sessions[request.session]

ExecDemoted ==
    LET asked == request.sig
    IN  /\ Live(request.session)
        /\ asked.directives = {}
        /\ asked.kind \in EXEC_PHASE_KINDS
        /\ asked.fanout
        /\ Prev.turns >= EXEC_PHASE_TURNS
        /\ Prev.ask = asked.ask

(* The signature that is served: stale-ask execution demotion.              *)
Sig ==
    LET asked == request.sig
    IN  IF ExecDemoted
        THEN [asked EXCEPT !.kind = EXEC_PHASE_KIND,
                           !.importance = AtMost(asked.importance, 1),
                           !.askTokens = AtMost(asked.askTokens, 399)]
        ELSE asked

(* A [[use:]] target that passes the gates; a lease that passes the gates.  *)
UseTarget ==
    IF Sig.use \in Fleet /\ Fits(Sig, Sig.use) THEN Sig.use ELSE NoModel

LeaseModelUngated ==
    IF LiveLease.model \in Fleet THEN LiveLease.model ELSE NoModel

LeaseModel ==
    IF LiveLease.model \in Fleet /\ Fits(Sig, LiveLease.model)
    THEN LiveLease.model ELSE NoModel

LeaseWins ==
    LeaseModel # NoModel /\ UseTarget \in {NoModel, LeaseModel}

(* _cascade_excluded.                                                       *)
FailedRecently(m) ==
    failedAt[m] # Never /\ now - failedAt[m] < CASCADE_FAILURE_WINDOW

Excluded ==
    IF control.learning THEN {m \in Fleet : FailedRecently(m)} ELSE {}

PoolWithoutFallback == Fleet \ Excluded

Pool == IF Fleet \subseteq Excluded THEN Fleet ELSE Fleet \ Excluded

(* The trust moves of one turn, all on the cell of the previous decision:   *)
(* the cascade penalty, then the feedback.                                  *)
AdjustUnclamped(value, delta) == value + delta
Adjust(value, delta) == Clamp(value + delta, TRUST_FLOOR, TRUST_CEILING)

FedBack ==
    IF ~Live(request.session) THEN trust
    ELSE LET t0 == trust[Prev.kind][Prev.model]
             t1 == IF control.learning /\ FailedRecently(Prev.model)
                   THEN Adjust(t0, -250) ELSE t0
             t2 == IF "escalate" \in Sig.directives THEN Adjust(t1, -200) ELSE t1
             t3 == IF Sig.stall THEN Adjust(t2, -150)
                   ELSE IF Prev.turns >= 3 THEN Adjust(t2, 30) ELSE t2
         IN  [trust EXCEPT ![Prev.kind][Prev.model] = t3]

EffectiveTrust(learned) ==
    LET earned == FedBack[Sig.kind]
        taught == learned.trust[Sig.kind]
    IN  [m \in Models |-> Clamp(earned[m] + taught[m], TRUST_FLOOR, TRUST_CEILING)]

(* Learned inputs apply only while learning is on.                          *)
Unlearned == [trust |-> [k \in Kinds |-> [m \in Models |-> 0]],
              bias |-> [k \in Kinds |-> 0], laya |-> 0]
LearnedNow(learned) ==
    IF control.learning THEN learned
    ELSE [Unlearned EXCEPT !.trust = learned.trust]
-----------------------------------------------------------------------------
(* Stickiness.  The previous model may hold a same-kind turn without        *)
(* directives that passes its gates, unless it is premium on a Low turn,    *)
(* excluded, or premium past the run ceiling.                               *)

PinBrokenIgnoringCascade ==
    \/ Sig.importance = 0 /\ Premium(Prev.model)
    \/ Prev.turns > PIN_PREMIUM_CEIL /\ Premium(Prev.model)

PinBrokenIgnoringCeiling ==
    \/ Sig.importance = 0 /\ Premium(Prev.model)
    \/ Prev.model \in Excluded

PinBroken ==
    \/ Sig.importance = 0 /\ Premium(Prev.model)
    \/ Prev.model \in Excluded
    \/ Prev.turns > PIN_PREMIUM_CEIL /\ Premium(Prev.model)

HoldableUngated ==
    /\ Prev.model \in Fleet
    /\ Prev.kind = Sig.kind
    /\ Sig.directives = {}
    /\ ~PinBroken

Holdable ==
    /\ Prev.model \in Fleet
    /\ Prev.kind = Sig.kind
    /\ Sig.directives = {}
    /\ Fits(Sig, Prev.model)
    /\ ~PinBroken

GracePin == Holdable /\ Prev.turns <= PIN_GRACE_TURNS

LoyaltyPin ==
    /\ Holdable
    /\ Prev.turns > PIN_GRACE_TURNS
    /\ Cap[Prev.model][Sig.kind] >= BarPreview(Sig)

(* The bonus decays from 0.12 to 0.03 over PIN_GRACE_TURNS * 4 turns.       *)
LoyaltyBonus ==
    LET span == AtLeast(1, PIN_GRACE_TURNS * 4)
    IN  3000 + (9000 * AtLeast(0, span - (Prev.turns - PIN_GRACE_TURNS))) \div span
-----------------------------------------------------------------------------
(* Spend guards.                                                            *)

Explicit(sig) == sig.directives \cap {"escalate", "high", "use"} # {}

Breached ==
    /\ control.budget # 0
    /\ Prev.spend >= control.budget
    /\ ~Explicit(Sig)

Runaway ==
    /\ Live(request.session)
    /\ ~Explicit(Sig)
    /\ Prev.tokens >= RUNAWAY_PROMPT_TOKENS \/ Prev.turns >= RUNAWAY_TURNS

StopLoss == Breached \/ Runaway

(* An advance of the control plane's alarm epoch makes older alarms stale   *)
(* and takes this session's received totals as its new baseline.            *)
SyncedEpoch == AtLeast(control.alarmEpoch, alarmEpoch)

BaselineNeverTaken == usageBaseline

SyncedBaseline ==
    IF control.alarmEpoch > alarmEpoch
    THEN [usageBaseline EXCEPT ![request.session] = request.view]
    ELSE usageBaseline

EstimateAlarm ==
    /\ Live(request.session)
    /\ Prev.kind = Sig.kind
    /\ LET alarm == kindAlarms[request.session][Prev.model][Prev.kind]
       IN  /\ alarm.epoch >= SyncedEpoch
           /\ alarm.spend >= KIND_ALARM_HKD
           /\ now - alarm.ts < KIND_ALARM_TTL

RealAlarmOfAnySession ==
    \E s \in Sessions, m \in Models :
        /\ Premium(m)
        /\ real[s][m][Sig.kind]
             - SyncedBaseline[s][m][Sig.kind] >= KIND_ALARM_HKD

RealAlarm ==
    \E m \in Models :
        /\ Premium(m)
        /\ request.view[m][Sig.kind]
             - SyncedBaseline[request.session][m][Sig.kind] >= KIND_ALARM_HKD

AlarmBasis ==
    IF EstimateAlarm THEN "estimate" ELSE IF RealAlarm THEN "real" ELSE "none"
-----------------------------------------------------------------------------
(* The end of _run: the session record, the charge of the previous pair,    *)
(* and the log record.                                                      *)

NextRecordKeepingTurns(winner, reason) ==
    [model |-> winner, kind |-> Sig.kind, ts |-> now, turns |-> Prev.turns + 1,
     tokens |-> Prev.tokens + Sig.tokens, ask |-> Sig.ask,
     spend |-> Prev.spend + EstimateCost(Sig, winner)]

NextRecord(winner, reason) ==
    [model |-> winner, kind |-> Sig.kind, ts |-> now,
     turns |-> IF reason = "pin-swap" THEN 1 ELSE Prev.turns + 1,
     tokens |-> Prev.tokens + Sig.tokens, ask |-> Sig.ask,
     spend |-> Prev.spend + EstimateCost(Sig, winner)]

ChargedAlarms ==
    IF ~Live(request.session) THEN kindAlarms
    ELSE LET charge == EstimateCost(Sig, Prev.model)
         IN  [kindAlarms EXCEPT ![request.session][Prev.model][Prev.kind] =
                 [spend |-> @.spend + charge, ts |-> now, epoch |-> SyncedEpoch]]

Commit(winner, reason, fallback) ==
    /\ sessions' = [sessions EXCEPT ![request.session] = NextRecord(winner, reason)]
    /\ trust' = FedBack
    /\ kindAlarms' = ChargedAlarms
    /\ alarmEpoch' = SyncedEpoch
    /\ usageBaseline' = SyncedBaseline
    /\ decision' = [session |-> request.session, sig |-> Sig, winner |-> winner,
                    reason |-> reason, excluded |-> Excluded, fallback |-> fallback,
                    breached |-> Breached, runaway |-> Runaway, alarm |-> AlarmBasis,
                    lease |-> LiveLease.model]
    /\ request' = NoRequest
    /\ served' = served + 1
    /\ UNCHANGED <<now, environment, lastLease, cleanedLeases>>
-----------------------------------------------------------------------------
(* The winner chain: lease, [[use:]], grace, loyalty, demotion, fresh.      *)

ServeLease ==
    /\ request # NoRequest
    /\ LeaseWins
    /\ Commit(LeaseModel, "lease", FALSE)

ServeDirective ==
    /\ request # NoRequest
    /\ ~LeaseWins
    /\ UseTarget # NoModel
    /\ Commit(UseTarget, "pinned-directive", FALSE)

Unsteered == request # NoRequest /\ ~LeaseWins /\ UseTarget = NoModel

(* A pin survives unless a spend guard drops it.                            *)
PinSurvivesIgnoringStopLoss == GracePin \/ LoyaltyPin
PinSurvives == (GracePin \/ LoyaltyPin) /\ ~StopLoss

ServeGrace ==
    /\ Unsteered
    /\ PinSurvives
    /\ GracePin
    /\ Commit(Prev.model, "pinned-grace", FALSE)

(* The pin competes: the fleet decides, and the held model keeps the turn   *)
(* while its utility plus the bonus is not beaten.                          *)
Outbid(challenger, learned) ==
    LET scored == Scored(Sig, Pool, learned)
        utility(m) == Utility(Sig, m, scored, EffectiveTrust(learned),
                              control.weights, learned)
    IN  utility(Prev.model) + LoyaltyBonus < utility(challenger)

Contend(learned) ==
    Decide(Sig, Pool, EffectiveTrust(learned), control.weights, learned)

ServeLoyal ==
    /\ Unsteered
    /\ PinSurvives
    /\ LoyaltyPin
    /\ \E table \in LearnedTables :
           LET learned == LearnedNow(table)
           IN  \E challenger \in Contend(learned) :
                   /\ \/ challenger = Prev.model
                      \/ /\ Prev.model \in Scored(Sig, Pool, learned)
                         /\ ~Outbid(challenger, learned)
                   /\ Commit(Prev.model, "pinned-loyalty", FALSE)

ServeSwap ==
    /\ Unsteered
    /\ PinSurvives
    /\ LoyaltyPin
    /\ \E table \in LearnedTables :
           LET learned == LearnedNow(table)
           IN  \E challenger \in Contend(learned) \ {Prev.model} :
                   /\ Prev.model \in Scored(Sig, Pool, learned)
                   /\ Outbid(challenger, learned)
                   /\ Commit(challenger, "pin-swap", FALSE)

(* decide's bar (learned bias, clamp) may leave the held model unscored.    *)
ServeUnscored ==
    /\ Unsteered
    /\ PinSurvives
    /\ LoyaltyPin
    /\ \E table \in LearnedTables :
           LET learned == LearnedNow(table)
           IN  \E challenger \in Contend(learned) \ {Prev.model} :
                   /\ Prev.model \notin Scored(Sig, Pool, learned)
                   /\ Commit(challenger, "fresh", FALSE)

DemotionReason ==
    IF Breached THEN "budget-cap" ELSE IF Runaway THEN "runaway" ELSE "kind-alarm"

ServeDemoted ==
    /\ Unsteered
    /\ ~PinSurvives
    /\ StopLoss \/ AlarmBasis # "none"
    /\ LET pool == DemotionPool(Sig, Fleet, Excluded)
           choices == IF pool = {} THEN {FirstInFleet} ELSE Cheapest(pool)
       IN  \E winner \in choices :
               Commit(winner, DemotionReason,
                      \A m \in Fleet \ Excluded : ~Fits(Sig, m))

ServeFresh ==
    /\ Unsteered
    /\ ~PinSurvives
    /\ ~StopLoss /\ AlarmBasis = "none"
    /\ \E table \in LearnedTables :
           \E winner \in Contend(LearnedNow(table)) :
               LET fallback == Fleet \subseteq Excluded
                   reason == IF Excluded # {} /\ ~fallback
                             THEN "cascade-escalation" ELSE "fresh"
               IN  Commit(winner, reason, fallback)

Serve ==
    \/ ServeLease \/ ServeDirective \/ ServeGrace \/ ServeLoyal \/ ServeSwap
    \/ ServeUnscored \/ ServeDemoted \/ ServeFresh
-----------------------------------------------------------------------------
(* Around the policy: the clock, the operator through control_service, the  *)
(* failure hook, the receipt writer, and the proxy process.                 *)

Tick ==
    /\ now < MaxTime
    /\ now' = now + 1
    /\ UNCHANGED <<environment, policyState, request, decision, served>>

SetControl(value) ==
    /\ control' = value
    /\ UNCHANGED <<now, failedAt, real, aggLost, policyState, request, decision,
                   served>>

SetLease(m, term) ==
    /\ control.issued < MaxLeases
    /\ LET serial == control.issued + 1
       IN  SetControl([control EXCEPT
               !.lease = [model |-> m, expires |-> now + term, serial |-> serial],
               !.issued = serial])

ClearLease ==
    /\ control.lease # NoLease
    /\ SetControl([control EXCEPT !.lease = NoLease])

SetBudget(hkd) == SetControl([control EXCEPT !.budget = hkd])

ClearBudget ==
    /\ control.budget # 0
    /\ SetControl([control EXCEPT !.budget = 0])

SetWeights(weights) == SetControl([control EXCEPT !.weights = weights])

SetLearning(enabled) == SetControl([control EXCEPT !.learning = enabled])

ClearAlarms ==
    /\ control.alarmEpoch < MaxEpoch
    /\ SetControl([control EXCEPT !.alarmEpoch = @ + 1])

(* record_failure, which is inert while learning is off.                    *)
UpstreamFailure(m) ==
    /\ control.learning
    /\ failedAt' = [failedAt EXCEPT ![m] = now]
    /\ UNCHANGED <<now, control, real, aggLost, policyState, request, decision,
                   served>>

(* A receipt of a call for kind k, billed to m.  It may come long after the *)
(* policy dropped the session's record; which calls are out, AlarmHistory   *)
(* says.  The writer's aggregate starts empty after a restart, and its      *)
(* first flush replaces the file.                                           *)
Receipt(s, m, k, bill) ==
    /\ real[s][m][k] + bill <= MaxBilled
    /\ real' = IF aggLost
               THEN [[x \in Sessions |-> NoSpend] EXCEPT ![s][m][k] = bill]
               ELSE [real EXCEPT ![s][m][k] = @ + bill]
    /\ aggLost' = FALSE
    /\ UNCHANGED <<now, control, failedAt, policyState, request, decision, served>>

(* The proxy restarts: PolicyState, the failure counters and the receipt    *)
(* writer's aggregate are RAM only.                                         *)
Restart ==
    /\ Crashes
    /\ sessions' = [s \in Sessions |-> NoRecord]
    /\ trust' = [k \in Kinds |-> [m \in Models |-> 0]]
    /\ lastLease' = NoLease
    /\ cleanedLeases' = {}
    /\ kindAlarms' = [s \in Sessions |-> NoAlarms]
    /\ alarmEpoch' = 0
    /\ usageBaseline' = [s \in Sessions |-> NoSpend]
    /\ failedAt' = [m \in Models |-> Never]
    /\ aggLost' = TRUE
    /\ request' = NoRequest
    /\ UNCHANGED <<now, control, real, decision, served>>

Operator ==
    \/ \E m \in LeaseModels, term \in LeaseTerms : SetLease(m, term)
    \/ ClearLease
    \/ \E hkd \in Budgets : SetBudget(hkd)
    \/ ClearBudget
    \/ \E weights \in WeightChoices : SetWeights(weights)
    \/ \E enabled \in LearningChoices : SetLearning(enabled)
    \/ ClearAlarms

Surroundings ==
    \/ Tick
    \/ Operator
    \/ \E m \in FailingModels : UpstreamFailure(m)
    \/ \E s \in Sessions, m \in Models, k \in Kinds, bill \in Bills :
           Receipt(s, m, k, bill)
    \/ Restart

Next ==
    \/ \E s \in Sessions, sig \in Signatures : Begin(s, sig)
    \/ SkipPath
    \/ Serve
    \/ Surroundings

Spec == Init /\ [][Next]_vars
-----------------------------------------------------------------------------
(* The session store never exceeds its cap by more than the record the       *)
(* request being served adds.                                               *)
SessionsBounded == Cardinality(Held) <= SESSION_CAP + 1
=============================================================================
