------------------------------- MODULE Learning -------------------------------
(***************************************************************************)
(* Cross-session learning: the Learner of learning.py inside the proxy,    *)
(* the hooks of routing_policy.py that feed it, the file learned.json it   *)
(* shares with the store that reads it and with the control service that   *)
(* resets it, and control.json with its learning switch and its reset      *)
(* intents.                                                                *)
(*                                                                         *)
(* Time is counted in half-lives: rows age, and whatever is queued when    *)
(* time passes is stale.  Values are in hundredths.  The three tables are  *)
(* one function of their keys, NoRow standing for a missing row.  A        *)
(* handler of the proxy is one step (the event loop runs it whole); the    *)
(* service is another process, so its read-modify-write is two.            *)
(***************************************************************************)
EXTENDS Integers, FiniteSets, Sequences

CONSTANTS
    Sessions, Models, Kinds, Asks,
    Phrases,           \* the phrases an extraction may return
    Requests,          \* requests of the fleet: the newest ask and its kind
    Reasks,            \* pairs of asks for which is_reask holds
    Continues,         \* pairs with topical_overlap of at least 0.3
    Mentions,          \* pairs of an ask and a phrase it contains
    MIN_EVIDENCE, PHRASE_EVIDENCE, ROW_CAP,
    CLEAN_TURNS, REASK_CONTRIB_CAP, SWITCH_NEGATIVES_CAP,
    KEY_POINTS_KEEP, QUEUE_MAX, EXTRACT_BATCH,
    ExtractorRuns,     \* how a batch ends: "dropped", "stored"
    ToolCalls,         \* the arguments router_learning is called with
    Intents,           \* reset intents that may be put into control.json
    NoSession, NoRecord, NoReset, Absent, NoArg,
    MaxRequests,       \* bound on the requests, of the fleet and direct
    MaxDisturbances    \* bound on what happens around them: crashes, failed
                       \* writes of learned.json, lost records, tool calls,
                       \* intents, and half-lives

Scopes == {"all", "trust", "bars", "phrases"}
Tables == {"trust", "bars", "phrases"}

Trust(k, m) == <<"trust", k, m>>
Bar(k) == <<"bars", k>>
Phrase(p) == <<"phrases", p>>
Keys ==
    {Trust(k, m) : k \in Kinds, m \in Models}
        \cup {Bar(k) : k \in Kinds} \cup {Phrase(p) : p \in Phrases}
Table(key) == key[1]

Row == [count : Nat, value : Int, last_ts : Int]
NoRow == [count |-> 0, value |-> 0, last_ts |-> -1]
NoRows == [key \in Keys |-> NoRow]

NoIntent == 0
LearnedState == [rows : [Keys -> Row], key_points : Nat, last_applied : Nat]
EmptyState == [rows |-> NoRows, key_points |-> 0, last_applied |-> NoIntent]

Record == [ask : Asks, kind : Kinds, model : Models, turns : Nat]
Control == [learning_enabled : BOOLEAN, reset_id : Nat, reset : Scopes]
ToolCall == [enabled : BOOLEAN \cup {NoArg}, reset : Scopes \cup {NoArg}]

ASSUME LearningAssumption ==
    /\ {MIN_EVIDENCE, PHRASE_EVIDENCE, CLEAN_TURNS, EXTRACT_BATCH} \subseteq Nat \ {0}
    /\ {ROW_CAP, REASK_CONTRIB_CAP, SWITCH_NEGATIVES_CAP, KEY_POINTS_KEEP, QUEUE_MAX,
        MaxRequests, MaxDisturbances} \subseteq Nat
    /\ \A S \in {Models, Kinds, Phrases} : IsFiniteSet(S)
    /\ Requests \subseteq [ask : Asks, kind : Kinds, escalate : BOOLEAN]
    /\ Intents \subseteq [id : Nat \ {NoIntent}, scope : Scopes]
    /\ ToolCalls \subseteq ToolCall
    /\ ExtractorRuns \subseteq {"dropped", "stored"}
    /\ Absent \notin LearnedState
    /\ NoRecord \notin Record
    /\ NoSession \notin Sessions

VARIABLES
    now,
    control,         \* control.json
    stamp,           \* its (mtime_ns, size); 0 while it does not exist
    learned_json,    \* learned.json, or Absent
    snapshot,        \* what the proxy's ControlStore last read of it
    built,           \* the process has its learner
    state,           \* LearnedState of the learner
    polled,          \* _last_control_stamp
    queue,           \* when the queued asks were queued
    reask_budgets, switch_budgets,
    sessions,        \* STATE.sessions
    last_session,    \* _LAST_CURSOR_AUTO_SESSION
    resetting,       \* the reset the service is working on, and what it read
    requests,        \* requests so far
    disturbances     \* and what happened around them

proxyVars == <<snapshot, built, state, polled, queue, reask_budgets,
               switch_budgets, sessions, last_session>>
vars == <<now, control, stamp, learned_json, proxyVars, resetting, requests, disturbances>>

TypeOK ==
    /\ now \in Nat
    /\ control \in Control
    /\ stamp \in Nat
    /\ learned_json \in LearnedState \cup {Absent}
    /\ snapshot \in LearnedState
    /\ built \in BOOLEAN
    /\ state \in LearnedState
    /\ polled \in Nat
    /\ queue \in Seq(Nat)
    /\ reask_budgets \in [Sessions -> 0..REASK_CONTRIB_CAP]
    /\ switch_budgets \in [Sessions -> 0..SWITCH_NEGATIVES_CAP]
    /\ sessions \in [Sessions -> Record \cup {NoRecord}]
    /\ last_session \in Sessions \cup {NoSession}
    /\ resetting \in [scope : Scopes, base : LearnedState] \cup {NoReset}
    /\ requests \in Nat
    /\ disturbances \in Nat

(* A process that has just started.                                         *)
NewProxy ==
    /\ snapshot' = EmptyState
    /\ built' = FALSE
    /\ state' = EmptyState
    /\ polled' = 0
    /\ queue' = <<>>
    /\ reask_budgets' = [s \in Sessions |-> REASK_CONTRIB_CAP]
    /\ switch_budgets' = [s \in Sessions |-> SWITCH_NEGATIVES_CAP]
    /\ sessions' = [s \in Sessions |-> NoRecord]
    /\ last_session' = NoSession

Init ==
    /\ now = 0
    /\ control = [learning_enabled |-> TRUE, reset_id |-> NoIntent, reset |-> "all"]
    /\ stamp = 0
    /\ learned_json = Absent
    /\ snapshot = EmptyState
    /\ built = FALSE
    /\ state = EmptyState
    /\ polled = 0
    /\ queue = <<>>
    /\ reask_budgets = [s \in Sessions |-> REASK_CONTRIB_CAP]
    /\ switch_budgets = [s \in Sessions |-> SWITCH_NEGATIVES_CAP]
    /\ sessions = [s \in Sessions |-> NoRecord]
    /\ last_session = NoSession
    /\ resetting = NoReset
    /\ requests = 0
    /\ disturbances = 0

Disturbance ==
    /\ disturbances < MaxDisturbances
    /\ disturbances' = disturbances + 1
-----------------------------------------------------------------------------
(* EvidenceTable.                                                           *)

Age(row) == IF row.last_ts > now THEN 0 ELSE now - row.last_ts

Twofold[age \in Nat] == IF age = 0 THEN 1 ELSE 2 * Twofold[age - 1]

(* The decayed count reaches the gate.                                      *)
Clears(row, gate) == row.count >= gate * Twofold[Age(row)]

(* add: a weight of zero registers a phrase and is no evidence.             *)
AddedRegardless(row, weight) ==
    [count |-> row.count + 1, value |-> row.value + weight, last_ts |-> now]
Added(row, weight) ==
    [count |-> IF weight # 0 THEN row.count + 1 ELSE row.count,
     value |-> row.value + weight,
     last_ts |-> now]

Dormant(row) == Age(row) > 1 /\ ~Clears(row, MIN_EVIDENCE)

Weaker(row, other) == row.count * Twofold[Age(other)] < other.count * Twofold[Age(row)]

(* prune: the rows it keeps are those awake, and of a table that is over    *)
(* the cap as many as it may have, none of them weaker than one dropped.    *)
Awake(rows) == {key \in Keys : rows[key] # NoRow /\ ~Dormant(rows[key])}
KeepsStrongest(rows, kept, awake) ==
    /\ Cardinality(kept) = IF Cardinality(awake) > ROW_CAP THEN ROW_CAP ELSE Cardinality(awake)
    /\ \A in \in kept, out \in awake \ kept : ~Weaker(rows[in], rows[out])
Kept(rows) ==
    {kept \in SUBSET Awake(rows) : \A t \in Tables :
        KeepsStrongest(rows, {key \in kept : Table(key) = t},
                             {key \in Awake(rows) : Table(key) = t})}
Pruned(rows) ==
    {[key \in Keys |-> IF key \in kept THEN rows[key] ELSE NoRow] : kept \in Kept(rows)}

(* What the store's readers make of a row: nothing below the gate, else its *)
(* value within the table's bound.                                          *)
Bound(table) == CASE table = "trust" -> 40 [] table = "bars" -> 10 [] table = "phrases" -> 10
Gate(table) == IF table = "phrases" THEN PHRASE_EVIDENCE ELSE MIN_EVIDENCE
Clamped(value, bound) ==
    IF value > bound THEN bound ELSE IF value < -bound THEN -bound ELSE value
Influence(rows, key) ==
    IF Clears(rows[key], Gate(Table(key)))
    THEN Clamped(rows[key].value, Bound(Table(key))) ELSE 0
-----------------------------------------------------------------------------
(* Verdicts.                                                                *)

Uncapped(s) == TRUE
MayReask(s) == reask_budgets[s] > 0

(* classify_verdict, and the cap of observe_decision on re-asks.            *)
VerdictOf(s, request) ==
    LET previous == sessions[s]
    IN  IF previous = NoRecord THEN "none"
        ELSE IF request.escalate THEN "escalate"
        ELSE IF <<previous.ask, request.ask>> \in Reasks
             THEN IF MayReask(s) THEN "reask" ELSE "none"
        ELSE IF previous.turns + 1 >= CLEAN_TURNS THEN "clean" ELSE "none"

Weight(verdict) ==
    CASE verdict \in {"escalate", "reask", "direct_switch"} -> -20
      [] verdict = "clean" -> 3
      [] verdict = "none" -> 0

(* apply_verdict: the weight each row gets.  The judged record is the one   *)
(* before; a clean verdict also confirms the known phrases of the new ask.  *)
Judged(verdict, record, ask, rows) ==
    [key \in Keys |->
        CASE verdict = "none" -> 0
          [] verdict # "none" /\ key = Trust(record.kind, record.model) -> Weight(verdict)
          [] verdict \in {"escalate", "direct_switch"} /\ key = Bar(record.kind) -> Weight(verdict)
          [] verdict = "clean" /\ (\E p \in Phrases :
                 key = Phrase(p) /\ <<ask, p>> \in Mentions) /\ rows[key] # NoRow -> 100
          [] OTHER -> 0]
Folded(rows, weights) ==
    [key \in Keys |-> IF weights[key] # 0 THEN Added(rows[key], weights[key]) ELSE rows[key]]
-----------------------------------------------------------------------------
(* The learner's upkeep.                                                    *)

(* The learner is built from learned.json when it is first asked for.       *)
Loaded == IF learned_json = Absent THEN EmptyState ELSE learned_json
Learner == IF built THEN state ELSE Loaded

(* poll_reset_intents: the stamp is taken whatever the file says.           *)
Unseen == stamp # polled
PendingIgnoringApplied(l) == Unseen /\ control.reset_id # NoIntent
Pending(l) == Unseen /\ control.reset_id \notin {NoIntent, l.last_applied}

Without(table, rows) == [key \in Keys |-> IF Table(key) = table THEN NoRow ELSE rows[key]]
Reset(l, scope) ==
    IF scope = "all" THEN EmptyState
    ELSE [l EXCEPT !.rows = Without(scope, @),
                   !.key_points = IF scope = "phrases" THEN 0 ELSE @]
NotPolled(l) == l
Polled(l) ==
    IF Pending(l)
    THEN [Reset(l, control.reset) EXCEPT !.last_applied = control.reset_id] ELSE l

(* flush: the tables are pruned, and written unless there is nothing to     *)
(* write.  A failed write is counted and forgotten.                         *)
Worth(l) == l.rows # NoRows \/ l.key_points > 0 \/ l.last_applied # NoIntent
Flush(l) ==
    /\ \E rows \in Pruned(l.rows) : state' = [l EXCEPT !.rows = rows]
    /\ \/ /\ learned_json' = IF Worth(state') THEN state' ELSE learned_json
          /\ UNCHANGED disturbances
       \/ /\ Worth(state')
          /\ Disturbance
          /\ UNCHANGED learned_json

(* enqueue: stale asks leave the front, and the oldest when there are too   *)
(* many.                                                                    *)
StaleAsks ==
    CHOOSE n \in 0..Len(queue) :
        /\ \A i \in 1..n : queue[i] < now
        /\ n < Len(queue) => queue[n + 1] >= now
Enqueued ==
    LET fresh == Append(SubSeq(queue, StaleAsks + 1, Len(queue)), now)
    IN  IF Len(fresh) > QUEUE_MAX THEN Tail(fresh) ELSE fresh

(* _refresh_learned: a missing file leaves the snapshot as it was.          *)
Refreshed == IF learned_json' = Absent THEN snapshot ELSE learned_json'
-----------------------------------------------------------------------------
(* Actions of the proxy.                                                    *)

Unhooked ==
    /\ state' = Learner
    /\ UNCHANGED <<learned_json, polled, queue, reask_budgets, disturbances>>

Hooked(s, request) ==
    LET start == Polled(Learner)
        verdict == VerdictOf(s, request)
    IN  /\ Flush([start EXCEPT !.rows =
               Folded(@, Judged(verdict, sessions[s], request.ask, @))])
        /\ polled' = stamp
        /\ queue' = Enqueued
        /\ reask_budgets' = [reask_budgets EXCEPT ![s] =
               IF verdict = "reask" THEN @ - 1 ELSE @]

(* CursorAutoPolicy._run on a fleet request, as far as it touches learning: *)
(* the winner is any model, and a pin-swap starts the turns again.  Turns   *)
(* are counted as far as a clean verdict asks for.                          *)
NextTurn(record) ==
    IF record.turns + 1 < CLEAN_TURNS THEN record.turns + 1 ELSE record.turns

Turn(s, request, winner) ==
    /\ requests < MaxRequests
    /\ requests' = requests + 1
    /\ built' = TRUE
    /\ IF control.learning_enabled THEN Hooked(s, request) ELSE Unhooked
    /\ snapshot' = Refreshed
    /\ \E turns \in (IF sessions[s] = NoRecord THEN {1}
                     ELSE {NextTurn(sessions[s])}
                            \cup (IF sessions[s].model # winner THEN {1} ELSE {})) :
           sessions' = [sessions EXCEPT ![s] =
               [ask |-> request.ask, kind |-> request.kind, model |-> winner, turns |-> turns]]
    /\ last_session' = s
    /\ UNCHANGED <<now, control, stamp, switch_budgets, resetting>>

(* _observe_skip_path: a request of session s to a model of its own choice. *)
(* It is judged against the session the policy served last, whichever       *)
(* session it comes from.                                                   *)
Switched(ask, model) ==
    /\ last_session # NoSession
    /\ sessions[last_session] # NoRecord
    /\ sessions[last_session].model # model
    /\ <<sessions[last_session].ask, ask>> \in Continues
    /\ switch_budgets[last_session] > 0
DirectTurn(s, ask, model) ==
    /\ requests < MaxRequests
    /\ requests' = requests + 1
    /\ control.learning_enabled
    /\ built' = TRUE
    /\ IF Switched(ask, model)
       THEN /\ \E rows \in Pruned(Folded(Learner.rows,
                      Judged("direct_switch", sessions[last_session], ask, Learner.rows))) :
                   state' = [Learner EXCEPT !.rows = rows]
            /\ switch_budgets' = [switch_budgets EXCEPT ![last_session] = @ - 1]
       ELSE /\ state' = Learner
            /\ UNCHANGED switch_budgets
    /\ UNCHANGED <<now, control, stamp, learned_json, snapshot, polled, queue,
                   reask_budgets, sessions, last_session, resetting, disturbances>>

(* _flush_poll, which runs once a minute from the first request on.         *)
FlushPoll ==
    /\ built
    /\ control.learning_enabled
    /\ Flush(Polled(state))
    /\ polled' = stamp
    /\ UNCHANGED <<now, control, stamp, snapshot, built, queue, reask_budgets,
                   switch_budgets, sessions, last_session, resetting, requests>>

(* The loop of _start_extraction_loop: every full batch is taken from the   *)
(* queue; what the extractor makes of it is registered without evidence.    *)
Registered(rows, phrases) ==
    [key \in Keys |-> IF key \in {Phrase(p) : p \in phrases} THEN Added(rows[key], 0) ELSE rows[key]]

ExtractPoll ==
    /\ built
    /\ control.learning_enabled
    /\ Len(queue) >= EXTRACT_BATCH
    /\ queue' = SubSeq(queue, EXTRACT_BATCH * (Len(queue) \div EXTRACT_BATCH) + 1, Len(queue))
    /\ \/ /\ "dropped" \in ExtractorRuns
          /\ UNCHANGED state
       \/ /\ "stored" \in ExtractorRuns
          /\ \E phrases \in SUBSET Phrases :
                 \E rows \in Pruned(Registered(state.rows, phrases)) :
                     state' = [state EXCEPT !.rows = rows,
                                            !.key_points = IF @ < KEY_POINTS_KEEP THEN @ + 1 ELSE @]
    /\ UNCHANGED <<now, control, stamp, learned_json, snapshot, built, polled,
                   reask_budgets, switch_budgets, sessions, last_session,
                   resetting, requests, disturbances>>

(* STATE.prune and drop_leases, which RoutingPolicy models, drop records.   *)
Forget(s) ==
    /\ Disturbance
    /\ sessions[s] # NoRecord
    /\ sessions' = [sessions EXCEPT ![s] = NoRecord]
    /\ UNCHANGED <<now, control, stamp, learned_json, snapshot, built, state, polled,
                   queue, reask_budgets, switch_budgets, last_session, resetting, requests>>

Crash ==
    /\ Disturbance
    /\ built
    /\ NewProxy
    /\ UNCHANGED <<now, control, stamp, learned_json, resetting, requests>>
-----------------------------------------------------------------------------
(* The control service, asked through the tool router_learning.  A call     *)
(* with both arguments sends both, and do_POST acts on the first.           *)

SetLearning(enabled) ==
    /\ Disturbance
    /\ resetting = NoReset
    /\ control' = [control EXCEPT !.learning_enabled = enabled]
    /\ stamp' = stamp + 1
    /\ UNCHANGED <<now, learned_json, proxyVars, resetting, requests>>

(* reset_learned, which takes the lock and reads learned.json ...           *)
ResetLearned(scope) ==
    /\ Disturbance
    /\ resetting = NoReset
    /\ resetting' = [scope |-> scope, base |-> Loaded]
    /\ UNCHANGED <<now, control, stamp, learned_json, proxyVars, requests>>

(* ... and removes it, or replaces it by what it read without one table.    *)
ResetDone ==
    /\ resetting # NoReset
    /\ resetting' = NoReset
    /\ \/ /\ learned_json' = IF resetting.scope = "all" THEN Absent
                              ELSE Reset(resetting.base, resetting.scope)
          /\ UNCHANGED disturbances
       \/ Disturbance /\ UNCHANGED learned_json
    /\ UNCHANGED <<now, control, stamp, proxyVars, requests>>

RouterLearning(call) ==
    IF call.enabled # NoArg THEN SetLearning(call.enabled)
    ELSE call.reset # NoArg /\ ResetLearned(call.reset)

(* A reset intent, put into control.json by hand: no code writes one.  Ids  *)
(* only grow.                                                               *)
Intent(intent) ==
    /\ Disturbance
    /\ intent.id > control.reset_id
    /\ control' = [control EXCEPT !.reset_id = intent.id, !.reset = intent.scope]
    /\ stamp' = stamp + 1
    /\ UNCHANGED <<now, learned_json, proxyVars, resetting, requests>>

Tick ==
    /\ Disturbance
    /\ now' = now + 1
    /\ UNCHANGED <<control, stamp, learned_json, proxyVars, resetting, requests>>

Next ==
    \/ \E s \in Sessions, request \in Requests, winner \in Models : Turn(s, request, winner)
    \/ \E s \in Sessions, ask \in Asks, model \in Models : DirectTurn(s, ask, model)
    \/ FlushPoll
    \/ ExtractPoll
    \/ \E s \in Sessions : Forget(s)
    \/ Crash
    \/ \E call \in ToolCalls : RouterLearning(call)
    \/ ResetDone
    \/ \E intent \in Intents : Intent(intent)
    \/ Tick

Spec == Init /\ [][Next]_vars
=============================================================================
