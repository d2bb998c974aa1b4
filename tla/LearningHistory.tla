--------------------------- MODULE LearningHistory ---------------------------
(***************************************************************************)
(* Learning with the history of what was really observed, and the          *)
(* properties of the tables that take several turns, a crash, or another   *)
(* process to violate.  The history variables are written after every step *)
(* and never read by it.                                                   *)
(***************************************************************************)
EXTENDS Learning

VARIABLES
    observed,     \* per row, the requests that can have been evidence for it
    sinceReset,   \* the same, since the service last did a reset of its table
    contributed,  \* per session, the re-asks and the switches the running
                  \* process took as evidence
    consumed,     \* ids of the intents the process, once it has its learner,
                  \* knows were applied
    settled       \* those a restart finds in learned.json

evidence == <<observed, sinceReset>>
bookkeeping == <<contributed, consumed, settled>>
history == <<evidence, bookkeeping>>
hvars == <<vars, history>>

Nothing == [s \in Sessions |-> 0]

HInit ==
    /\ Init
    /\ observed = [key \in Keys |-> Loaded.rows[key].count]
    /\ sinceReset = observed
    /\ contributed = [reasks |-> Nothing, switches |-> Nothing]
    /\ consumed = {Loaded.last_applied}
    /\ settled = consumed

(* The rows a verdict on `record` can be evidence for.                      *)
Concerned(record, ask, strong) ==
    IF record = NoRecord THEN {}
    ELSE {Trust(record.kind, record.model)}
            \cup (IF strong THEN {Bar(record.kind)} ELSE {})
            \cup {Phrase(p) : p \in {q \in Phrases : <<ask, q>> \in Mentions}}

Observe(keys) ==
    /\ observed' = [key \in Keys |-> IF key \in keys THEN observed[key] + 1 ELSE observed[key]]
    /\ sinceReset' = [key \in Keys |-> IF key \in keys THEN sinceReset[key] + 1 ELSE sinceReset[key]]

(* What learned.json says is applied survives a restart.                    *)
Consume ==
    /\ consumed' = consumed \cup {state'.last_applied}
    /\ settled' = IF learned_json' = state' THEN consumed' ELSE settled

TookTrust(s) ==
    LET key == Trust(sessions[s].kind, sessions[s].model)
    IN  /\ control.learning_enabled
        /\ sessions[s] # NoRecord
        /\ state'.rows[key].count > Polled(Learner).rows[key].count

HTurn(s, request, winner) ==
    /\ Turn(s, request, winner)
    /\ Observe(Concerned(sessions[s], request.ask, request.escalate))
    /\ Consume
    /\ contributed' =
           IF TookTrust(s) /\ ~request.escalate /\ <<sessions[s].ask, request.ask>> \in Reasks
           THEN [contributed EXCEPT !.reasks[s] = @ + 1] ELSE contributed

HDirectTurn(s, ask, model) ==
    /\ DirectTurn(s, ask, model)
    /\ Observe(IF last_session = NoSession THEN {}
               ELSE Concerned(sessions[last_session], ask, TRUE))
    /\ contributed' =
           IF state'.rows # Learner.rows
           THEN [contributed EXCEPT !.switches[last_session] = @ + 1] ELSE contributed
    /\ UNCHANGED <<consumed, settled>>

HFlushPoll == FlushPoll /\ Consume /\ UNCHANGED <<evidence, contributed>>

HCrash ==
    /\ Crash
    /\ contributed' = [reasks |-> Nothing, switches |-> Nothing]
    /\ consumed' = settled
    /\ UNCHANGED <<evidence, settled>>

(* A reset that was done: the table's evidence starts again, and the file   *)
(* may have gone back to an intent that was applied before.                 *)
HResetDone ==
    /\ ResetDone
    /\ sinceReset' =
           [key \in Keys |->
               IF learned_json' # learned_json /\ resetting.scope \in {"all", Table(key)}
               THEN 0 ELSE sinceReset[key]]
    /\ settled' =
           IF learned_json' # Absent /\ learned_json # Absent
              /\ learned_json'.last_applied = learned_json.last_applied
           THEN settled ELSE {}
    /\ consumed' = IF built THEN consumed ELSE settled'
    /\ UNCHANGED <<observed, contributed>>

HRest ==
    /\ \/ ExtractPoll
       \/ \E s \in Sessions : Forget(s)
       \/ \E call \in ToolCalls : RouterLearning(call)
       \/ \E intent \in Intents : Intent(intent)
       \/ Tick
    /\ UNCHANGED history

HNext ==
    \/ \E s \in Sessions, request \in Requests, winner \in Models : HTurn(s, request, winner)
    \/ \E s \in Sessions, ask \in Asks, model \in Models : HDirectTurn(s, ask, model)
    \/ HFlushPoll
    \/ HCrash
    \/ HResetDone
    \/ HRest

HSpec == HInit /\ [][HNext]_hvars

(* _flush_poll wakes once a minute while the process runs.                  *)
FairHSpec == HSpec /\ WF_hvars(HFlushPoll)
-----------------------------------------------------------------------------
(* Whatever crashes, failed writes, resets and reloads happen: no table, in *)
(* RAM, in learned.json, or in what the store or the service have read of   *)
(* it, holds more evidence for a row than requests that were evidence.      *)
EvidenceIsEarned ==
    \A key \in Keys :
        \A l \in {state, Loaded, snapshot}
                    \cup (IF resetting = NoReset THEN {} ELSE {resetting.base}) :
            l.rows[key].count <= observed[key]

(* And a row that moves a decision has really been observed as often as its *)
(* gate demands.                                                            *)
InfluenceIsEarned ==
    /\ EvidenceIsEarned
    /\ \A key \in Keys :
           Influence(snapshot.rows, key) # 0 => observed[key] >= Gate(Table(key))

(* Within one life of the process a session is evidence through at most     *)
(* REASK_CONTRIB_CAP re-asks and SWITCH_NEGATIVES_CAP switches, also when   *)
(* its record is dropped in between.                                        *)
ContributionsBounded ==
    \A s \in Sessions :
        /\ contributed.reasks[s] <= REASK_CONTRIB_CAP
        /\ contributed.switches[s] <= SWITCH_NEGATIVES_CAP

(* While the process lives, a row loses evidence only by decay, to another  *)
(* row when its table is full, or by an intent not applied before:          *)
(* control.json keeps a consumed intent and is rewritten around it.         *)
Crowded(table) ==
    Cardinality({key \in Keys : Table(key) = table
                    /\ {Learner.rows[key], state'.rows[key]} # {NoRow}}) > ROW_CAP
EvidenceIsKept ==
    [][ \A key \in Keys :
            state'.rows[key].count < Learner.rows[key].count =>
                \/ ~built'
                \/ Dormant(Learner.rows[key])
                \/ Crowded(Table(key))
                \/ control.reset_id \notin consumed ]_hvars

(* While learning is on, a process that has served a request applies the    *)
(* intent in control.json, unless it is replaced first.                     *)
IntentEventuallyApplied ==
    \A intent \in Intents :
        (built /\ control.learning_enabled /\ control.reset_id = intent.id)
            ~> \/ state.last_applied = intent.id
               \/ ~built \/ ~control.learning_enabled \/ control.reset_id # intent.id
-----------------------------------------------------------------------------
(* mcp_server.py says of a reset "all deletes learned.json so learning      *)
(* starts over", and control_service.py that "the learner starts from a     *)
(* pristine slate": what learned.json holds after a reset was observed      *)
(* after it.                                                                *)
ResetStartsOver == \A key \in Keys : Loaded.rows[key].count <= sinceReset[key]

(* The design says learning "raises the capability bar for kinds this user  *)
(* finds under-served".                                                     *)
LearnedBarRises == \A k \in Kinds : Influence(snapshot.rows, Bar(k)) >= 0
=============================================================================
