---------------------------- MODULE LearningProofs ----------------------------
(***************************************************************************)
(* Proofs about LearningHistory: no table ever holds more evidence than    *)
(* was observed, no row moves a decision that has not earned it, one       *)
(* session's contributions stay within their caps, and evidence is lost    *)
(* only for a reason; for any sessions, models, asks and caps, and any     *)
(* number of crashes, resets and failed writes.                            *)
(***************************************************************************)
EXTENDS LearningHistory, Induction, SequenceTheorems

Rows == [Keys -> Row]
Verdicts == {"none", "escalate", "reask", "clean", "direct_switch"}

EarnedBy(l, counts) == \A key \in Keys : l.rows[key].count <= counts[key]

(* The parts of the state the tables pass through.                          *)
TablesOK ==
    /\ now \in Nat
    /\ control \in Control
    /\ state \in LearnedState
    /\ learned_json \in LearnedState \cup {Absent}
    /\ snapshot \in LearnedState
    /\ resetting = NoReset \/ resetting.base \in LearnedState
    /\ sessions \in [Sessions -> Record \cup {NoRecord}]
    /\ last_session \in Sessions \cup {NoSession}
    /\ observed \in [Keys -> Nat]

EarnedInv ==
    /\ EarnedBy(state, observed)
    /\ learned_json # Absent => EarnedBy(learned_json, observed)
    /\ EarnedBy(snapshot, observed)
    /\ resetting # NoReset => EarnedBy(resetting.base, observed)

(* What a session has contributed, it has paid for with its budget.         *)
BudgetInv ==
    /\ reask_budgets \in [Sessions -> Nat]
    /\ switch_budgets \in [Sessions -> Nat]
    /\ contributed \in [reasks : [Sessions -> Nat], switches : [Sessions -> Nat]]
    /\ \A s \in Sessions :
           /\ contributed.reasks[s] + reask_budgets[s] <= REASK_CONTRIB_CAP
           /\ contributed.switches[s] + switch_budgets[s] <= SWITCH_NEGATIVES_CAP

LearningInv == TablesOK /\ EarnedInv /\ BudgetInv

(* The rest of the state.                                                   *)
OthersOK ==
    /\ stamp \in Nat
    /\ built \in BOOLEAN
    /\ polled \in Nat
    /\ queue \in Seq(Nat)
    /\ resetting \in [scope : Scopes, base : LearnedState] \cup {NoReset}
    /\ requests \in Nat
    /\ disturbances \in Nat

(* An intent that the process, or a restart, knows was applied is either    *)
(* the last applied one of its learner, or not in control.json any more.    *)
AppliedInv ==
    /\ consumed \cup settled \subseteq 0 .. control.reset_id
    /\ state.last_applied <= control.reset_id
    /\ Loaded.last_applied <= control.reset_id
    /\ resetting # NoReset => resetting.base.last_applied <= control.reset_id
    /\ control.reset_id # NoIntent =>
           /\ control.reset_id \in settled => Loaded.last_applied = control.reset_id
           /\ built /\ control.reset_id \in consumed => state.last_applied = control.reset_id
    /\ ~built => consumed = settled

KeptInv == LearningInv /\ OthersOK /\ AppliedInv
-----------------------------------------------------------------------------
(* Operators.                                                               *)

LEMMA EmptyType == NoRow \in Row /\ NoRows \in Rows /\ EmptyState \in LearnedState
  BY DEF NoRow, Row, NoRows, Rows, EmptyState, LearnedState, NoIntent

(* The gate is never lowered by age.                                        *)
LEMMA TwofoldIsPositive ==
  ASSUME NEW n \in Nat PROVE Twofold[n] \in Nat /\ 1 <= Twofold[n]
<1>1. Twofold = CHOOSE f : IsDoubling(f, Nat)
  BY DEF Twofold, IsDoubling
<1>2. IsDoubling(Twofold, Nat)
  BY <1>1, DoublingExists
<1> QED BY <1>2, DoublingIsPositive

(* Pruning keeps a row as it is or drops it.                                *)
LEMMA PrunedRows ==
  ASSUME NEW rows \in Rows, NEW kept \in Pruned(rows)
  PROVE  /\ kept \in Rows
         /\ \A key \in Keys : kept[key] = rows[key] \/ kept[key] = NoRow
  BY EmptyType DEF Pruned, Rows

(* Folding weights in adds one piece of evidence to a row of any weight,    *)
(* and none to the others.                                                  *)
LEMMA FoldedRows ==
  ASSUME now \in Nat, NEW rows \in Rows, NEW weights \in [Keys -> Int]
  PROVE  /\ Folded(rows, weights) \in Rows
         /\ \A key \in Keys : Folded(rows, weights)[key].count =
                rows[key].count + (IF weights[key] = 0 THEN 0 ELSE 1)
<1> SUFFICES ASSUME NEW key \in Keys
             PROVE  /\ Folded(rows, weights)[key] \in Row
                    /\ Folded(rows, weights)[key].count =
                           rows[key].count + (IF weights[key] = 0 THEN 0 ELSE 1)
  BY DEF Folded, Rows
<1>1. rows[key] \in Row /\ weights[key] \in Int
  BY DEF Rows
<1> QED BY <1>1 DEF Folded, Added, Row

(* A verdict weighs only on rows it can be evidence for.                    *)
LEMMA JudgedWeights ==
  ASSUME NEW verdict \in Verdicts, NEW record \in Record, NEW ask, NEW rows
  PROVE  /\ Judged(verdict, record, ask, rows) \in [Keys -> Int]
         /\ \A key \in Keys : Judged(verdict, record, ask, rows)[key] # 0 =>
                key \in Concerned(record, ask, verdict \in {"escalate", "direct_switch"})
<1> DEFINE weights == Judged(verdict, record, ask, rows)
           strong == verdict \in {"escalate", "direct_switch"}
           own(key) == key = Trust(record.kind, record.model)
           bar(key) == strong /\ key = Bar(record.kind)
           known(key) == \E p \in Phrases : key = Phrase(p) /\ <<ask, p>> \in Mentions
<1> SUFFICES ASSUME NEW key \in Keys
             PROVE  /\ weights[key] \in Int
                    /\ weights[key] # 0 => key \in Concerned(record, ask, strong)
  BY DEF Judged
<1>1. Weight(verdict) \in Int
  BY DEF Weight, Verdicts
<1>2. /\ weights[key] \in {0, Weight(verdict), 100}
      /\ weights[key] # 0 => own(key) \/ bar(key) \/ known(key)
  BY Zenon DEF Judged
<1>3. own(key) \/ bar(key) \/ known(key) => key \in Concerned(record, ask, strong)
  <2>1. record # NoRecord
    BY LearningAssumption
  <2> QED BY <2>1 DEF Concerned
<1> HIDE DEF weights, strong, own, bar, known
<1> QED BY <1>1, <1>2, <1>3

LEMMA NoneWeighsNothing ==
  ASSUME NEW record, NEW ask, NEW rows, NEW key \in Keys
  PROVE  Judged("none", record, ask, rows)[key] = 0
  BY DEF Judged

LEMMA VerdictKinds ==
  ASSUME NEW s \in Sessions, NEW request \in Requests
  PROVE  /\ VerdictOf(s, request) \in Verdicts
         /\ VerdictOf(s, request) # "direct_switch"
         /\ sessions[s] = NoRecord => VerdictOf(s, request) = "none"
         /\ VerdictOf(s, request) = "escalate" => request.escalate
  BY DEF VerdictOf, Verdicts
-----------------------------------------------------------------------------
(* The learner's upkeep, from tables that are in order.                     *)

LEMMA ResetRows ==
  ASSUME NEW l \in LearnedState, NEW scope
  PROVE  /\ Reset(l, scope) \in LearnedState
         /\ \A key \in Keys : Reset(l, scope).rows[key] \in {l.rows[key], NoRow}
<1>1. CASE scope = "all"
  BY <1>1, EmptyType DEF Reset, EmptyState, NoRows
<1>2. CASE scope # "all"
  BY <1>2, EmptyType DEF Reset, Without, LearnedState
<1> QED BY <1>1, <1>2

LEMMA PolledRows ==
  ASSUME control \in Control, NEW l \in LearnedState
  PROVE  /\ Polled(l) \in LearnedState
         /\ \A key \in Keys : Polled(l).rows[key] \in {l.rows[key], NoRow}
<1> DEFINE reset == Reset(l, control.reset)
<1>1. /\ reset \in LearnedState
      /\ \A key \in Keys : reset.rows[key] \in {l.rows[key], NoRow}
  BY ResetRows
<1>2. control.reset_id \in Nat
  BY DEF Control
<1>3. Polled(l) \in {l, [reset EXCEPT !.last_applied = control.reset_id]}
  BY DEF Polled
<1> HIDE DEF reset
<1> QED BY <1>1, <1>2, <1>3 DEF LearnedState

LEMMA LearnerRows ==
  ASSUME TablesOK, EarnedInv
  PROVE  Learner \in LearnedState /\ EarnedBy(Learner, observed)
<1>1. EarnedBy(EmptyState, observed)
  BY DEF EarnedBy, EmptyState, NoRows, NoRow, TablesOK
<1> QED BY <1>1, EmptyType DEF TablesOK, EarnedInv, Learner, Loaded

(* Rows that keep or lose evidence stay earned.                             *)
LEMMA StillEarned ==
  ASSUME NEW l \in LearnedState, NEW counts \in [Keys -> Nat], EarnedBy(l, counts),
         NEW k \in LearnedState,
         \A key \in Keys : k.rows[key] \in {l.rows[key], NoRow}
  PROVE  EarnedBy(k, counts)
  BY DEF EarnedBy, NoRow

LEMMA FlushRows ==
  ASSUME NEW l \in LearnedState, Flush(l)
  PROVE  /\ state' \in LearnedState
         /\ \A key \in Keys : state'.rows[key] \in {l.rows[key], NoRow}
         /\ learned_json' \in {state', learned_json}
<1>1. PICK rows \in Pruned(l.rows) : state' = [l EXCEPT !.rows = rows]
  BY DEF Flush
<1>2. l.rows \in Rows
  BY DEF LearnedState, Rows
<1>3. rows \in Rows /\ \A key \in Keys : rows[key] = l.rows[key] \/ rows[key] = NoRow
  BY <1>2, PrunedRows
<1>4. learned_json' \in {state', learned_json}
  BY DEF Flush
<1> QED BY <1>1, <1>3, <1>4 DEF LearnedState, Rows

(* Folding a verdict adds at most one piece of evidence, to rows concerned. *)
FoldedBy(l, verdict, record, ask) == Folded(l.rows, Judged(verdict, record, ask, l.rows))
StrongConcern(verdict, record, ask) ==
    Concerned(record, ask, verdict \in {"escalate", "direct_switch"})

LEMMA VerdictRows ==
  ASSUME now \in Nat, NEW l \in LearnedState, NEW verdict \in Verdicts, NEW ask,
         NEW record \in Record \cup {NoRecord}, record = NoRecord => verdict = "none"
  PROVE  /\ FoldedBy(l, verdict, record, ask) \in Rows
         /\ \A key \in Keys :
               /\ l.rows[key].count \in Nat
               /\ FoldedBy(l, verdict, record, ask)[key].count \in Nat
               /\ FoldedBy(l, verdict, record, ask)[key].count <= l.rows[key].count + 1
               /\ FoldedBy(l, verdict, record, ask)[key].count # l.rows[key].count =>
                      verdict # "none" /\ key \in StrongConcern(verdict, record, ask)
<1> DEFINE folded == Folded(l.rows, Judged(verdict, record, ask, l.rows))
<1> SUFFICES /\ folded \in Rows
             /\ \A key \in Keys :
                   /\ l.rows[key].count \in Nat /\ folded[key].count \in Nat
                   /\ folded[key].count <= l.rows[key].count + 1
                   /\ folded[key].count # l.rows[key].count =>
                          /\ verdict # "none"
                          /\ key \in Concerned(record, ask, verdict \in {"escalate", "direct_switch"})
  BY DEF FoldedBy, StrongConcern
<1> DEFINE weights == Judged(verdict, record, ask, l.rows)
<1>1. l.rows \in Rows
  BY DEF LearnedState, Rows
<1>2. CASE verdict = "none"
  <2>1. weights \in [Keys -> Int] /\ \A key \in Keys : weights[key] = 0
    BY <1>2 DEF Judged
  <2> HIDE DEF weights
  <2>2. folded \in Rows /\ \A key \in Keys : folded[key].count = l.rows[key].count + 0
    BY <1>1, <2>1, FoldedRows DEF weights
  <2> QED BY <1>1, <2>2 DEF Rows, Row
<1>3. CASE verdict # "none"
  <2>1. record \in Record
    BY <1>3
  <2>2. /\ weights \in [Keys -> Int]
        /\ \A key \in Keys : weights[key] # 0 =>
               key \in Concerned(record, ask, verdict \in {"escalate", "direct_switch"})
    BY <2>1, JudgedWeights
  <2> HIDE DEF weights
  <2>3. /\ folded \in Rows
        /\ \A key \in Keys : folded[key].count =
               l.rows[key].count + (IF weights[key] = 0 THEN 0 ELSE 1)
    BY <1>1, <2>2, FoldedRows DEF weights
  <2>4. \A key \in Keys : l.rows[key].count \in Nat /\ folded[key].count \in Nat
    BY <1>1, <2>3 DEF Rows, Row
  <2>5. ASSUME NEW key \in Keys
        PROVE  /\ folded[key].count <= l.rows[key].count + 1
               /\ folded[key].count # l.rows[key].count => weights[key] # 0
    BY <2>3, <2>4
  <2> QED BY <1>3, <2>2, <2>3, <2>4, <2>5
<1> QED BY <1>2, <1>3
-----------------------------------------------------------------------------
(* Steps.                                                                   *)

LEMMA LearningInit == HInit => LearningInv
<1> SUFFICES ASSUME HInit PROVE LearningInv
  OBVIOUS
<1> USE DEF HInit, Init
<1>1. Loaded = EmptyState /\ state = EmptyState /\ snapshot = EmptyState /\ resetting = NoReset
  BY DEF Loaded
<1>2. observed = [key \in Keys |-> 0] /\ EarnedBy(EmptyState, observed)
  BY <1>1 DEF EarnedBy, EmptyState, NoRows, NoRow
<1>3. control \in Control
  BY DEF Control, NoIntent, Scopes
<1>4. TablesOK
  BY <1>1, <1>2, <1>3, EmptyType DEF TablesOK
<1>5. EarnedInv
  BY <1>1, <1>2 DEF EarnedInv
<1>6. BudgetInv
  BY LearningAssumption DEF BudgetInv, Nothing
<1> QED BY <1>4, <1>5, <1>6 DEF LearningInv

(* More observations leave earned tables earned.                            *)
LEMMA MoreObserved ==
  ASSUME observed \in [Keys -> Nat], NEW keys, Observe(keys)
  PROVE  /\ observed' \in [Keys -> Nat]
         /\ \A key \in Keys : observed[key] <= observed'[key]
         /\ \A key \in keys \cap Keys : observed'[key] = observed[key] + 1
         /\ \A l \in LearnedState : EarnedBy(l, observed) => EarnedBy(l, observed')
<1>1. /\ observed' \in [Keys -> Nat]
      /\ \A key \in Keys : observed[key] <= observed'[key]
      /\ \A key \in keys \cap Keys : observed'[key] = observed[key] + 1
  BY DEF Observe
<1>2. ASSUME NEW l \in LearnedState, EarnedBy(l, observed)
      PROVE  EarnedBy(l, observed')
  <2>1. \A key \in Keys : l.rows[key].count \in Nat
    BY DEF LearnedState, Row
  <2> QED BY <1>1, <1>2, <2>1 DEF EarnedBy
<1> QED BY <1>1, <1>2

(* A verdict's evidence is among the rows its request is observed for.      *)
LEMMA FoldedIsEarned ==
  ASSUME TablesOK, NEW keys, Observe(keys),
         NEW l \in LearnedState, EarnedBy(l, observed),
         NEW folded \in Rows,
         \A key \in Keys :
             /\ l.rows[key].count \in Nat /\ folded[key].count \in Nat
             /\ folded[key].count <= l.rows[key].count + 1
             /\ folded[key].count # l.rows[key].count => key \in keys,
         NEW k \in LearnedState,
         \A key \in Keys : k.rows[key] \in {folded[key], NoRow}
  PROVE  EarnedBy(k, observed')
<1>1. /\ observed \in [Keys -> Nat] /\ observed' \in [Keys -> Nat]
      /\ \A key \in Keys : observed[key] <= observed'[key]
      /\ \A key \in keys \cap Keys : observed'[key] = observed[key] + 1
  BY MoreObserved DEF TablesOK
<1> SUFFICES ASSUME NEW key \in Keys PROVE k.rows[key].count <= observed'[key]
  BY DEF EarnedBy
<1>2. CASE k.rows[key] = NoRow
  BY <1>1, <1>2 DEF NoRow
<1>3. CASE k.rows[key] = folded[key]
  <2>1. l.rows[key].count <= observed[key]
    BY DEF EarnedBy
  <2>2. observed[key] \in Nat /\ observed'[key] \in Nat
    BY <1>1
  <2>3. CASE key \in keys
    BY <1>1, <1>3, <2>1, <2>2, <2>3
  <2>4. CASE key \notin keys
    BY <1>1, <1>3, <2>1, <2>2, <2>4
  <2> QED BY <2>3, <2>4
<1> QED BY <1>2, <1>3

(* When the learner's tables stay earned, so does what is read of them.     *)
LEMMA EarnedStep ==
  ASSUME TablesOK, EarnedInv, observed' \in [Keys -> Nat],
         \A l \in LearnedState : EarnedBy(l, observed) => EarnedBy(l, observed'),
         state' \in LearnedState, EarnedBy(state', observed'),
         learned_json' \in {state', learned_json},
         snapshot' \in {snapshot, Refreshed},
         resetting' = resetting
  PROVE  /\ EarnedInv'
         /\ learned_json' \in LearnedState \cup {Absent}
         /\ snapshot' \in LearnedState
<1>1. /\ learned_json' \in LearnedState \cup {Absent}
      /\ learned_json' # Absent => EarnedBy(learned_json', observed')
  BY DEF TablesOK, EarnedInv
<1>2. snapshot' \in LearnedState /\ EarnedBy(snapshot', observed')
  BY <1>1 DEF TablesOK, EarnedInv, Refreshed
<1>3. resetting' # NoReset => EarnedBy(resetting'.base, observed')
  BY DEF TablesOK, EarnedInv
<1> QED BY <1>1, <1>2, <1>3 DEF EarnedInv

LEMMA TurnStep ==
  ASSUME LearningInv, NEW s \in Sessions, NEW request \in Requests, NEW winner \in Models,
         HTurn(s, request, winner)
  PROVE  LearningInv'
<1> USE DEF LearningInv
<1> DEFINE keys == Concerned(sessions[s], request.ask, request.escalate)
           start == Polled(Learner)
           verdict == VerdictOf(s, request)
           folded == FoldedBy(start, verdict, sessions[s], request.ask)
<1>1. Turn(s, request, winner) /\ Observe(keys)
  BY DEF HTurn
<1>2. /\ observed' \in [Keys -> Nat]
      /\ \A l \in LearnedState : EarnedBy(l, observed) => EarnedBy(l, observed')
  BY <1>1, MoreObserved DEF TablesOK
<1>3. Learner \in LearnedState /\ EarnedBy(Learner, observed)
  BY LearnerRows
<1>4. start \in LearnedState /\ EarnedBy(start, observed)
  BY <1>3, PolledRows, StillEarned DEF TablesOK
<1>5. /\ verdict \in Verdicts /\ verdict # "direct_switch"
      /\ sessions[s] = NoRecord => verdict = "none"
      /\ verdict = "escalate" => request.escalate
      /\ sessions[s] \in Record \cup {NoRecord}
  BY VerdictKinds DEF TablesOK
<1>6. /\ folded \in Rows
      /\ \A key \in Keys :
            /\ start.rows[key].count \in Nat /\ folded[key].count \in Nat
            /\ folded[key].count <= start.rows[key].count + 1
            /\ folded[key].count # start.rows[key].count =>
                   verdict # "none" /\ key \in StrongConcern(verdict, sessions[s], request.ask)
  <2>1. now \in Nat /\ (sessions[s] = NoRecord => verdict = "none")
    BY <1>5 DEF TablesOK
  <2> HIDE DEF start, verdict
  <2> QED BY <1>4, <1>5, <2>1, VerdictRows
<1>7. StrongConcern(verdict, sessions[s], request.ask) \subseteq keys
  <2> HIDE DEF verdict
  <2> QED BY <1>5 DEF Concerned, StrongConcern
<1> DEFINE spent == TookTrust(s) /\ ~request.escalate
                      /\ <<sessions[s].ask, request.ask>> \in Reasks
           paid == [reask_budgets EXCEPT ![s] = @ - 1]
           kept == /\ state' \in LearnedState
                   /\ EarnedBy(state', observed')
                   /\ learned_json' \in {state', learned_json}
                   /\ spent => reask_budgets' = paid /\ reask_budgets[s] > 0
                   /\ \/ reask_budgets' = reask_budgets
                      \/ reask_budgets' = paid /\ reask_budgets[s] > 0
<1>8. ASSUME control.learning_enabled PROVE kept
  <2> DEFINE folding == [start EXCEPT !.rows = folded]
  <2>1. Hooked(s, request)
    BY <1>1, <1>8 DEF Turn
  <2>2. Flush(folding) /\ folding \in LearnedState /\ folding.rows = folded
    <3>1. Flush([start EXCEPT !.rows = folded])
      BY <2>1 DEF Hooked, FoldedBy
    <3> HIDE DEF folded, start
    <3>2. folding \in LearnedState /\ folding.rows = folded
      BY <1>4, <1>6 DEF LearnedState, Rows
    <3> QED BY <3>1, <3>2
  <2>3. reask_budgets' = [reask_budgets EXCEPT ![s] = IF verdict = "reask" THEN @ - 1 ELSE @]
    BY <2>1 DEF Hooked
  <2>4. verdict # "none" /\ ~request.escalate /\ <<sessions[s].ask, request.ask>> \in Reasks
        => verdict = "reask"
    BY DEF VerdictOf
  <2>5. verdict = "reask" => reask_budgets[s] > 0
    BY DEF VerdictOf, MayReask
  <2>6. TookTrust(s) => LET own == Trust(sessions[s].kind, sessions[s].model)
                        IN  /\ sessions[s] # NoRecord
                            /\ state'.rows[own].count > start.rows[own].count
    BY DEF TookTrust
  <2> HIDE DEF folding, folded, start, verdict, keys
  <2>7. /\ state' \in LearnedState
        /\ \A key \in Keys : state'.rows[key] \in {folded[key], NoRow}
        /\ learned_json' \in {state', learned_json}
    BY <2>2, FlushRows
  <2>8. EarnedBy(state', observed')
    BY <1>1, <1>4, <1>6, <1>7, <2>7, FoldedIsEarned
  <2>9. TookTrust(s) => verdict # "none"
    <3> SUFFICES ASSUME TookTrust(s) PROVE verdict # "none"
      OBVIOUS
    <3> DEFINE own == Trust(sessions[s].kind, sessions[s].model)
    <3>1. own \in Keys /\ state'.rows[own].count > start.rows[own].count
      BY <1>5, <2>6 DEF Keys, Record
    <3> HIDE DEF own
    <3>2. folded[own].count # start.rows[own].count
      <4>1. start.rows[own].count \in Nat /\ folded[own].count \in Nat
        BY <1>6, <3>1
      <4>2. state'.rows[own].count \in {folded[own].count, 0}
        BY <2>7, <3>1 DEF NoRow
      <4> QED BY <3>1, <4>1, <4>2
    <3> QED BY <1>6, <3>1, <3>2
  <2>10. /\ spent => reask_budgets' = paid /\ reask_budgets[s] > 0
         /\ reask_budgets' = reask_budgets \/ (reask_budgets' = paid /\ reask_budgets[s] > 0)
    BY <2>3, <2>4, <2>5, <2>9 DEF BudgetInv
  <2> QED BY <2>7, <2>8, <2>10
<1>9. ASSUME ~control.learning_enabled PROVE kept
  <2>1. state' = Learner /\ UNCHANGED <<learned_json, reask_budgets>>
    BY <1>1, <1>9 DEF Turn, Unhooked
  <2>2. ~spent
    BY <1>9 DEF TookTrust
  <2> QED BY <1>2, <1>3, <2>1, <2>2
<1>10. kept
  BY <1>8, <1>9
<1>11. /\ UNCHANGED <<now, control, switch_budgets, resetting>>
       /\ snapshot' = Refreshed
       /\ last_session' = s
       /\ contributed' = IF spent THEN [contributed EXCEPT !.reasks[s] = @ + 1] ELSE contributed
  BY <1>1 DEF HTurn, Turn
<1>12. sessions' \in [Sessions -> Record \cup {NoRecord}]
  <2>1. PICK turns \in (IF sessions[s] = NoRecord THEN {1}
                        ELSE {NextTurn(sessions[s])}
                               \cup (IF sessions[s].model # winner THEN {1} ELSE {})) :
            sessions' = [sessions EXCEPT ![s] =
                [ask |-> request.ask, kind |-> request.kind, model |-> winner, turns |-> turns]]
    BY <1>1 DEF Turn
  <2>2. turns \in Nat
    BY <1>5 DEF NextTurn, Record
  <2>3. request.ask \in Asks /\ request.kind \in Kinds
    BY LearningAssumption
  <2> QED BY <2>1, <2>2, <2>3 DEF TablesOK, Record
<1> HIDE DEF keys, start, verdict, folded, spent
<1>13. EarnedInv' /\ learned_json' \in LearnedState \cup {Absent} /\ snapshot' \in LearnedState
  BY <1>2, <1>10, <1>11, EarnedStep
<1>14. TablesOK'
  BY <1>2, <1>10, <1>11, <1>12, <1>13 DEF TablesOK
<1>15. BudgetInv'
  <2>1. reask_budgets' \in [Sessions -> Nat]
    BY <1>10 DEF BudgetInv
  <2>2. contributed' \in [reasks : [Sessions -> Nat], switches : [Sessions -> Nat]]
    BY <1>11 DEF BudgetInv
  <2>3. ASSUME NEW x \in Sessions
        PROVE  contributed'.reasks[x] + reask_budgets'[x] <= REASK_CONTRIB_CAP
    BY <1>10, <1>11, LearningAssumption DEF BudgetInv
  <2>4. contributed'.switches = contributed.switches
    BY <1>11 DEF BudgetInv
  <2> QED BY <1>11, <2>1, <2>2, <2>3, <2>4 DEF BudgetInv
<1> QED BY <1>13, <1>14, <1>15

LEMMA DirectTurnStep ==
  ASSUME LearningInv, NEW s \in Sessions, NEW ask \in Asks, NEW model \in Models,
         HDirectTurn(s, ask, model)
  PROVE  LearningInv'
<1> USE DEF LearningInv
<1> DEFINE keys == IF last_session = NoSession THEN {}
                   ELSE Concerned(sessions[last_session], ask, TRUE)
           folded == FoldedBy(Learner, "direct_switch", sessions[last_session], ask)
           changed == state'.rows # Learner.rows
           paid == [switch_budgets EXCEPT ![last_session] = @ - 1]
           kept == /\ state' \in LearnedState
                   /\ EarnedBy(state', observed')
                   /\ \/ switch_budgets' = switch_budgets /\ ~changed
                      \/ /\ last_session \in Sessions
                         /\ switch_budgets' = paid /\ switch_budgets[last_session] > 0
<1>1. DirectTurn(s, ask, model) /\ Observe(keys)
  BY DEF HDirectTurn
<1>2. /\ observed' \in [Keys -> Nat]
      /\ \A l \in LearnedState : EarnedBy(l, observed) => EarnedBy(l, observed')
  BY <1>1, MoreObserved DEF TablesOK
<1>3. Learner \in LearnedState /\ EarnedBy(Learner, observed)
  BY LearnerRows
<1>4. ASSUME Switched(ask, model) PROVE kept
  <2>1. /\ last_session \in Sessions /\ sessions[last_session] \in Record
        /\ switch_budgets[last_session] > 0
    BY <1>4 DEF Switched, TablesOK
  <2>2. PICK rows \in Pruned(folded) : state' = [Learner EXCEPT !.rows = rows]
    BY <1>1, <1>4 DEF DirectTurn, FoldedBy
  <2>3. "direct_switch" \in Verdicts /\ now \in Nat
    BY DEF Verdicts, TablesOK
  <2>4. /\ folded \in Rows
        /\ \A key \in Keys :
              /\ Learner.rows[key].count \in Nat /\ folded[key].count \in Nat
              /\ folded[key].count <= Learner.rows[key].count + 1
              /\ folded[key].count # Learner.rows[key].count =>
                     key \in StrongConcern("direct_switch", sessions[last_session], ask)
    <3>1. sessions[last_session] = NoRecord => "direct_switch" = "none"
      BY <2>1, LearningAssumption
    <3> QED BY <1>3, <2>1, <2>3, <3>1, VerdictRows
  <2>5. StrongConcern("direct_switch", sessions[last_session], ask) \subseteq keys
    BY <2>1, LearningAssumption DEF StrongConcern, Concerned
  <2>6. switch_budgets' = paid
    BY <1>1, <1>4 DEF DirectTurn
  <2> HIDE DEF folded, keys
  <2>7. rows \in Rows /\ \A key \in Keys : rows[key] \in {folded[key], NoRow}
    BY <2>2, <2>4, PrunedRows
  <2>8. /\ state' \in LearnedState
        /\ \A key \in Keys : state'.rows[key] \in {folded[key], NoRow}
    BY <1>3, <2>2, <2>7 DEF LearnedState, Rows
  <2>9. EarnedBy(state', observed')
    BY <1>1, <1>3, <2>4, <2>5, <2>8, FoldedIsEarned
  <2> QED BY <2>1, <2>6, <2>8, <2>9
<1>5. ASSUME ~Switched(ask, model) PROVE kept
  <2>1. state' = Learner /\ switch_budgets' = switch_budgets
    BY <1>1, <1>5 DEF DirectTurn
  <2> QED BY <1>2, <1>3, <2>1
<1>6. kept
  BY <1>4, <1>5
<1>7. /\ UNCHANGED <<now, control, learned_json, snapshot, reask_budgets, sessions,
                      last_session, resetting>>
      /\ contributed' = IF changed THEN [contributed EXCEPT !.switches[last_session] = @ + 1]
                        ELSE contributed
  BY <1>1 DEF HDirectTurn, DirectTurn
<1> HIDE DEF keys, folded, changed
<1>8. EarnedInv'
  BY <1>2, <1>6, <1>7, EarnedStep
<1>9. TablesOK'
  BY <1>2, <1>6, <1>7 DEF TablesOK
<1>10. BudgetInv'
  <2>1. switch_budgets' \in [Sessions -> Nat]
    BY <1>6 DEF BudgetInv
  <2>2. contributed' \in [reasks : [Sessions -> Nat], switches : [Sessions -> Nat]]
    BY <1>7 DEF BudgetInv
  <2>3. ASSUME NEW x \in Sessions
        PROVE  contributed'.switches[x] + switch_budgets'[x] <= SWITCH_NEGATIVES_CAP
    BY <1>6, <1>7, LearningAssumption DEF BudgetInv
  <2>4. contributed'.reasks = contributed.reasks
    BY <1>7 DEF BudgetInv
  <2> QED BY <1>7, <2>1, <2>2, <2>3, <2>4 DEF BudgetInv
<1> QED BY <1>8, <1>9, <1>10

(* A step that observes nothing and takes nothing from a budget.            *)
LEMMA QuietStep ==
  ASSUME LearningInv,
         UNCHANGED <<observed, contributed, reask_budgets, switch_budgets>>,
         now' \in Nat, control' \in Control,
         state' \in LearnedState, EarnedBy(state', observed),
         learned_json' \in {state', learned_json},
         snapshot' \in {snapshot, Refreshed},
         sessions' \in [Sessions -> Record \cup {NoRecord}],
         last_session' = last_session,
         resetting' = resetting
  PROVE  LearningInv'
<1> USE DEF LearningInv
<1>1. /\ observed' \in [Keys -> Nat] /\ EarnedBy(state', observed')
      /\ \A l \in LearnedState : EarnedBy(l, observed) => EarnedBy(l, observed')
  BY DEF TablesOK
<1>2. EarnedInv' /\ learned_json' \in LearnedState \cup {Absent} /\ snapshot' \in LearnedState
  BY <1>1, EarnedStep
<1>3. TablesOK'
  BY <1>1, <1>2 DEF TablesOK
<1>4. BudgetInv'
  BY DEF BudgetInv
<1> QED BY <1>2, <1>3, <1>4

LEMMA FlushPollStep == ASSUME LearningInv, HFlushPoll PROVE LearningInv'
<1>1. FlushPoll /\ UNCHANGED <<observed, contributed>>
  BY DEF HFlushPoll, evidence
<1>2. state \in LearnedState /\ EarnedBy(state, observed) /\ control \in Control
      /\ observed \in [Keys -> Nat]
  BY DEF LearningInv, TablesOK, EarnedInv
<1>3. Polled(state) \in LearnedState /\ EarnedBy(Polled(state), observed)
  BY <1>2, PolledRows, StillEarned
<1>4. /\ state' \in LearnedState
      /\ \A key \in Keys : state'.rows[key] \in {Polled(state).rows[key], NoRow}
      /\ learned_json' \in {state', learned_json}
  BY <1>1, <1>3, FlushRows DEF FlushPoll
<1>5. EarnedBy(state', observed)
  BY <1>2, <1>3, <1>4, StillEarned
<1> QED BY <1>1, <1>4, <1>5, QuietStep DEF FlushPoll, LearningInv, TablesOK

(* Registering phrases adds no evidence.                                    *)
LEMMA RegisteredRows ==
  ASSUME now \in Nat, NEW rows \in Rows, NEW phrases
  PROVE  /\ Registered(rows, phrases) \in Rows
         /\ \A key \in Keys : Registered(rows, phrases)[key].count = rows[key].count
<1> SUFFICES ASSUME NEW key \in Keys
             PROVE  /\ Registered(rows, phrases)[key] \in Row
                    /\ Registered(rows, phrases)[key].count = rows[key].count
  BY DEF Registered, Rows
<1>1. rows[key] \in Row
  BY DEF Rows
<1> QED BY <1>1 DEF Registered, Added, Row

LEMMA ExtractPollStep ==
  ASSUME LearningInv, ExtractPoll, UNCHANGED history PROVE LearningInv'
<1> USE DEF LearningInv
<1>1. UNCHANGED <<observed, contributed, reask_budgets, switch_budgets, now, control,
                  learned_json, snapshot, sessions, last_session, resetting>>
  BY DEF ExtractPoll, history, evidence, bookkeeping
<1>2. state' \in LearnedState /\ EarnedBy(state', observed)
  <2>1. CASE state' = state
    BY <2>1 DEF TablesOK, EarnedInv
  <2>2. CASE state' # state
    <3>0. PICK phrases \in SUBSET Phrases : \E rows \in Pruned(Registered(state.rows, phrases)) :
              state' = [state EXCEPT !.rows = rows,
                                     !.key_points = IF @ < KEY_POINTS_KEEP THEN @ + 1 ELSE @]
      BY <2>2 DEF ExtractPoll
    <3>1. PICK rows \in Pruned(Registered(state.rows, phrases)) :
              state' = [state EXCEPT !.rows = rows,
                                     !.key_points = IF @ < KEY_POINTS_KEEP THEN @ + 1 ELSE @]
      BY <3>0
    <3>2. state.rows \in Rows /\ now \in Nat /\ state \in LearnedState
      BY DEF TablesOK, LearnedState, Rows
    <3> DEFINE registered == Registered(state.rows, phrases)
    <3>3. /\ registered \in Rows
          /\ \A key \in Keys : registered[key].count = state.rows[key].count
      BY <3>2, RegisteredRows
    <3> HIDE DEF registered
    <3>4. rows \in Rows /\ \A key \in Keys : rows[key] = registered[key] \/ rows[key] = NoRow
      BY <3>1, <3>3, PrunedRows DEF registered
    <3>5. state' \in LearnedState /\ state'.rows = rows
      <4> DEFINE points == IF state.key_points < KEY_POINTS_KEEP
                           THEN state.key_points + 1 ELSE state.key_points
      <4>1. points \in Nat
        BY <3>2 DEF LearnedState
      <4>2. state' = [state EXCEPT !.rows = rows, !.key_points = points]
        BY <3>1
      <4> HIDE DEF points
      <4> QED BY <3>2, <3>4, <4>1, <4>2 DEF LearnedState, Rows
    <3>6. ASSUME NEW key \in Keys PROVE rows[key].count <= observed[key]
      <4>1. state.rows[key].count <= observed[key] /\ observed[key] \in Nat
        BY DEF EarnedInv, EarnedBy, TablesOK
      <4>2. rows[key].count \in {state.rows[key].count, 0}
        BY <3>3, <3>4 DEF NoRow
      <4> QED BY <4>1, <4>2
    <3> QED BY <3>5, <3>6 DEF EarnedBy
  <2> QED BY <2>1, <2>2
<1> QED BY <1>1, <1>2, QuietStep DEF TablesOK

LEMMA CrashStep == ASSUME LearningInv, HCrash PROVE LearningInv'
<1> USE DEF LearningInv
<1>1. /\ UNCHANGED <<now, control, learned_json, resetting, observed>>
      /\ snapshot' = EmptyState /\ state' = EmptyState
      /\ reask_budgets' = [s \in Sessions |-> REASK_CONTRIB_CAP]
      /\ switch_budgets' = [s \in Sessions |-> SWITCH_NEGATIVES_CAP]
      /\ sessions' = [s \in Sessions |-> NoRecord]
      /\ last_session' = NoSession
      /\ contributed' = [reasks |-> Nothing, switches |-> Nothing]
  BY DEF HCrash, Crash, NewProxy, evidence
<1>2. EarnedBy(EmptyState, observed)
  BY DEF EarnedBy, EmptyState, NoRows, NoRow, TablesOK
<1>3. TablesOK'
  BY <1>1, EmptyType DEF TablesOK
<1>4. EarnedInv'
  BY <1>1, <1>2 DEF EarnedInv
<1>5. BudgetInv'
  BY <1>1, LearningAssumption DEF BudgetInv, Nothing
<1> QED BY <1>3, <1>4, <1>5

LEMMA ResetDoneStep == ASSUME LearningInv, HResetDone PROVE LearningInv'
<1> USE DEF LearningInv
<1>1. /\ ResetDone
      /\ UNCHANGED <<now, control, state, snapshot, reask_budgets, switch_budgets, sessions,
                     last_session, observed, contributed>>
      /\ resetting # NoReset /\ resetting' = NoReset
  BY DEF HResetDone, ResetDone, proxyVars
<1>2. resetting.base \in LearnedState /\ EarnedBy(resetting.base, observed)
  BY <1>1 DEF TablesOK, EarnedInv
<1>3. /\ Reset(resetting.base, resetting.scope) \in LearnedState
      /\ EarnedBy(Reset(resetting.base, resetting.scope), observed)
  BY <1>2, ResetRows, StillEarned DEF TablesOK
<1>4. /\ learned_json' \in LearnedState \cup {Absent}
      /\ learned_json' # Absent => EarnedBy(learned_json', observed)
  BY <1>1, <1>3 DEF ResetDone, TablesOK, EarnedInv
<1>5. TablesOK'
  BY <1>1, <1>4 DEF TablesOK
<1>6. EarnedInv'
  BY <1>1, <1>4 DEF EarnedInv
<1>7. BudgetInv'
  BY <1>1 DEF BudgetInv
<1> QED BY <1>5, <1>6, <1>7

(* The service begins a reset: it has read what the file says.              *)
LEMMA ResetLearnedStep ==
  ASSUME LearningInv, NEW scope \in Scopes, ResetLearned(scope), UNCHANGED history
  PROVE  LearningInv'
<1> USE DEF LearningInv
<1>1. /\ UNCHANGED <<now, control, learned_json, state, snapshot, reask_budgets,
                     switch_budgets, sessions, last_session, observed, contributed>>
      /\ resetting' = [scope |-> scope, base |-> Loaded]
  BY DEF ResetLearned, proxyVars, history, evidence, bookkeeping
<1>2. Loaded \in LearnedState /\ EarnedBy(Loaded, observed)
  <2>1. EarnedBy(EmptyState, observed)
    BY DEF EarnedBy, EmptyState, NoRows, NoRow, TablesOK
  <2> QED BY <2>1, EmptyType DEF Loaded, TablesOK, EarnedInv
<1>3. TablesOK' /\ EarnedInv'
  BY <1>1, <1>2 DEF TablesOK, EarnedInv
<1>4. BudgetInv'
  BY <1>1 DEF BudgetInv
<1> QED BY <1>3, <1>4

LEMMA RestStep == ASSUME LearningInv, HRest PROVE LearningInv'
<1>1. UNCHANGED <<history, observed, contributed>>
  BY DEF HRest, history, evidence, bookkeeping
<1>2. /\ state \in LearnedState /\ EarnedBy(state, observed) /\ control \in Control
      /\ now \in Nat /\ sessions \in [Sessions -> Record \cup {NoRecord}]
  BY DEF LearningInv, TablesOK, EarnedInv
<1>3. CASE ExtractPoll
  BY <1>1, <1>3, ExtractPollStep
<1>4. ASSUME NEW s \in Sessions, Forget(s) PROVE LearningInv'
  <2>1. sessions' \in [Sessions -> Record \cup {NoRecord}]
    BY <1>2, <1>4 DEF Forget
  <2> QED BY <1>1, <1>2, <1>4, <2>1, QuietStep DEF Forget
<1>5. ASSUME NEW call \in ToolCalls, RouterLearning(call) PROVE LearningInv'
  <2>1. call \in ToolCall
    BY LearningAssumption
  <2>2. CASE call.enabled # NoArg
    <3>1. call.enabled \in BOOLEAN /\ SetLearning(call.enabled)
      BY <1>5, <2>1, <2>2 DEF RouterLearning, ToolCall
    <3>2. control' \in Control
      BY <1>2, <3>1 DEF SetLearning, Control
    <3> QED BY <1>1, <1>2, <3>1, <3>2, QuietStep DEF SetLearning, proxyVars
  <2>3. CASE call.enabled = NoArg
    BY <1>1, <1>5, <2>1, <2>3, ResetLearnedStep DEF RouterLearning, ToolCall
  <2> QED BY <2>2, <2>3
<1>6. ASSUME NEW intent \in Intents, Intent(intent) PROVE LearningInv'
  <2>1. control' \in Control
    BY <1>2, <1>6, LearningAssumption DEF Intent, Control
  <2> QED BY <1>1, <1>2, <1>6, <2>1, QuietStep DEF Intent, proxyVars
<1>7. CASE Tick
  BY <1>1, <1>2, <1>7, QuietStep DEF Tick, proxyVars
<1> QED BY <1>3, <1>4, <1>5, <1>6, <1>7 DEF HRest

LEMMA StutterStep == ASSUME LearningInv, UNCHANGED hvars PROVE LearningInv'
<1>1. state \in LearnedState /\ EarnedBy(state, observed)
  BY DEF LearningInv, TablesOK, EarnedInv
<1> QED BY <1>1, QuietStep
        DEF hvars, vars, proxyVars, history, evidence, bookkeeping, LearningInv, TablesOK

(* The invariant holds in every state.                                      *)
THEOREM LearningCorrect == HSpec => []LearningInv
<1>1. HInit => LearningInv
  BY LearningInit
<1>2. LearningInv /\ [HNext]_hvars => LearningInv'
  BY TurnStep, DirectTurnStep, FlushPollStep, CrashStep, ResetDoneStep, RestStep, StutterStep
     DEF HNext
<1> QED BY <1>1, <1>2, PTL DEF HSpec

(* Crashes, failed writes, resets and reloads never make evidence: no table *)
(* holds more of it for a row than was observed, for every value of the     *)
(* constants.                                                               *)
THEOREM EvidenceAlwaysEarned == HSpec => []EvidenceIsEarned
<1>1. LearningInv => EvidenceIsEarned
  <2> SUFFICES ASSUME LearningInv, NEW key \in Keys
               PROVE  \A l \in {state, Loaded, snapshot}
                          \cup (IF resetting = NoReset THEN {} ELSE {resetting.base}) :
                          l.rows[key].count <= observed[key]
    BY DEF EvidenceIsEarned
  <2>1. EmptyState.rows[key].count <= observed[key]
    BY DEF LearningInv, TablesOK, EmptyState, NoRows, NoRow
  <2> QED BY <2>1 DEF LearningInv, EarnedInv, EarnedBy, Loaded
<1> QED BY <1>1, LearningCorrect, PTL

(* One session is evidence through at most the capped number of re-asks and *)
(* switches in one life of the process, whatever is pruned in between.      *)
THEOREM ContributionsAlwaysBounded == HSpec => []ContributionsBounded
<1>1. LearningInv => ContributionsBounded
  BY LearningAssumption DEF LearningInv, BudgetInv, ContributionsBounded
<1> QED BY <1>1, LearningCorrect, PTL

(* A row that moves a decision has been observed as often as its gate       *)
(* demands, however old it is and wherever it was read from.                *)
THEOREM InfluenceAlwaysEarned == HSpec => []InfluenceIsEarned
<1>1. LearningInv /\ EvidenceIsEarned => InfluenceIsEarned
  <2> SUFFICES ASSUME LearningInv, EvidenceIsEarned, NEW key \in Keys,
                      Influence(snapshot.rows, key) # 0
               PROVE  observed[key] >= Gate(Table(key))
    BY DEF InfluenceIsEarned
  <2> DEFINE row == snapshot.rows[key]
             gate == Gate(Table(key))
  <2>1. /\ row \in Row /\ now \in Nat /\ observed[key] \in Nat
        /\ row.count <= observed[key]
    BY DEF LearningInv, TablesOK, LearnedState, EarnedInv, EarnedBy
  <2>2. gate \in Nat \ {0}
    BY LearningAssumption DEF Gate
  <2>3. row.count >= gate * Twofold[Age(row)]
    BY DEF Influence, Clears
  <2>4. Age(row) \in Nat
    BY <2>1 DEF Age, Row
  <2>5. Twofold[Age(row)] \in Nat /\ 1 <= Twofold[Age(row)]
    BY <2>4, TwofoldIsPositive
  <2>6. row.count \in Nat
    BY <2>1 DEF Row
  <2> HIDE DEF row, gate
  <2>7. \A t, g \in Nat : 1 <= t => g <= g * t
    OBVIOUS
  <2>8. gate <= gate * Twofold[Age(row)] /\ gate * Twofold[Age(row)] \in Nat
    BY <2>2, <2>5, <2>7
  <2> QED BY <2>1, <2>2, <2>3, <2>6, <2>8 DEF row, gate
<1> QED BY <1>1, LearningCorrect, EvidenceAlwaysEarned, PTL
-----------------------------------------------------------------------------
(* The queue.                                                               *)

(* The front of the queue up to the first ask that is not stale.            *)
LEMMA StaleAsksExist ==
  ASSUME queue \in Seq(Nat), now \in Nat
  PROVE  StaleAsks \in 0 .. Len(queue)
<1> DEFINE Stops == {n \in 0 .. Len(queue) : n < Len(queue) => queue[n + 1] >= now}
<1>1. Len(queue) \in Nat /\ \A i \in 1 .. Len(queue) : queue[i] \in Nat
  BY LenProperties
<1>2. Len(queue) \in Stops /\ Stops \subseteq Nat
  BY <1>1
<1>3. PICK n \in Stops : \A m \in Stops : n <= m
  BY <1>2, LeastNatural
<1>4. ASSUME NEW i \in 1 .. n PROVE queue[i] < now
  <2>1. i - 1 \in 0 .. Len(queue) /\ i - 1 < Len(queue) /\ i - 1 < n /\ (i - 1) + 1 = i
    BY <1>1, <1>2, <1>3
  <2>2. i - 1 \notin Stops
    BY <1>2, <1>3, <2>1
  <2>3. ~(queue[i] >= now)
    BY <2>1, <2>2
  <2> QED BY <1>1, <2>1, <2>3
<1>5. \E k \in 0 .. Len(queue) :
          /\ \A i \in 1 .. k : queue[i] < now
          /\ k < Len(queue) => queue[k + 1] >= now
  BY <1>3, <1>4
<1> QED BY <1>5 DEF StaleAsks

LEMMA EnqueuedType ==
  ASSUME queue \in Seq(Nat), now \in Nat
  PROVE  Enqueued \in Seq(Nat)
<1> DEFINE n == StaleAsks
           rest == SubSeq(queue, n + 1, Len(queue))
           fresh == Append(rest, now)
<1>1. n \in 0 .. Len(queue)
  BY StaleAsksExist
<1>2. Len(queue) \in Nat /\ \A i \in 1 .. Len(queue) : queue[i] \in Nat
  BY LenProperties
<1> HIDE DEF n
<1>3. rest \in Seq(Nat)
  <2> DEFINE len == Len(queue)
  <2>1. len \in Nat /\ n \in 0 .. len /\ \A i \in 1 .. len : queue[i] \in Nat
    BY <1>1, <1>2
  <2> DEFINE m == n + 1
  <2> HIDE DEF len, fresh, rest
  <2>2. m \in Int /\ len \in Int /\ \A i \in m .. len : queue[i] \in Nat
    BY <2>1
  <2> HIDE DEF m
  <2>3. SubSeq(queue, m, len) \in Seq(Nat)
    <3>1. \A q, a \in Int, b \in Int :
              (\A i \in a .. b : q[i] \in Nat) => SubSeq(q, a, b) \in Seq(Nat)
      BY SubSeqProperties
    <3> QED BY <2>2, <3>1
  <2> QED BY <2>3 DEF len, m, rest
<1> HIDE DEF rest
<1>4. fresh \in Seq(Nat) /\ fresh # <<>>
  <2>1. \A q \in Seq(Nat), e \in Nat : Append(q, e) \in Seq(Nat) /\ Append(q, e) # <<>>
    BY AppendProperties
  <2> QED BY <1>3, <2>1
<1> HIDE DEF fresh
<1>5. Tail(fresh) \in Seq(Nat)
  BY <1>4, HeadTailProperties
<1> QED BY <1>4, <1>5 DEF Enqueued, fresh, rest, n

LEMMA BatchesType ==
  ASSUME queue \in Seq(Nat)
  PROVE  SubSeq(queue, EXTRACT_BATCH * (Len(queue) \div EXTRACT_BATCH) + 1, Len(queue)) \in Seq(Nat)
<1> DEFINE taken == EXTRACT_BATCH * (Len(queue) \div EXTRACT_BATCH)
<1>1. Len(queue) \in Nat /\ \A i \in 1 .. Len(queue) : queue[i] \in Nat
  BY LenProperties
<1>2. EXTRACT_BATCH \in Nat \ {0}
  BY LearningAssumption
<1>3. Len(queue) \div EXTRACT_BATCH \in Nat
  BY <1>1, <1>2
<1>4. \A a, b \in Nat : a * b \in Nat
  OBVIOUS
<1>5. taken \in Nat
  BY <1>2, <1>3, <1>4
<1> HIDE DEF taken
<1>6. taken + 1 \in Int /\ Len(queue) \in Int /\ \A i \in (taken + 1) .. Len(queue) : queue[i] \in Nat
  BY <1>1, <1>5
<1> QED BY <1>6, SubSeqProperties DEF taken
-----------------------------------------------------------------------------
(* The intents.                                                             *)

LEMMA PolledApplied ==
  ASSUME NEW l \in LearnedState
  PROVE  Polled(l).last_applied =
             IF Pending(l) THEN control.reset_id ELSE l.last_applied
<1> DEFINE reset == Reset(l, control.reset)
<1>1. reset \in LearnedState
  BY ResetRows
<1>2. Polled(l) = IF Pending(l) THEN [reset EXCEPT !.last_applied = control.reset_id] ELSE l
  BY DEF Polled
<1> HIDE DEF reset
<1> QED BY <1>1, <1>2 DEF LearnedState

LEMMA FlushApplied ==
  ASSUME NEW l \in LearnedState, Flush(l)
  PROVE  state'.last_applied = l.last_applied
<1>1. PICK rows \in Pruned(l.rows) : state' = [l EXCEPT !.rows = rows]
  BY DEF Flush
<1> QED BY <1>1 DEF LearnedState

(* A learner that has polled knows the intent of control.json was applied   *)
(* only when it is the last one it applied.                                 *)
LEMMA ConsumeStep ==
  ASSUME KeptInv, UNCHANGED <<control, resetting>>, built', Consume,
         state' \in LearnedState, learned_json' \in {state', learned_json},
         state'.last_applied \in {Learner.last_applied, control.reset_id}
  PROVE  AppliedInv'
<1> USE DEF KeptInv
<1>1. /\ control.reset_id \in Nat /\ state'.last_applied \in Nat
      /\ consumed' = consumed \cup {state'.last_applied}
      /\ settled' = IF learned_json' = state' THEN consumed' ELSE settled
  BY DEF LearningInv, TablesOK, Control, Consume, LearnedState
<1>2. Learner \in LearnedState /\ Learner.last_applied <= control.reset_id
  BY LearnerRows DEF AppliedInv, LearningInv, Learner
<1>3. Learner.last_applied \in Nat
  BY <1>2 DEF LearnedState
<1>4. state'.last_applied <= control.reset_id
  BY <1>1, <1>2, <1>3
<1>5. consumed' \cup settled' \subseteq 0 .. control.reset_id
  BY <1>1, <1>4 DEF AppliedInv
<1>6. control.reset_id # NoIntent /\ control.reset_id \in consumed' =>
          state'.last_applied = control.reset_id
  BY <1>1 DEF AppliedInv, Learner
<1>7. Loaded' = state' \/ (learned_json' = learned_json /\ Loaded' = Loaded)
  BY LearningAssumption DEF Loaded
<1>8. learned_json' = state' => Loaded' = state'
  BY LearningAssumption DEF Loaded
<1>9. Loaded'.last_applied <= control.reset_id
  BY <1>4, <1>7 DEF AppliedInv
<1>10. control.reset_id # NoIntent /\ control.reset_id \in settled' =>
           Loaded'.last_applied = control.reset_id
  <2>1. CASE learned_json' = state'
    BY <1>1, <1>6, <1>8, <2>1
  <2>2. CASE learned_json' # state'
    BY <1>1, <2>2 DEF AppliedInv, Loaded
  <2> QED BY <2>1, <2>2
<1> QED BY <1>4, <1>5, <1>6, <1>9, <1>10 DEF AppliedInv

LEMMA TurnTables ==
  ASSUME KeptInv, NEW s \in Sessions, NEW request \in Requests, NEW winner \in Models,
         HTurn(s, request, winner)
  PROVE  /\ learned_json' \in {state', learned_json}
         /\ state'.last_applied \in {Learner.last_applied, control.reset_id}
<1> USE DEF KeptInv
<1>1. Learner \in LearnedState /\ control \in Control
  BY LearnerRows DEF LearningInv, TablesOK
<1>2. CASE ~control.learning_enabled
  BY <1>2 DEF HTurn, Turn, Unhooked
<1>3. CASE control.learning_enabled
  <2> DEFINE start == Polled(Learner)
             folded == Folded(start.rows, Judged(VerdictOf(s, request), sessions[s],
                                                 request.ask, start.rows))
             l == [start EXCEPT !.rows = folded]
  <2>1. Flush(l)
    BY <1>3 DEF HTurn, Turn, Hooked
  <2>2. start \in LearnedState
    BY <1>1, PolledRows
  <2>3. start.last_applied \in {Learner.last_applied, control.reset_id}
    BY <1>1, PolledApplied
  <2> HIDE DEF start, folded
  <2>4. PICK rows \in Pruned(l.rows) : state' = [l EXCEPT !.rows = rows]
    BY <2>1 DEF Flush
  <2>5. state'.last_applied = start.last_applied
    BY <2>2, <2>4 DEF LearnedState
  <2>6. learned_json' \in {state', learned_json}
    BY <2>1 DEF Flush
  <2> QED BY <2>3, <2>5, <2>6
<1> QED BY <1>2, <1>3

LEMMA AppliedStep ==
  ASSUME KeptInv, LearningInv', [HNext]_hvars
  PROVE  AppliedInv'
<1> USE DEF KeptInv
<1>1. /\ state' \in LearnedState /\ Learner \in LearnedState /\ control \in Control
      /\ learned_json \in LearnedState \cup {Absent}
  BY LearnerRows DEF LearningInv, TablesOK
<1>2. ASSUME UNCHANGED <<control, built, state, learned_json, resetting, consumed, settled>>
      PROVE  AppliedInv'
  BY <1>2 DEF AppliedInv, Loaded
<1>3. ASSUME NEW s \in Sessions, NEW request \in Requests, NEW winner \in Models,
             HTurn(s, request, winner)
      PROVE  AppliedInv'
  <2>1. UNCHANGED <<control, resetting>> /\ built' /\ Consume
    BY <1>3 DEF HTurn, Turn
  <2> QED BY <1>1, <1>3, <2>1, TurnTables, ConsumeStep
<1>4. ASSUME NEW s \in Sessions, NEW ask \in Asks, NEW model \in Models,
             HDirectTurn(s, ask, model)
      PROVE  AppliedInv'
  <2>1. /\ UNCHANGED <<control, learned_json, resetting, consumed, settled>> /\ built'
        /\ state'.last_applied = Learner.last_applied
    BY <1>1, <1>4 DEF HDirectTurn, DirectTurn, LearnedState
  <2> QED BY <2>1 DEF AppliedInv, Learner, Loaded
<1>5. ASSUME HFlushPoll PROVE AppliedInv'
  <2>1. /\ FlushPoll /\ Consume /\ built /\ Learner = state
        /\ UNCHANGED <<control, resetting>> /\ built'
    BY <1>5 DEF HFlushPoll, FlushPoll, Learner
  <2>2. Polled(state) \in LearnedState
    BY <1>1, <2>1, PolledRows
  <2>3. state'.last_applied \in {state.last_applied, control.reset_id}
    BY <1>1, <2>1, <2>2, PolledApplied, FlushApplied DEF FlushPoll
  <2>4. learned_json' \in {state', learned_json}
    BY <2>1 DEF FlushPoll, Flush
  <2> QED BY <1>1, <2>1, <2>3, <2>4, ConsumeStep
<1>6. ASSUME HCrash PROVE AppliedInv'
  <2>1. /\ UNCHANGED <<control, learned_json, resetting, settled>> /\ built' = FALSE
        /\ consumed' = settled /\ state' = EmptyState
    BY <1>6 DEF HCrash, Crash, NewProxy
  <2> QED BY <1>1, <2>1 DEF AppliedInv, Loaded, EmptyState, NoIntent, Control
<1>7. ASSUME HResetDone PROVE AppliedInv'
  <2>1. /\ UNCHANGED <<control, built, state>> /\ resetting # NoReset /\ resetting' = NoReset
        /\ consumed' = IF built THEN consumed ELSE settled'
        /\ learned_json' \in {learned_json, Absent, Reset(resetting.base, resetting.scope)}
        /\ settled' \in {settled, {}}
        /\ settled' = settled => \/ settled = {}
                                 \/ /\ learned_json' # Absent /\ learned_json # Absent
                                    /\ learned_json'.last_applied = learned_json.last_applied
    BY <1>7 DEF HResetDone, ResetDone, proxyVars
  <2>2. /\ resetting.base \in LearnedState /\ resetting.base.last_applied <= control.reset_id
        /\ Reset(resetting.base, resetting.scope) \in LearnedState
    BY <2>1, ResetRows DEF AppliedInv, LearningInv, TablesOK
  <2>3. Reset(resetting.base, resetting.scope).last_applied \in {0, resetting.base.last_applied}
    BY <2>2 DEF Reset, LearnedState, EmptyState, NoIntent
  <2>4. Loaded'.last_applied <= control.reset_id
    BY <1>1, <2>1, <2>2, <2>3 DEF AppliedInv, Loaded, EmptyState, NoIntent, Control
  <2>5. control.reset_id # NoIntent /\ control.reset_id \in settled' =>
            Loaded'.last_applied = control.reset_id
    BY <2>1 DEF AppliedInv, Loaded
  <2> QED BY <2>1, <2>4, <2>5 DEF AppliedInv
<1>8. ASSUME HRest PROVE AppliedInv'
  <2>0. UNCHANGED <<consumed, settled>>
    BY <1>8 DEF HRest, history, bookkeeping
  <2>1. ASSUME ExtractPoll PROVE AppliedInv'
    <3>1. UNCHANGED <<control, built, learned_json, resetting>>
      BY <2>1 DEF ExtractPoll
    <3>2. state'.last_applied = state.last_applied
      <4>1. state \in LearnedState
        BY DEF LearningInv, TablesOK
      <4> QED BY <2>1, <4>1 DEF ExtractPoll, LearnedState
    <3> QED BY <2>0, <3>1, <3>2 DEF AppliedInv, Loaded
  <2>2. ASSUME NEW s \in Sessions, Forget(s) PROVE AppliedInv'
    BY <1>2, <2>0, <2>2 DEF Forget
  <2>3. ASSUME NEW call \in ToolCalls, RouterLearning(call) PROVE AppliedInv'
    <3>1. CASE call.enabled # NoArg
      <4>1. /\ UNCHANGED <<built, state, learned_json, resetting>>
            /\ control'.reset_id = control.reset_id
        BY <1>1, <2>3, <3>1 DEF RouterLearning, SetLearning, Control, proxyVars
      <4> QED BY <2>0, <4>1 DEF AppliedInv, Loaded
    <3>2. CASE call.enabled = NoArg
      <4>1. /\ UNCHANGED <<control, built, state, learned_json>>
            /\ resetting'.base = Loaded
        BY <2>3, <3>2 DEF RouterLearning, ResetLearned, proxyVars
      <4> QED BY <2>0, <4>1 DEF AppliedInv, Loaded
    <3> QED BY <3>1, <3>2
  <2>4. ASSUME NEW intent \in Intents, Intent(intent) PROVE AppliedInv'
    <3>1. /\ UNCHANGED <<built, state, learned_json, resetting>>
          /\ control'.reset_id = intent.id /\ intent.id > control.reset_id /\ intent.id \in Nat
      BY <1>1, <2>4, LearningAssumption DEF Intent, Control, proxyVars
    <3>2. /\ state.last_applied \in Nat /\ Loaded.last_applied \in Nat /\ control.reset_id \in Nat
          /\ resetting # NoReset => resetting.base.last_applied \in Nat
      BY <1>1, EmptyType DEF LearningInv, TablesOK, LearnedState, Loaded, Control
    <3>3. control'.reset_id \notin consumed' \cup settled'
      BY <2>0, <3>1, <3>2 DEF AppliedInv
    <3>4. consumed' \cup settled' \subseteq 0 .. control'.reset_id
      BY <2>0, <3>1, <3>2 DEF AppliedInv
    <3>5. Loaded' = Loaded
      BY <3>1 DEF Loaded
    <3> QED BY <2>0, <3>1, <3>2, <3>3, <3>4, <3>5 DEF AppliedInv
  <2>5. ASSUME Tick PROVE AppliedInv'
    BY <1>2, <2>0, <2>5 DEF Tick, proxyVars
  <2> QED BY <1>8, <2>1, <2>2, <2>3, <2>4, <2>5 DEF HRest
<1>9. CASE UNCHANGED hvars
  BY <1>2, <1>9 DEF hvars, vars, proxyVars, history, bookkeeping
<1> QED BY <1>3, <1>4, <1>5, <1>6, <1>7, <1>8, <1>9 DEF HNext
-----------------------------------------------------------------------------
(* The rest of the types.                                                   *)

LEMMA OthersStep ==
  ASSUME KeptInv, [HNext]_hvars
  PROVE  OthersOK'
<1> USE DEF KeptInv, OthersOK
<1>0. /\ now \in Nat /\ Enqueued \in Seq(Nat)
      /\ Loaded \in LearnedState /\ \A n \in Nat : n + 1 \in Nat
  BY EnqueuedType, EmptyType DEF LearningInv, TablesOK, Loaded
<1>1. Disturbance => disturbances' \in Nat
  BY DEF Disturbance
<1>2. ASSUME NEW l, Flush(l) PROVE disturbances' \in Nat
  BY <1>1, <1>2 DEF Flush
<1>3. ASSUME NEW s \in Sessions, NEW request \in Requests, NEW winner \in Models,
             HTurn(s, request, winner)
      PROVE  OthersOK'
  <2>1. UNCHANGED <<stamp, resetting>> /\ built' = TRUE /\ requests' \in Nat
    BY <1>0, <1>3 DEF HTurn, Turn
  <2>2. polled' \in {polled, stamp} /\ queue' \in {queue, Enqueued} /\ disturbances' \in Nat
    <3>1. CASE control.learning_enabled
      BY <1>2, <1>3, <3>1 DEF HTurn, Turn, Hooked
    <3>2. CASE ~control.learning_enabled
      BY <1>3, <3>2 DEF HTurn, Turn, Unhooked
    <3> QED BY <3>1, <3>2
  <2> QED BY <1>0, <2>1, <2>2
<1>4. ASSUME NEW s \in Sessions, NEW ask \in Asks, NEW model \in Models,
             HDirectTurn(s, ask, model)
      PROVE  OthersOK'
  BY <1>0, <1>4 DEF HDirectTurn, DirectTurn
<1>5. ASSUME HFlushPoll PROVE OthersOK'
  BY <1>2, <1>5 DEF HFlushPoll, FlushPoll
<1>6. ASSUME HCrash PROVE OthersOK'
  <2>1. <<>> \in Seq(Nat)
    BY EmptySeq
  <2> QED BY <1>1, <1>6, <2>1 DEF HCrash, Crash, NewProxy
<1>7. ASSUME HResetDone PROVE OthersOK'
  BY <1>1, <1>7 DEF HResetDone, ResetDone, proxyVars
<1>8. ASSUME HRest PROVE OthersOK'
  <2>1. ASSUME ExtractPoll PROVE OthersOK'
    BY <2>1, BatchesType DEF ExtractPoll
  <2>2. ASSUME NEW s \in Sessions, Forget(s) PROVE OthersOK'
    BY <1>1, <2>2 DEF Forget
  <2>3. ASSUME NEW call \in ToolCalls, RouterLearning(call) PROVE OthersOK'
    <3>1. CASE call.enabled # NoArg
      BY <1>0, <1>1, <2>3, <3>1 DEF RouterLearning, SetLearning, proxyVars
    <3>2. CASE call.enabled = NoArg
      <4>1. call.reset \in Scopes /\ ResetLearned(call.reset)
        BY <2>3, <3>2, LearningAssumption DEF RouterLearning, ToolCall
      <4> QED BY <1>0, <1>1, <4>1 DEF ResetLearned, proxyVars
    <3> QED BY <3>1, <3>2
  <2>4. ASSUME NEW intent \in Intents, Intent(intent) PROVE OthersOK'
    BY <1>0, <1>1, <2>4 DEF Intent, proxyVars
  <2>5. ASSUME Tick PROVE OthersOK'
    BY <1>1, <2>5 DEF Tick, proxyVars
  <2> QED BY <1>8, <2>1, <2>2, <2>3, <2>4, <2>5 DEF HRest
<1>9. CASE UNCHANGED hvars
  BY <1>9 DEF hvars, vars, proxyVars
<1> QED BY <1>3, <1>4, <1>5, <1>6, <1>7, <1>8, <1>9 DEF HNext

(* The strengthened invariant holds in every state.                         *)
THEOREM KeptCorrect == HSpec => []KeptInv
<1>1. HInit => KeptInv
  <2> SUFFICES ASSUME HInit PROVE KeptInv
    OBVIOUS
  <2>1. LearningInv
    BY LearningInit
  <2>2. OthersOK
    BY EmptySeq DEF HInit, Init, OthersOK
  <2>3. AppliedInv
    BY DEF HInit, Init, AppliedInv, Loaded, EmptyState, NoIntent
  <2> QED BY <2>1, <2>2, <2>3 DEF KeptInv
<1>2. KeptInv /\ [HNext]_hvars => KeptInv'
  <2> SUFFICES ASSUME KeptInv, [HNext]_hvars PROVE KeptInv'
    OBVIOUS
  <2>1. LearningInv'
    BY TurnStep, DirectTurnStep, FlushPollStep, CrashStep, ResetDoneStep, RestStep, StutterStep
       DEF HNext, KeptInv
  <2> QED BY <2>1, OthersStep, AppliedStep DEF KeptInv
<1> QED BY <1>1, <1>2, PTL DEF HSpec

(* Every table, queue, budget and record has its type, for any constants.   *)
THEOREM LearningTypeCorrect == HSpec => []TypeOK
<1>1. KeptInv => TypeOK
  <2> SUFFICES ASSUME KeptInv PROVE TypeOK
    OBVIOUS
  <2> USE DEF KeptInv, LearningInv
  <2>1. reask_budgets \in [Sessions -> 0 .. REASK_CONTRIB_CAP]
    BY LearningAssumption DEF BudgetInv
  <2>2. switch_budgets \in [Sessions -> 0 .. SWITCH_NEGATIVES_CAP]
    BY LearningAssumption DEF BudgetInv
  <2> QED BY <2>1, <2>2 DEF TypeOK, TablesOK, OthersOK
<1> QED BY <1>1, KeptCorrect, PTL
-----------------------------------------------------------------------------
(* What pruning may take.                                                   *)

LEMMA KeysAreFinite == IsFiniteSet(Keys)
<1> DEFINE trust == {Trust(k, m) : k \in Kinds, m \in Models}
           bars == {Bar(k) : k \in Kinds}
           phrases == {Phrase(p) : p \in Phrases}
<1>1. IsFiniteSet(Kinds) /\ IsFiniteSet(Models) /\ IsFiniteSet(Phrases)
  BY LearningAssumption
<1>2. IsFiniteSet(trust)
  <2> DEFINE f == [km \in Kinds \X Models |-> Trust(km[1], km[2])]
  <2>1. IsFiniteSet(Kinds \X Models)
    BY <1>1, FS_Product
  <2>2. f \in Surjection(Kinds \X Models, trust)
    <3>1. f \in [Kinds \X Models -> trust]
      OBVIOUS
    <3>2. ASSUME NEW t \in trust PROVE \E km \in Kinds \X Models : f[km] = t
      <4>1. PICK k \in Kinds, m \in Models : t = Trust(k, m)
        OBVIOUS
      <4>2. <<k, m>> \in Kinds \X Models /\ f[<<k, m>>] = t
        BY <4>1
      <4> QED BY <4>2
    <3> QED BY <3>1, <3>2 DEF Surjection
  <2> HIDE DEF f, trust
  <2> QED BY <2>1, <2>2, FS_Surjection
<1>3. IsFiniteSet(bars)
  <2> DEFINE f == [k \in Kinds |-> Bar(k)]
  <2>1. f \in Surjection(Kinds, bars)
    BY DEF Surjection
  <2> HIDE DEF f, bars
  <2> QED BY <1>1, <2>1, FS_Surjection
<1>4. IsFiniteSet(phrases)
  <2> DEFINE f == [p \in Phrases |-> Phrase(p)]
  <2>1. f \in Surjection(Phrases, phrases)
    BY DEF Surjection
  <2> HIDE DEF f, phrases
  <2> QED BY <1>1, <2>1, FS_Surjection
<1>5. Keys = (trust \cup bars) \cup phrases
  BY DEF Keys
<1> HIDE DEF trust, bars, phrases
<1> QED BY <1>2, <1>3, <1>4, <1>5, FS_Union

(* A row that pruning drops from what the learner had, with what was just   *)
(* written on top, was dormant or its table is too full.                    *)
LEMMA PruneTakesWeakest ==
  ASSUME now \in Nat, NEW old \in Rows, NEW fresh \in Rows,
         \A k \in Keys : \/ fresh[k] = old[k]
                         \/ fresh[k].last_ts = now /\ fresh[k].count >= old[k].count,
         NEW pruned \in Pruned(fresh), NEW key \in Keys, pruned[key].count < old[key].count
  PROVE  \/ Dormant(old[key])
         \/ Cardinality({k \in Keys : Table(k) = Table(key)
                             /\ {old[k], pruned[k]} # {NoRow}}) > ROW_CAP
<1> SUFFICES ASSUME ~Dormant(old[key])
             PROVE  Cardinality({k \in Keys : Table(k) = Table(key)
                                     /\ {old[k], pruned[k]} # {NoRow}}) > ROW_CAP
  OBVIOUS
<1> DEFINE busy == {k \in Keys : Table(k) = Table(key) /\ {old[k], pruned[k]} # {NoRow}}
<1>1. PICK kept \in Kept(fresh) :
          pruned = [k \in Keys |-> IF k \in kept THEN fresh[k] ELSE NoRow]
  BY DEF Pruned
<1> DEFINE mine == {k \in kept : Table(k) = Table(key)}
           awake == {k \in Awake(fresh) : Table(k) = Table(key)}
<1>2. old[key] \in Row /\ fresh[key] \in Row /\ NoRow.count = 0
  BY DEF Rows, NoRow
<1>3. fresh[key].count >= old[key].count /\ pruned[key] = NoRow /\ key \notin kept
  BY <1>1, <1>2 DEF Row
<1>4. old[key] # NoRow /\ fresh[key] # NoRow
  BY <1>2, <1>3 DEF Row
<1>5. ~Dormant(fresh[key])
  <2>1. fresh[key].last_ts = now => Age(fresh[key]) = 0
    BY DEF Age
  <2> QED BY <2>1 DEF Dormant
<1>6. key \in awake
  BY <1>4, <1>5 DEF Awake
<1>7. Table(key) \in Tables
  BY DEF Table, Tables, Keys, Trust, Bar, Phrase
<1>8. /\ mine \subseteq awake /\ key \notin mine
      /\ Cardinality(mine) = IF Cardinality(awake) > ROW_CAP THEN ROW_CAP ELSE Cardinality(awake)
  BY <1>1, <1>3, <1>7 DEF Kept, KeepsStrongest
<1>9. /\ IsFiniteSet(awake) /\ IsFiniteSet(mine) /\ IsFiniteSet(busy)
      /\ awake \subseteq Keys /\ mine \subseteq Keys
  BY <1>8, KeysAreFinite, FS_Subset DEF Awake
<1>10. mine \cup {key} \subseteq busy
  <2>1. \A k \in mine : pruned[k] # NoRow
    BY <1>1, <1>8 DEF Awake
  <2> QED BY <1>4, <1>9, <2>1
<1> HIDE DEF mine, awake, busy
<1>11. Cardinality(mine \cup {key}) = Cardinality(mine) + 1
  BY <1>8, <1>9, FS_AddElement
<1>12. Cardinality(mine \cup {key}) <= Cardinality(awake)
  BY <1>6, <1>8, <1>9, FS_Subset
<1>13. Cardinality(mine \cup {key}) <= Cardinality(busy)
  BY <1>9, <1>10, FS_Subset
<1>14. /\ Cardinality(mine) \in Nat /\ Cardinality(awake) \in Nat /\ Cardinality(busy) \in Nat
       /\ ROW_CAP \in Nat
  BY <1>9, FS_CardinalityType, LearningAssumption
<1>15. Cardinality(busy) > ROW_CAP
  BY <1>8, <1>11, <1>12, <1>13, <1>14
<1> QED BY <1>15 DEF busy

(* What is folded or registered is as new as can be, and adds evidence.     *)
LEMMA FoldedIsFresh ==
  ASSUME now \in Nat, NEW rows \in Rows, NEW weights \in [Keys -> Int], NEW k \in Keys
  PROVE  \/ Folded(rows, weights)[k] = rows[k]
         \/ /\ Folded(rows, weights)[k].last_ts = now
            /\ Folded(rows, weights)[k].count >= rows[k].count
<1>1. rows[k].count \in Nat
  BY DEF Rows, Row
<1> QED BY <1>1 DEF Folded, Added

LEMMA RegisteredIsFresh ==
  ASSUME now \in Nat, NEW rows \in Rows, NEW phrases, NEW k \in Keys
  PROVE  \/ Registered(rows, phrases)[k] = rows[k]
         \/ /\ Registered(rows, phrases)[k].last_ts = now
            /\ Registered(rows, phrases)[k].count >= rows[k].count
<1>1. rows[k].count \in Nat
  BY DEF Rows, Row
<1> QED BY <1>1 DEF Registered, Added

LEMMA VerdictWeights ==
  ASSUME NEW verdict \in Verdicts, NEW record \in Record \cup {NoRecord}, NEW ask, NEW rows,
         record = NoRecord => verdict = "none"
  PROVE  Judged(verdict, record, ask, rows) \in [Keys -> Int]
<1>1. CASE verdict = "none"
  BY <1>1 DEF Judged
<1>2. CASE verdict # "none"
  BY <1>2, JudgedWeights
<1> QED BY <1>1, <1>2

(* The four ways the learner comes to new tables in a step.                 *)
LEMMA TablesOfStep ==
  ASSUME KeptInv, [HNext]_hvars, built', NEW key \in Keys,
         state'.rows[key].count < Learner.rows[key].count
  PROVE  \/ control.reset_id \notin consumed
         \/ \E fresh \in Rows :
                /\ \A k \in Keys : \/ fresh[k] = Learner.rows[k]
                                   \/ /\ fresh[k].last_ts = now
                                      /\ fresh[k].count >= Learner.rows[k].count
                /\ state'.rows \in Pruned(fresh)
<1> USE DEF KeptInv
<1> DEFINE Newer(fresh) ==
               \A k \in Keys : \/ fresh[k] = Learner.rows[k]
                               \/ /\ fresh[k].last_ts = now
                                  /\ fresh[k].count >= Learner.rows[k].count
           Explained == \E fresh \in Rows : Newer(fresh) /\ state'.rows \in Pruned(fresh)
<1>1. /\ Learner \in LearnedState /\ Learner.rows \in Rows /\ now \in Nat /\ control \in Control
      /\ sessions \in [Sessions -> Record \cup {NoRecord}]
      /\ Learner.rows[key].count \in Nat
  BY LearnerRows DEF LearningInv, TablesOK, LearnedState, Rows, Row
<1>2. state' # Learner
  BY <1>1
<1>3. Pending(Learner) => control.reset_id \notin consumed
  <2> SUFFICES ASSUME Pending(Learner), control.reset_id \in consumed PROVE FALSE
    OBVIOUS
  <2>1. control.reset_id # NoIntent /\ control.reset_id # Learner.last_applied
    BY DEF Pending
  <2> QED BY <2>1 DEF AppliedInv, Learner, OthersOK
<1>4. ~Pending(Learner) => Polled(Learner) = Learner
  BY DEF Polled
<1> SUFFICES ASSUME control.reset_id \in consumed PROVE Explained
  OBVIOUS
<1>5. Polled(Learner) = Learner
  BY <1>3, <1>4
<1> HIDE DEF Explained
<1>6. ASSUME NEW weights \in [Keys -> Int], state'.rows \in Pruned(Folded(Learner.rows, weights))
      PROVE  Explained
  <2>1. Folded(Learner.rows, weights) \in Rows /\ Newer(Folded(Learner.rows, weights))
    BY <1>1, FoldedRows, FoldedIsFresh
  <2> HIDE DEF Newer
  <2> QED BY <1>6, <2>1 DEF Explained
<1>7. ASSUME NEW s \in Sessions, NEW request \in Requests, NEW winner \in Models,
             HTurn(s, request, winner)
      PROVE  Explained
  <2> DEFINE weights == Judged(VerdictOf(s, request), sessions[s], request.ask, Learner.rows)
             l == [Learner EXCEPT !.rows = Folded(Learner.rows, weights)]
  <2>1. control.learning_enabled
    BY <1>2, <1>7 DEF HTurn, Turn, Unhooked
  <2>2. Flush(l)
    BY <1>5, <1>7, <2>1 DEF HTurn, Turn, Hooked
  <2>3. weights \in [Keys -> Int]
    BY <1>1, VerdictKinds, VerdictWeights
  <2> HIDE DEF weights
  <2>4. l.rows = Folded(Learner.rows, weights)
    BY <1>1 DEF LearnedState
  <2>5. \E rows \in Pruned(l.rows) : state' = [l EXCEPT !.rows = rows]
    BY <2>2 DEF Flush
  <2>6. state'.rows \in Pruned(l.rows)
    BY <1>1, <2>5 DEF LearnedState
  <2> QED BY <1>6, <2>3, <2>4, <2>6
<1>8. ASSUME NEW s \in Sessions, NEW ask \in Asks, NEW model \in Models,
             HDirectTurn(s, ask, model)
      PROVE  Explained
  <2> DEFINE weights == Judged("direct_switch", sessions[last_session], ask, Learner.rows)
  <2>1. Switched(ask, model) /\ DirectTurn(s, ask, model)
    BY <1>2, <1>8 DEF HDirectTurn, DirectTurn
  <2>2. sessions[last_session] \in Record
    BY <1>1, <2>1 DEF Switched, LearningInv, TablesOK
  <2>3. weights \in [Keys -> Int]
    BY <2>2, JudgedWeights DEF Verdicts
  <2>4. \E rows \in Pruned(Folded(Learner.rows, weights)) : state' = [Learner EXCEPT !.rows = rows]
    BY <2>1 DEF DirectTurn
  <2> HIDE DEF weights
  <2>5. state'.rows \in Pruned(Folded(Learner.rows, weights))
    BY <1>1, <2>4 DEF LearnedState
  <2> QED BY <1>6, <2>3, <2>5
<1>9. ASSUME HFlushPoll PROVE Explained
  <2>1. Learner = state /\ Flush(Learner)
    BY <1>5, <1>9 DEF HFlushPoll, FlushPoll, Learner
  <2>2. \E rows \in Pruned(Learner.rows) : state' = [Learner EXCEPT !.rows = rows]
    BY <2>1 DEF Flush
  <2>3. state'.rows \in Pruned(Learner.rows)
    BY <1>1, <2>2 DEF LearnedState
  <2> QED BY <1>1, <2>3 DEF Explained
<1>10. ASSUME HCrash PROVE FALSE
  BY <1>10 DEF HCrash, Crash, NewProxy
<1>11. ASSUME state' = state, built' = built PROVE FALSE
  BY <1>2, <1>11 DEF Learner
<1>12. ASSUME HResetDone PROVE FALSE
  BY <1>11, <1>12 DEF HResetDone, ResetDone, proxyVars
<1>13. ASSUME ExtractPoll PROVE Explained
  <2>1. Learner = state
    BY <1>13 DEF ExtractPoll, Learner
  <2>2. PICK phrases \in SUBSET Phrases : \E rows \in Pruned(Registered(Learner.rows, phrases)) :
            state' = [Learner EXCEPT !.rows = rows,
                                     !.key_points = IF @ < KEY_POINTS_KEEP THEN @ + 1 ELSE @]
    BY <1>2, <1>13, <2>1 DEF ExtractPoll
  <2>3. state'.rows \in Pruned(Registered(Learner.rows, phrases))
    BY <1>1, <2>2 DEF LearnedState
  <2>4. Registered(Learner.rows, phrases) \in Rows /\ Newer(Registered(Learner.rows, phrases))
    BY <1>1, RegisteredRows, RegisteredIsFresh
  <2> HIDE DEF Newer
  <2> QED BY <2>3, <2>4 DEF Explained
<1>14. ASSUME HRest PROVE Explained
  <2>1. ASSUME NEW s \in Sessions, Forget(s) PROVE FALSE
    BY <1>11, <2>1 DEF Forget
  <2>2. ASSUME NEW call \in ToolCalls, RouterLearning(call) PROVE FALSE
    BY <1>11, <2>2 DEF RouterLearning, SetLearning, ResetLearned, proxyVars
  <2>3. ASSUME NEW intent \in Intents, Intent(intent) PROVE FALSE
    BY <1>11, <2>3 DEF Intent, proxyVars
  <2>4. ASSUME Tick PROVE FALSE
    BY <1>11, <2>4 DEF Tick, proxyVars
  <2> QED BY <1>13, <1>14, <2>1, <2>2, <2>3, <2>4 DEF HRest
<1>15. CASE UNCHANGED hvars
  BY <1>11, <1>15 DEF hvars, vars, proxyVars
<1>16. Explained
  BY <1>7, <1>8, <1>9, <1>10, <1>12, <1>14, <1>15 DEF HNext
<1> QED BY <1>16 DEF Explained

(* While the process lives, a row loses evidence only by decay, to a fuller *)
(* table, or by an intent that was not applied before, for any caps, resets *)
(* by the service, crashes and failed writes.                               *)
THEOREM EvidenceAlwaysKept == HSpec => EvidenceIsKept
<1>1. ASSUME KeptInv, [HNext]_hvars
      PROVE  [ \A key \in Keys :
            state'.rows[key].count < Learner.rows[key].count =>
                \/ ~built'
                \/ Dormant(Learner.rows[key])
                \/ Crowded(Table(key))
                \/ control.reset_id \notin consumed ]_hvars
  <2> SUFFICES ASSUME NEW key \in Keys, state'.rows[key].count < Learner.rows[key].count,
                      built', control.reset_id \in consumed
               PROVE  Dormant(Learner.rows[key]) \/ Crowded(Table(key))
    OBVIOUS
  <2>1. PICK fresh \in Rows :
            /\ \A k \in Keys : \/ fresh[k] = Learner.rows[k]
                               \/ /\ fresh[k].last_ts = now
                                  /\ fresh[k].count >= Learner.rows[k].count
            /\ state'.rows \in Pruned(fresh)
    BY <1>1, TablesOfStep
  <2>2. now \in Nat /\ Learner.rows \in Rows
    BY <1>1, LearnerRows DEF KeptInv, LearningInv, TablesOK, LearnedState, Rows
  <2> QED BY <2>1, <2>2, PruneTakesWeakest DEF Crowded
<1>2. HSpec => [][ \A key \in Keys :
            state'.rows[key].count < Learner.rows[key].count =>
                \/ ~built'
                \/ Dormant(Learner.rows[key])
                \/ Crowded(Table(key))
                \/ control.reset_id \notin consumed ]_hvars
  BY <1>1, KeptCorrect, PTL DEF HSpec
<1> QED BY <1>2 DEF EvidenceIsKept
=============================================================================
