---------------------------- MODULE RoutingProofs ----------------------------
(***************************************************************************)
(* Theorems about the routing policy, for every fleet, every set of        *)
(* requests and every value of the tuning constants.                       *)
(***************************************************************************)
EXTENDS RoutingHistory, Induction

(* What the steps of the policy rely on beyond the types: the request being *)
(* served is one of Signatures, and a live record has a kind.               *)
RequestKnown == request # NoRequest => request.sig \in Signatures
LiveHasKind == \A s \in Sessions : Live(s) => sessions[s].kind \in Kinds
RoutingInv == TypeOK /\ RequestKnown /\ LiveHasKind
-----------------------------------------------------------------------------
(* Arithmetic.                                                              *)

LEMMA ClampInRange ==
    ASSUME NEW x \in Int
    PROVE  Clamp(x, TRUST_FLOOR, TRUST_CEILING) \in TRUST_FLOOR..TRUST_CEILING
  BY DEF Clamp, AtMost, AtLeast, TRUST_FLOOR, TRUST_CEILING

LEMMA ProductNat ==
    ASSUME NEW a \in Nat, NEW b \in Nat
    PROVE  a * b \in Nat
  OBVIOUS

LEMMA QuotientNat ==
    ASSUME NEW a \in Nat, NEW b \in Nat \ {0}
    PROVE  a \div b \in Nat
  OBVIOUS

LEMMA MaxNat ==
    ASSUME NEW a \in Nat, NEW b \in Nat
    PROVE  AtLeast(a, b) \in Nat /\ AtMost(a, b) \in Nat
  BY DEF AtLeast, AtMost

(* The estimated cost of a turn is a natural number.                        *)
LEMMA EstimateNat ==
    ASSUME NEW sig \in Signature, NEW m \in Models
    PROVE  EstimateCost(sig, m) \in Nat
  <1> DEFINE answer == AtMost(AtLeast(3 * sig.askTokens, 64), 4000)
             microUsd == sig.tokens * CostIn[m] + (answer * CostOut[m]) \div 1000
  <1>1. sig.askTokens \in Nat /\ sig.tokens \in Nat
    BY DEF Signature
  <1>2. CostIn[m] \in Nat /\ CostOut[m] \in Nat
    BY ProfileAssumption
  <1>3. answer \in Nat
    BY <1>1 DEF AtMost, AtLeast
  <1>4. sig.tokens * CostIn[m] \in Nat
    BY <1>1, <1>2, ProductNat
  <1>5. (answer * CostOut[m]) \div 1000 \in Nat
    BY <1>2, <1>3, ProductNat, QuotientNat
  <1>6. microUsd \in Nat
    BY <1>4, <1>5
  <1> HIDE DEF microUsd
  <1>7. (microUsd * 78) \div 10000 \in Nat
    BY <1>6, QuotientNat
  <1> QED BY <1>7 DEF EstimateCost, microUsd
-----------------------------------------------------------------------------
(* Types of what a Serve step reads and writes.                             *)

LEMMA RequestType ==
    ASSUME RoutingInv, request # NoRequest
    PROVE  /\ request \in Request
           /\ request.session \in Sessions
           /\ request.sig \in Signature
           /\ request.view \in Spend
           /\ Prev \in SessionRecord
  <1>1. request \in Request
    BY DEF RoutingInv, TypeOK
  <1>2. request.session \in Sessions /\ request.sig \in Signature /\ request.view \in Spend
    BY <1>1 DEF Request
  <1> QED BY <1>1, <1>2 DEF RoutingInv, TypeOK, Prev

LEMMA SigType ==
    ASSUME RoutingInv, request # NoRequest
    PROVE  /\ Sig \in Signature
           /\ Sig.directives = request.sig.directives
           /\ Sig.use = request.sig.use
  <1> DEFINE asked == request.sig
  <1>1. asked \in Signature
    BY RequestType
  <1>2. CASE ~ExecDemoted
    BY <1>1, <1>2 DEF Sig
  <1>3. CASE ExecDemoted
    <2>1. EXEC_PHASE_KIND \in Kinds
      BY SignatureAssumption
    <2>2. AtMost(asked.importance, 1) \in 0..2 /\ AtMost(asked.askTokens, 399) \in Nat
      BY <1>1 DEF Signature, AtMost
    <2>3. Sig = [asked EXCEPT !.kind = EXEC_PHASE_KIND,
                              !.importance = AtMost(asked.importance, 1),
                              !.askTokens = AtMost(asked.askTokens, 399)]
      BY <1>3 DEF Sig
    <2> DEFINE one == [asked EXCEPT !.kind = EXEC_PHASE_KIND]
               two == [one EXCEPT !.importance = AtMost(asked.importance, 1)]
               three == [two EXCEPT !.askTokens = AtMost(asked.askTokens, 399)]
    <2>4. Sig = three
      BY <2>3
    <2> HIDE DEF asked
    <2>5. one \in Signature /\ one.directives = asked.directives /\ one.use = asked.use
      BY <1>1, <2>1 DEF Signature
    <2> HIDE DEF one
    <2>6. two \in Signature /\ two.directives = one.directives /\ two.use = one.use
      BY <2>2, <2>5 DEF Signature
    <2> HIDE DEF two
    <2>7. three \in Signature /\ three.directives = two.directives /\ three.use = two.use
      BY <2>2, <2>6 DEF Signature
    <2> HIDE DEF three
    <2> QED BY <2>4, <2>5, <2>6, <2>7 DEF asked
  <1> QED BY <1>2, <1>3

(* A session that holds a model of the fleet is live.                       *)
LEMMA FleetModelIsLive ==
    ASSUME NEW s \in Sessions, sessions[s].model \in Models
    PROVE  Live(s)
  BY NoModelAssumption DEF Live

LEMMA LivePrev ==
    ASSUME RoutingInv, request # NoRequest, Live(request.session)
    PROVE  Prev.model \in Models /\ Prev.kind \in Kinds /\ Prev.turns \in Nat
  BY RequestType DEF RoutingInv, LiveHasKind, Live, Prev, SessionRecord

LEMMA AdjustType ==
    ASSUME NEW t \in TRUST_FLOOR..TRUST_CEILING, NEW d \in Int
    PROVE  Adjust(t, d) \in TRUST_FLOOR..TRUST_CEILING
  <1>1. t \in Int
    BY DEF TRUST_FLOOR, TRUST_CEILING
  <1> QED BY <1>1, ClampInRange DEF Adjust

LEMMA FedBackType ==
    ASSUME RoutingInv, request # NoRequest
    PROVE  FedBack \in [Kinds -> [Models -> TRUST_FLOOR..TRUST_CEILING]]
  <1> DEFINE Scale == TRUST_FLOOR..TRUST_CEILING
             t0 == trust[Prev.kind][Prev.model]
             t1 == IF control.learning /\ FailedRecently(Prev.model)
                   THEN Adjust(t0, -250) ELSE t0
             t2 == IF "escalate" \in Sig.directives THEN Adjust(t1, -200) ELSE t1
             t3 == IF Sig.stall THEN Adjust(t2, -150)
                   ELSE IF Prev.turns >= 3 THEN Adjust(t2, 30) ELSE t2
  <1>1. trust \in [Kinds -> [Models -> Scale]]
    BY DEF RoutingInv, TypeOK
  <1>2. \A t \in Scale, d \in {-250, -200, -150, 30} : Adjust(t, d) \in Scale
    BY AdjustType
  <1> HIDE DEF Scale
  <1>3. CASE ~Live(request.session)
    BY <1>1, <1>3 DEF FedBack, Scale
  <1>4. CASE Live(request.session)
    <2>1. Prev.kind \in Kinds /\ Prev.model \in Models
      BY <1>4, LivePrev
    <2>2. t0 \in Scale
      BY <1>1, <2>1
    <2> HIDE DEF t0
    <2>3. t1 \in Scale
      BY <1>2, <2>2
    <2> HIDE DEF t1
    <2>4. t2 \in Scale
      BY <1>2, <2>3
    <2> HIDE DEF t2
    <2>5. t3 \in Scale
      BY <1>2, <2>4
    <2>6. FedBack = [trust EXCEPT ![Prev.kind][Prev.model] = t3]
      BY <1>4 DEF FedBack, t0, t1, t2
    <2> HIDE DEF t3
    <2>7. FedBack \in [Kinds -> [Models -> Scale]]
      BY <1>1, <2>1, <2>5, <2>6
    <2> QED BY <2>7 DEF Scale
  <1> QED BY <1>3, <1>4

LEMMA NextRecordType ==
    ASSUME RoutingInv, request # NoRequest,
           NEW winner \in Models, NEW reason \in Reasons
    PROVE  NextRecord(winner, reason) \in SessionRecord
  <1>1. Sig \in Signature /\ Prev \in SessionRecord /\ now \in Nat
    BY SigType, RequestType DEF RoutingInv, TypeOK
  <1>2. EstimateCost(Sig, winner) \in Nat
    BY <1>1, EstimateNat
  <1>3. Sig.kind \in Kinds /\ Sig.tokens \in Nat /\ Sig.ask \in Asks
    BY <1>1 DEF Signature
  <1>4. Prev.turns \in Nat /\ Prev.tokens \in Nat /\ Prev.spend \in Nat
    BY <1>1 DEF SessionRecord
  <1> QED BY <1>1, <1>2, <1>3, <1>4 DEF NextRecord, SessionRecord

LEMMA EpochType ==
    ASSUME RoutingInv, request # NoRequest
    PROVE  /\ SyncedEpoch \in Nat
           /\ SyncedBaseline \in [Sessions -> Spend]
  <1>1. control.alarmEpoch \in Nat /\ alarmEpoch \in Nat
    BY DEF RoutingInv, TypeOK, Control
  <1>2. SyncedEpoch \in Nat
    BY <1>1, MaxNat DEF SyncedEpoch
  <1>3. request.session \in Sessions /\ request.view \in Spend
    BY RequestType
  <1>4. usageBaseline \in [Sessions -> Spend]
    BY DEF RoutingInv, TypeOK
  <1> QED BY <1>2, <1>3, <1>4 DEF SyncedBaseline

LEMMA ChargedType ==
    ASSUME RoutingInv, request # NoRequest
    PROVE  ChargedAlarms \in [Sessions -> [Models -> [Kinds -> Alarm]]]
  <1> DEFINE s == request.session
             m == Prev.model
             k == Prev.kind
             charge == EstimateCost(Sig, m)
             charged == [spend |-> kindAlarms[s][m][k].spend + charge, ts |-> now,
                         epoch |-> SyncedEpoch]
  <1>1. kindAlarms \in [Sessions -> [Models -> [Kinds -> Alarm]]] /\ now \in Nat
    BY DEF RoutingInv, TypeOK
  <1>2. CASE ~Live(s)
    BY <1>1, <1>2 DEF ChargedAlarms
  <1>3. CASE Live(s)
    <2>1. s \in Sessions /\ m \in Models /\ k \in Kinds
      BY <1>3, RequestType, LivePrev
    <2>2. charge \in Nat
      BY <2>1, SigType, EstimateNat
    <2>3. kindAlarms[s][m][k] \in Alarm
      BY <1>1, <2>1
    <2>4. charged \in Alarm
      BY <1>1, <2>2, <2>3, EpochType DEF Alarm
    <2>5. ChargedAlarms = [kindAlarms EXCEPT ![s][m][k] = charged]
      BY <1>3 DEF ChargedAlarms
    <2> HIDE DEF charged, s, m, k
    <2> QED BY <1>1, <2>1, <2>4, <2>5
  <1> QED BY <1>2, <1>3
-----------------------------------------------------------------------------
(* Where the winners come from.                                             *)

LEMMA ContendInPool ==
    ASSUME NEW learned
    PROVE  Contend(learned) \subseteq Pool
  BY DEF Contend, Decide, Scored, Capable, Closest, Cheapest

LEMMA PoolInFleet == Pool \subseteq Fleet
  BY DEF Pool

LEMMA DemotionInFleet == DemotionPool(Sig, Fleet, Excluded) \subseteq Fleet
  BY DEF DemotionPool

(* Every Serve step commits a model of the fleet.                           *)
LEMMA ServeCommits ==
    ASSUME Serve
    PROVE  /\ request # NoRequest
           /\ \E winner \in Fleet, reason \in Reasons, fallback \in BOOLEAN :
                  Commit(winner, reason, fallback)
  <1> USE DEF Reasons
  <1>1. CASE ServeLease
    <2>1. LeaseModel \in Fleet
      BY <1>1, NoModelAssumption DEF ServeLease, LeaseWins, LeaseModel
    <2> QED BY <1>1, <2>1 DEF ServeLease
  <1>2. CASE ServeDirective
    <2>1. UseTarget \in Fleet
      BY <1>2 DEF ServeDirective, UseTarget
    <2> QED BY <1>2, <2>1 DEF ServeDirective
  <1>3. CASE ServeGrace
    BY <1>3 DEF ServeGrace, Unsteered, GracePin, Holdable
  <1>4. CASE ServeLoyal
    BY <1>4 DEF ServeLoyal, Unsteered, LoyaltyPin, Holdable
  <1>5. CASE ServeSwap
    BY <1>5, ContendInPool, PoolInFleet DEF ServeSwap, Unsteered
  <1>6. CASE ServeUnscored
    BY <1>6, ContendInPool, PoolInFleet DEF ServeUnscored, Unsteered
  <1>7. CASE ServeDemoted
    <2> DEFINE pool == DemotionPool(Sig, Fleet, Excluded)
               choices == IF pool = {} THEN {FirstInFleet} ELSE Cheapest(pool)
               fallback == \A m \in Fleet \ Excluded : ~Fits(Sig, m)
    <2>1. choices \subseteq Fleet
      BY DemotionInFleet, FleetAssumption DEF Cheapest
    <2>2. PICK winner \in choices : Commit(winner, DemotionReason, fallback)
      BY <1>7 DEF ServeDemoted
    <2>3. DemotionReason \in Reasons /\ fallback \in BOOLEAN
      BY DEF DemotionReason
    <2>4. request # NoRequest
      BY <1>7 DEF ServeDemoted, Unsteered
    <2> HIDE DEF choices, fallback
    <2> QED BY <2>1, <2>2, <2>3, <2>4
  <1>8. CASE ServeFresh
    <2> DEFINE fallback == Fleet \subseteq Excluded
               reason == IF Excluded # {} /\ ~fallback
                         THEN "cascade-escalation" ELSE "fresh"
    <2>1. PICK table \in LearnedTables :
              \E winner \in Contend(LearnedNow(table)) : Commit(winner, reason, fallback)
      BY <1>8 DEF ServeFresh
    <2>2. Contend(LearnedNow(table)) \subseteq Fleet
      BY ContendInPool, PoolInFleet
    <2>3. reason \in Reasons /\ fallback \in BOOLEAN
      OBVIOUS
    <2>4. request # NoRequest
      BY <1>8 DEF ServeFresh, Unsteered
    <2> HIDE DEF reason, fallback
    <2> QED BY <2>1, <2>2, <2>3, <2>4
  <1> QED
    BY <1>1, <1>2, <1>3, <1>4, <1>5, <1>6, <1>7, <1>8 DEF Serve

LEMMA DecisionType ==
    ASSUME RoutingInv, request # NoRequest,
           NEW winner \in Models, NEW reason \in Reasons, NEW fallback \in BOOLEAN,
           Commit(winner, reason, fallback)
    PROVE  decision' \in Decision
  <1>1. request.session \in Sessions /\ Sig \in Signature
    BY RequestType, SigType
  <1>2. Excluded \in SUBSET Models
    BY FleetAssumption DEF Excluded
  <1>3. Breached \in BOOLEAN /\ Runaway \in BOOLEAN /\ AlarmBasis \in AlarmBases
    BY DEF Breached, Runaway, AlarmBasis, AlarmBases
  <1>4. LiveLease.model \in Models \cup {NoModel}
    BY DEF RoutingInv, TypeOK, Control, Lease, LiveLease, NoLease
  <1>5. decision' =
           [session |-> request.session, sig |-> Sig, winner |-> winner,
            reason |-> reason, excluded |-> Excluded, fallback |-> fallback,
            breached |-> Breached, runaway |-> Runaway, alarm |-> AlarmBasis,
            lease |-> LiveLease.model]
    BY DEF Commit
  <1> QED BY <1>1, <1>2, <1>3, <1>4, <1>5 DEF Decision

(* A Serve step keeps the types.                                            *)
LEMMA ServeInv ==
    ASSUME RoutingInv, Serve
    PROVE  RoutingInv'
  <1>1. request # NoRequest
    BY ServeCommits
  <1>2. PICK winner \in Fleet, reason \in Reasons, fallback \in BOOLEAN :
            Commit(winner, reason, fallback)
    BY ServeCommits
  <1>3. winner \in Models
    BY FleetAssumption
  <1> DEFINE s == request.session
             next == NextRecord(winner, reason)
  <1>4. s \in Sessions /\ next \in SessionRecord
    BY <1>1, <1>3, RequestType, NextRecordType
  <1>5. sessions' = [sessions EXCEPT ![s] = next]
    BY <1>2 DEF Commit
  <1>6. next.kind \in Kinds
    BY <1>1, SigType DEF NextRecord, Signature
  <1> HIDE DEF s, next
  <1>7. sessions' \in [Sessions -> SessionRecord]
    BY <1>4, <1>5 DEF RoutingInv, TypeOK
  <1>8. LiveHasKind'
    BY <1>4, <1>5, <1>6 DEF RoutingInv, TypeOK, LiveHasKind, Live
  <1>9. decision' \in Decision
    BY <1>1, <1>2, <1>3, DecisionType
  <1>10. trust' \in [Kinds -> [Models -> TRUST_FLOOR..TRUST_CEILING]]
    BY <1>1, <1>2, FedBackType DEF Commit
  <1>11. kindAlarms' \in [Sessions -> [Models -> [Kinds -> Alarm]]]
    BY <1>1, <1>2, ChargedType DEF Commit
  <1>12. alarmEpoch' \in Nat /\ usageBaseline' \in [Sessions -> Spend]
    BY <1>1, <1>2, EpochType DEF Commit
  <1>13. request' = NoRequest /\ served' \in Nat
    BY <1>2 DEF Commit, RoutingInv, TypeOK
  <1>14. TypeOK'
    BY <1>2, <1>7, <1>9, <1>10, <1>11, <1>12, <1>13
    DEF Commit, RoutingInv, TypeOK, environment
  <1> QED BY <1>8, <1>13, <1>14 DEF RoutingInv, RequestKnown
-----------------------------------------------------------------------------
(* Pruning, the first half of a request, and the surroundings.              *)

LEMMA PruneType ==
    ASSUME RoutingInv, NEW kept, NEW swept, Prune(kept, swept)
    PROVE  /\ sessions' \in [Sessions -> SessionRecord]
           /\ kindAlarms' \in [Sessions -> [Models -> [Kinds -> Alarm]]]
           /\ usageBaseline' \in [Sessions -> Spend]
           /\ LiveHasKind'
  <1>1. NoRecord \in SessionRecord /\ NoAlarm \in Alarm /\ NoSpend \in Spend
    BY DEF NoRecord, SessionRecord, NoAlarm, Alarm, NoSpend, Spend
  <1>2. sessions' \in [Sessions -> SessionRecord]
    BY <1>1 DEF Prune, RoutingInv, TypeOK
  <1>3. kindAlarms \in [Sessions -> [Models -> [Kinds -> Alarm]]]
    BY DEF RoutingInv, TypeOK
  <1>4. \A s \in Sessions, m \in Models, k \in Kinds : kindAlarms[s][m][k] \in Alarm
    BY <1>3
  <1>5. UnexpiredAlarms \in [Sessions -> [Models -> [Kinds -> Alarm]]]
    BY <1>1, <1>4 DEF UnexpiredAlarms
  <1>6. usageBaseline' \in [Sessions -> Spend]
    BY <1>1 DEF Prune, RoutingInv, TypeOK
  <1>7. LiveHasKind'
    <2> SUFFICES ASSUME NEW s \in Sessions, sessions'[s].model # NoModel
                 PROVE  sessions'[s].kind \in Kinds
      BY DEF LiveHasKind, Live
    <2>1. sessions'[s] = sessions[s]
      BY DEF Prune, NoRecord
    <2> QED BY <2>1 DEF RoutingInv, LiveHasKind, Live
  <1> QED BY <1>2, <1>5, <1>6, <1>7 DEF Prune

LEMMA LiveLeaseType ==
    ASSUME RoutingInv
    PROVE  LiveLease \in Lease
  <1>1. control.lease \in Lease
    BY DEF RoutingInv, TypeOK, Control
  <1>2. NoLease \in Lease
    BY DEF NoLease, Lease
  <1> QED BY <1>1, <1>2 DEF LiveLease

LEMMA BeginInv ==
    ASSUME RoutingInv, NEW s \in Sessions, NEW sig \in Signatures, Begin(s, sig)
    PROVE  RoutingInv'
  <1>1. PICK kept \in KeptByCap : Prune(Unexpired(kept), SweptSessions)
    BY DEF Begin
  <1>2. /\ sessions' \in [Sessions -> SessionRecord]
        /\ kindAlarms' \in [Sessions -> [Models -> [Kinds -> Alarm]]]
        /\ usageBaseline' \in [Sessions -> Spend]
        /\ LiveHasKind'
    BY <1>1, PruneType
  <1>3. request' = [session |-> s, sig |-> sig, view |-> real[s]]
    BY DEF Begin
  <1>4. request' \in Request /\ request'.sig \in Signatures
    BY <1>3, SignatureAssumption DEF RoutingInv, TypeOK, Request
  <1>5. lastLease' \in Lease /\ cleanedLeases' \subseteq Lease
    BY LiveLeaseType DEF Begin, RoutingInv, TypeOK
  <1>6. TypeOK'
    BY <1>2, <1>4, <1>5 DEF Begin, RoutingInv, TypeOK, environment
  <1> QED BY <1>2, <1>4, <1>6 DEF RoutingInv, RequestKnown

LEMMA SkipPathInv ==
    ASSUME RoutingInv, SkipPath
    PROVE  RoutingInv'
  <1>1. PICK kept \in KeptByCap : Prune(Unexpired(kept), {})
    BY DEF SkipPath
  <1>2. /\ sessions' \in [Sessions -> SessionRecord]
        /\ kindAlarms' \in [Sessions -> [Models -> [Kinds -> Alarm]]]
        /\ usageBaseline' \in [Sessions -> Spend]
        /\ LiveHasKind'
    BY <1>1, PruneType
  <1>3. TypeOK'
    BY <1>2 DEF SkipPath, RoutingInv, TypeOK, environment
  <1> QED BY <1>2, <1>3 DEF SkipPath, RoutingInv, RequestKnown

(* The variables a request and the sessions live in.                        *)
kernel == <<sessions, request>>

LEMMA KernelUnchanged ==
    ASSUME RoutingInv, UNCHANGED kernel
    PROVE  RequestKnown' /\ LiveHasKind'
  BY DEF RoutingInv, RequestKnown, LiveHasKind, Live, kernel

LEMMA OperatorInv ==
    ASSUME RoutingInv, Operator
    PROVE  RoutingInv'
  <1>1. control \in Control /\ now \in Nat
    BY DEF RoutingInv, TypeOK
  <1>2. PICK value : SetControl(value) /\ value \in Control
    <2>1. ASSUME NEW m \in LeaseModels, NEW term \in LeaseTerms, SetLease(m, term)
          PROVE  \E value : SetControl(value) /\ value \in Control
      <3> DEFINE serial == control.issued + 1
                 lease == [model |-> m, expires |-> now + term, serial |-> serial]
      <3>1. serial \in Nat /\ lease \in Lease
        BY <1>1, EnvironmentAssumption DEF Control, Lease
      <3>2. [control EXCEPT !.lease = lease, !.issued = serial] \in Control
        BY <1>1, <3>1 DEF Control
      <3> QED BY <2>1, <3>2 DEF SetLease
    <2>2. ASSUME ClearLease
          PROVE  \E value : SetControl(value) /\ value \in Control
      <3>1. [control EXCEPT !.lease = NoLease] \in Control
        BY <1>1 DEF Control, NoLease, Lease
      <3> QED BY <2>2, <3>1 DEF ClearLease
    <2>3. ASSUME NEW hkd \in Budgets \cup {0}, SetBudget(hkd)
          PROVE  \E value : SetControl(value) /\ value \in Control
      <3>1. [control EXCEPT !.budget = hkd] \in Control
        BY <1>1, EnvironmentAssumption DEF Control
      <3> QED BY <2>3, <3>1 DEF SetBudget
    <2>4. ASSUME ClearBudget
          PROVE  \E value : SetControl(value) /\ value \in Control
      BY <2>3, <2>4 DEF ClearBudget, SetBudget
    <2>5. ASSUME NEW weights \in WeightChoices, SetWeights(weights)
          PROVE  \E value : SetControl(value) /\ value \in Control
      <3>1. [control EXCEPT !.weights = weights] \in Control
        BY <1>1, EnvironmentAssumption DEF Control
      <3> QED BY <2>5, <3>1 DEF SetWeights
    <2>6. ASSUME NEW enabled \in LearningChoices, SetLearning(enabled)
          PROVE  \E value : SetControl(value) /\ value \in Control
      <3>1. [control EXCEPT !.learning = enabled] \in Control
        BY <1>1, EnvironmentAssumption DEF Control
      <3> QED BY <2>6, <3>1 DEF SetLearning
    <2>7. ASSUME ClearAlarms
          PROVE  \E value : SetControl(value) /\ value \in Control
      <3>1. [control EXCEPT !.alarmEpoch = control.alarmEpoch + 1] \in Control
        BY <1>1 DEF Control
      <3> QED BY <2>7, <3>1 DEF ClearAlarms
    <2> QED BY <2>1, <2>2, <2>3, <2>4, <2>5, <2>6, <2>7 DEF Operator
  <1>3. TypeOK'
    BY <1>2 DEF SetControl, policyState, RoutingInv, TypeOK
  <1>4. UNCHANGED kernel
    BY <1>2 DEF SetControl, policyState, kernel
  <1> QED BY <1>3, <1>4, KernelUnchanged DEF RoutingInv

LEMMA ReceiptInv ==
    ASSUME RoutingInv, NEW s \in Sessions, NEW m \in Models, NEW k \in Kinds,
           NEW bill \in Bills, Receipt(s, m, k, bill)
    PROVE  RoutingInv'
  <1>1. real \in [Sessions -> Spend] /\ bill \in Nat
    BY EnvironmentAssumption DEF RoutingInv, TypeOK
  <1>2. NoSpend \in Spend /\ [x \in Sessions |-> NoSpend] \in [Sessions -> Spend]
    BY DEF NoSpend, Spend
  <1>3. [[x \in Sessions |-> NoSpend] EXCEPT ![s][m][k] = bill] \in [Sessions -> Spend]
    BY <1>1, <1>2 DEF Spend
  <1>4. [real EXCEPT ![s][m][k] = real[s][m][k] + bill] \in [Sessions -> Spend]
    BY <1>1 DEF Spend
  <1>5. real' \in [Sessions -> Spend]
    BY <1>3, <1>4 DEF Receipt
  <1>6. TypeOK' /\ UNCHANGED kernel
    BY <1>5 DEF Receipt, policyState, kernel, RoutingInv, TypeOK
  <1> QED BY <1>6, KernelUnchanged DEF RoutingInv

LEMMA RestartInv ==
    ASSUME RoutingInv, Restart
    PROVE  RoutingInv'
  <1>1. NoRecord \in SessionRecord /\ NoAlarm \in Alarm /\ NoSpend \in Spend
    BY DEF NoRecord, SessionRecord, NoAlarm, Alarm, NoSpend, Spend
  <1>2. NoAlarms \in [Models -> [Kinds -> Alarm]] /\ NoLease \in Lease
    BY <1>1 DEF NoAlarms, NoLease, Lease
  <1>3. 0 \in TRUST_FLOOR..TRUST_CEILING
    BY DEF TRUST_FLOOR, TRUST_CEILING
  <1>4. TypeOK'
    BY <1>1, <1>2, <1>3 DEF Restart, RoutingInv, TypeOK
  <1>5. LiveHasKind'
    BY DEF Restart, LiveHasKind, Live, NoRecord
  <1> QED BY <1>4, <1>5 DEF Restart, RoutingInv, RequestKnown

LEMMA SurroundingsInv ==
    ASSUME RoutingInv, Surroundings
    PROVE  RoutingInv'
  <1>1. CASE Tick
    <2>1. TypeOK' /\ UNCHANGED kernel
      BY <1>1 DEF Tick, environment, policyState, kernel, RoutingInv, TypeOK
    <2> QED BY <2>1, KernelUnchanged DEF RoutingInv
  <1>2. CASE Operator
    BY <1>2, OperatorInv
  <1>3. ASSUME NEW m \in FailingModels, UpstreamFailure(m)
        PROVE  RoutingInv'
    <2>1. TypeOK' /\ UNCHANGED kernel
      BY <1>3 DEF UpstreamFailure, policyState, kernel, RoutingInv, TypeOK
    <2> QED BY <2>1, KernelUnchanged DEF RoutingInv
  <1>4. CASE \E s \in Sessions, m \in Models, k \in Kinds, bill \in Bills :
                 Receipt(s, m, k, bill)
    BY <1>4, ReceiptInv
  <1>5. CASE Restart
    BY <1>5, RestartInv
  <1> QED BY <1>1, <1>2, <1>3, <1>4, <1>5 DEF Surroundings

LEMMA InitInv ==
    ASSUME Init
    PROVE  RoutingInv
  <1>1. NoRecord \in SessionRecord /\ NoAlarm \in Alarm /\ NoSpend \in Spend
    BY DEF NoRecord, SessionRecord, NoAlarm, Alarm, NoSpend, Spend
  <1>2. NoAlarms \in [Models -> [Kinds -> Alarm]] /\ NoLease \in Lease
    BY <1>1 DEF NoAlarms, NoLease, Lease
  <1>3. control \in Control
    BY <1>2 DEF Init, Control, DefaultWeights, Weighting
  <1>4. 0 \in TRUST_FLOOR..TRUST_CEILING
    BY DEF TRUST_FLOOR, TRUST_CEILING
  <1>5. TypeOK
    BY <1>1, <1>2, <1>3, <1>4 DEF Init, FreshPolicyState, TypeOK
  <1>6. LiveHasKind
    BY DEF Init, FreshPolicyState, LiveHasKind, Live, NoRecord
  <1> QED BY <1>5, <1>6 DEF Init, RoutingInv, RequestKnown

LEMMA StutterInv ==
    ASSUME RoutingInv, UNCHANGED vars
    PROVE  RoutingInv'
  BY DEF vars, environment, policyState, RoutingInv, TypeOK, RequestKnown,
         LiveHasKind, Live

LEMMA NextInv ==
    ASSUME RoutingInv, [Next]_vars
    PROVE  RoutingInv'
  BY BeginInv, SkipPathInv, ServeInv, SurroundingsInv, StutterInv DEF Next
-----------------------------------------------------------------------------
(* The policy keeps its types in every execution: above all trust stays in  *)
(* [TRUST_FLOOR, TRUST_CEILING] whatever feedback it takes, and every       *)
(* decision names a model with a profile.                                   *)
THEOREM TypeCorrect == Spec => []TypeOK
  <1>1. Init => RoutingInv
    BY InitInv
  <1>2. RoutingInv /\ [Next]_vars => RoutingInv'
    BY NextInv
  <1>3. RoutingInv => TypeOK
    BY DEF RoutingInv
  <1> QED BY <1>1, <1>2, <1>3, PTL DEF Spec
-----------------------------------------------------------------------------
(* What a Serve step decides, one lemma per question the theorems ask.      *)

LEMMA Served ==
    ASSUME NEW winner, NEW reason, NEW fallback, Commit(winner, reason, fallback)
    PROVE  /\ decision'.session = request.session
           /\ decision'.sig = Sig
           /\ decision'.winner = winner
           /\ decision'.reason = reason
           /\ decision'.excluded = Excluded
           /\ decision'.fallback = fallback
           /\ sessions' = [sessions EXCEPT ![request.session] = NextRecord(winner, reason)]
  BY DEF Commit

(* A hold or a swap starts from a held model that may be held.              *)
LEMMA HoldChoice ==
    ASSUME Serve
    PROVE  /\ decision'.reason \in PinHolds => Holdable /\ decision'.winner = Prev.model
           /\ decision'.reason = "pin-swap" => LoyaltyPin
           /\ decision'.reason = "pinned-directive" => UseTarget # NoModel
  <1>1. CASE ServeLease
    <2>1. decision'.reason = "lease"
      BY <1>1, Served DEF ServeLease
    <2> QED BY <2>1 DEF PinHolds
  <1>2. CASE ServeDirective
    <2>1. decision'.reason = "pinned-directive" /\ UseTarget # NoModel
      BY <1>2, Served DEF ServeDirective
    <2> QED BY <2>1 DEF PinHolds
  <1>3. CASE ServeGrace
    <2>1. decision'.reason = "pinned-grace" /\ decision'.winner = Prev.model /\ Holdable
      BY <1>3, Served DEF ServeGrace, GracePin
    <2> QED BY <2>1 DEF PinHolds
  <1>4. CASE ServeLoyal
    <2>1. decision'.reason = "pinned-loyalty" /\ decision'.winner = Prev.model /\ Holdable
      BY <1>4, Served DEF ServeLoyal, LoyaltyPin
    <2> QED BY <2>1
  <1>5. CASE ServeSwap
    <2>1. decision'.reason = "pin-swap" /\ LoyaltyPin
      BY <1>5, Served DEF ServeSwap
    <2> QED BY <2>1 DEF PinHolds
  <1>6. CASE ServeUnscored
    <2>1. decision'.reason = "fresh"
      BY <1>6, Served DEF ServeUnscored
    <2> QED BY <2>1 DEF PinHolds
  <1>7. CASE ServeDemoted
    <2>1. decision'.reason = DemotionReason
      BY <1>7, Served DEF ServeDemoted
    <2> QED BY <2>1 DEF PinHolds, DemotionReason
  <1>8. CASE ServeFresh
    <2>1. decision'.reason \in {"cascade-escalation", "fresh"}
      BY <1>8, Served DEF ServeFresh
    <2> QED BY <2>1 DEF PinHolds
  <1> QED
    BY <1>1, <1>2, <1>3, <1>4, <1>5, <1>6, <1>7, <1>8 DEF Serve

(* A model that does not fit is chosen only when no fitting one is left.    *)
LEMMA ContendFits ==
    ASSUME NEW learned, NEW winner \in Contend(learned), ~Fits(Sig, winner)
    PROVE  \A m \in Fleet \ Excluded : ~Fits(Sig, m)
  <1>1. \A m \in Pool : ~Fits(Sig, m)
    BY DEF Contend, Decide, Scored, Capable, Cheapest
  <1> QED BY <1>1 DEF Pool

LEMMA DemotionFits ==
    ASSUME NEW winner \in IF DemotionPool(Sig, Fleet, Excluded) = {} THEN {FirstInFleet}
                          ELSE Cheapest(DemotionPool(Sig, Fleet, Excluded))
    PROVE  /\ ~Fits(Sig, winner) => \A m \in Fleet \ Excluded : ~Fits(Sig, m)
           /\ winner \in Excluded => \A m \in Fleet \ Excluded : ~Fits(Sig, m)
  BY FleetAssumption DEF DemotionPool, Cheapest

LEMMA GateChoice ==
    ASSUME Serve, ~Fits(decision'.sig, decision'.winner)
    PROVE  \A m \in Fleet \ decision'.excluded : ~Fits(decision'.sig, m)
  <1>1. CASE ServeLease
    BY <1>1, Served, NoModelAssumption DEF ServeLease, LeaseWins, LeaseModel
  <1>2. CASE ServeDirective
    BY <1>2, Served DEF ServeDirective, UseTarget
  <1>3. CASE ServeGrace
    BY <1>3, Served DEF ServeGrace, GracePin, Holdable
  <1>4. CASE ServeLoyal
    BY <1>4, Served DEF ServeLoyal, LoyaltyPin, Holdable
  <1>5. CASE ServeSwap
    BY <1>5, Served, ContendFits DEF ServeSwap
  <1>6. CASE ServeUnscored
    BY <1>6, Served, ContendFits DEF ServeUnscored
  <1>7. CASE ServeDemoted
    <2> DEFINE pool == DemotionPool(Sig, Fleet, Excluded)
               choices == IF pool = {} THEN {FirstInFleet} ELSE Cheapest(pool)
               none == \A m \in Fleet \ Excluded : ~Fits(Sig, m)
    <2>1. PICK winner \in choices : Commit(winner, DemotionReason, none)
      BY <1>7 DEF ServeDemoted
    <2>2. ~Fits(Sig, winner) => none
      BY <2>1, DemotionFits
    <2> HIDE DEF choices
    <2> QED BY <2>1, <2>2, Served
  <1>8. CASE ServeFresh
    BY <1>8, Served, ContendFits DEF ServeFresh
  <1> QED
    BY <1>1, <1>2, <1>3, <1>4, <1>5, <1>6, <1>7, <1>8 DEF Serve

LEMMA CascadeChoice ==
    ASSUME Serve, decision'.winner \in decision'.excluded
    PROVE  decision'.reason \in {"lease", "pinned-directive"} \/ decision'.fallback
  <1>1. CASE ServeLease
    BY <1>1, Served DEF ServeLease
  <1>2. CASE ServeDirective
    BY <1>2, Served DEF ServeDirective
  <1>3. CASE ServeGrace
    BY <1>3, Served DEF ServeGrace, GracePin, Holdable, PinBroken
  <1>4. CASE ServeLoyal
    BY <1>4, Served DEF ServeLoyal, LoyaltyPin, Holdable, PinBroken
  <1>9. LoyaltyPin => Pool \cap Excluded = {}
    BY DEF LoyaltyPin, Holdable, PinBroken, Pool
  <1>5. CASE ServeSwap
    <2>1. PICK table \in LearnedTables :
              \E challenger \in Contend(LearnedNow(table)) : Commit(challenger, "pin-swap", FALSE)
      BY <1>5 DEF ServeSwap
    <2>2. PICK challenger \in Contend(LearnedNow(table)) : Commit(challenger, "pin-swap", FALSE)
      BY <2>1
    <2>3. challenger \notin Excluded
      BY <1>5, <1>9, ContendInPool DEF ServeSwap
    <2> QED BY <2>2, <2>3, Served
  <1>6. CASE ServeUnscored
    <2>1. PICK table \in LearnedTables :
              \E challenger \in Contend(LearnedNow(table)) : Commit(challenger, "fresh", FALSE)
      BY <1>6 DEF ServeUnscored
    <2>2. PICK challenger \in Contend(LearnedNow(table)) : Commit(challenger, "fresh", FALSE)
      BY <2>1
    <2>3. challenger \notin Excluded
      BY <1>6, <1>9, ContendInPool DEF ServeUnscored
    <2> QED BY <2>2, <2>3, Served
  <1>7. CASE ServeDemoted
    <2> DEFINE pool == DemotionPool(Sig, Fleet, Excluded)
               choices == IF pool = {} THEN {FirstInFleet} ELSE Cheapest(pool)
               none == \A m \in Fleet \ Excluded : ~Fits(Sig, m)
    <2>1. PICK winner \in choices : Commit(winner, DemotionReason, none)
      BY <1>7 DEF ServeDemoted
    <2>2. winner \in Excluded => none
      BY <2>1, DemotionFits
    <2> HIDE DEF choices, none
    <2> QED BY <2>1, <2>2, Served
  <1>8. CASE ServeFresh
    <2> DEFINE fallback == Fleet \subseteq Excluded
               reason == IF Excluded # {} /\ ~fallback
                         THEN "cascade-escalation" ELSE "fresh"
    <2>1. PICK table \in LearnedTables :
              \E winner \in Contend(LearnedNow(table)) : Commit(winner, reason, fallback)
      BY <1>8 DEF ServeFresh
    <2>2. PICK winner \in Contend(LearnedNow(table)) : Commit(winner, reason, fallback)
      BY <2>1
    <2>3. winner \in Excluded => fallback
      BY <2>2, ContendInPool DEF Pool
    <2> HIDE DEF reason, fallback
    <2> QED BY <2>2, <2>3, Served
  <1> QED
    BY <1>1, <1>2, <1>3, <1>4, <1>5, <1>6, <1>7, <1>8 DEF Serve

(* Past a spend guard only a lease or [[use:]] escapes the cheapest model.  *)
LEMMA StopLossChoice ==
    ASSUME Serve, StopLoss,
           decision'.reason \notin {"lease", "pinned-directive"},
           NEW m \in Fleet \ Excluded, Fits(Sig, m), Cap[m][Sig.kind] >= BaseBar[Sig.kind]
    PROVE  Blended(decision'.winner) <= Blended(m)
  <1>1. ServeDemoted
    BY Served DEF Serve, ServeLease, ServeDirective, ServeGrace, ServeLoyal,
                  ServeSwap, ServeUnscored, ServeFresh, PinSurvives
  <1>2. m \in DemotionPool(Sig, Fleet, Excluded)
    BY DEF DemotionPool
  <1>3. decision'.winner \in Cheapest(DemotionPool(Sig, Fleet, Excluded))
    BY <1>1, <1>2, Served DEF ServeDemoted
  <1> QED BY <1>2, <1>3 DEF Cheapest
-----------------------------------------------------------------------------
(* The inductive invariant behind the history properties: for a live        *)
(* session, a run of holds is shorter than the record's turn count, a swap  *)
(* and the turn count restart together, and the record's spend is what the  *)
(* decisions were estimated to cost.                                        *)
Accounted(s) ==
    /\ heldRun[s] < sessions[s].turns
    /\ Premium(sessions[s].model) => heldRun[s] <= PIN_PREMIUM_CEIL
    /\ sinceSwap[s] # 0 => sinceSwap[s] = sessions[s].turns
    /\ paid[s] = sessions[s].spend

Accounts ==
    \A s \in Sessions : IF Live(s) THEN Accounted(s) ELSE sessions[s] = NoRecord

HistoryType ==
    /\ heldRun \in [Sessions -> Nat]
    /\ sinceSwap \in [Sessions -> Nat]
    /\ paid \in [Sessions -> Nat]

HistoryInv == RoutingInv /\ HistoryType /\ Accounts /\ GatesHold /\ CascadeRespected

(* A step that decides nothing drops records or leaves them alone.          *)
LEMMA IdleKeeps ==
    ASSUME NEW s \in Sessions,
           \/ \E t \in Sessions, sig \in Signatures : Begin(t, sig)
           \/ SkipPath
           \/ Surroundings
           \/ UNCHANGED vars
    PROVE  sessions'[s] = sessions[s] \/ sessions'[s] = NoRecord
  <1>1. ASSUME NEW kept, NEW swept, Prune(kept, swept)
        PROVE  sessions'[s] = sessions[s] \/ sessions'[s] = NoRecord
    BY <1>1 DEF Prune
  <1>2. CASE \E t \in Sessions, sig \in Signatures : Begin(t, sig)
    BY <1>1, <1>2 DEF Begin
  <1>3. CASE SkipPath
    BY <1>1, <1>3 DEF SkipPath
  <1>4. CASE Surroundings
    <2>1. CASE Tick
      BY <2>1 DEF Tick, policyState
    <2>2. CASE Operator
      BY <2>2 DEF Operator, SetLease, ClearLease, SetBudget, ClearBudget, SetWeights,
                  SetLearning, ClearAlarms, SetControl, policyState
    <2>3. CASE \E m \in FailingModels : UpstreamFailure(m)
      BY <2>3 DEF UpstreamFailure, policyState
    <2>4. CASE \E t \in Sessions, m \in Models, k \in Kinds, bill \in Bills :
                   Receipt(t, m, k, bill)
      BY <2>4 DEF Receipt, policyState
    <2>5. CASE Restart
      BY <2>5 DEF Restart
    <2> QED BY <1>4, <2>1, <2>2, <2>3, <2>4, <2>5 DEF Surroundings
  <1>5. CASE UNCHANGED vars
    BY <1>5 DEF vars, policyState
  <1> QED BY <1>2, <1>3, <1>4, <1>5

LEMMA IdleInv ==
    ASSUME HistoryInv, HIdle \/ UNCHANGED hvars
    PROVE  HistoryInv'
  <1>1. RoutingInv'
    BY NextInv DEF HistoryInv, HIdle, Next, hvars
  <1>2. UNCHANGED history
    BY DEF HIdle, hvars
  <1>3. \A s \in Sessions : sessions'[s] = sessions[s] \/ sessions'[s] = NoRecord
    BY IdleKeeps DEF HIdle, hvars
  <1>4. HistoryType'
    BY <1>2 DEF HistoryInv, HistoryType, history
  <1>5. Accounts'
    BY <1>2, <1>3 DEF HistoryInv, Accounts, Accounted, history, Live, NoRecord
  <1>6. decision' = decision
    <2>1. CASE HIdle
      BY <2>1 DEF HIdle, Begin, SkipPath, Surroundings, Tick, Operator, SetLease,
                  ClearLease, SetBudget, ClearBudget, SetWeights, SetLearning,
                  ClearAlarms, SetControl, UpstreamFailure, Receipt, Restart
    <2>2. CASE UNCHANGED hvars
      BY <2>2 DEF hvars, vars
    <2> QED BY <2>1, <2>2
  <1>7. GatesHold' /\ CascadeRespected'
    BY <1>6 DEF HistoryInv, GatesHold, CascadeRespected, Decided, Steered
  <1> QED BY <1>1, <1>4, <1>5, <1>7 DEF HistoryInv

(* The account of the session being served.                                 *)
LEMMA ServedAccount ==
    ASSUME HistoryInv, HServe, NEW s \in Sessions, s = request.session
    PROVE  Accounted(s)' /\ HistoryType'
  <1>1. request # NoRequest /\ RoutingInv
    BY ServeCommits DEF HServe, HistoryInv
  <1>2. PICK winner \in Fleet, reason \in Reasons, fallback \in BOOLEAN :
            Commit(winner, reason, fallback)
    BY ServeCommits DEF HServe
  <1> DEFINE cost == EstimateCost(Sig, winner)
  <1>3. Prev \in SessionRecord /\ Prev = sessions[s]
    BY <1>1, RequestType DEF Prev
  <1>4. winner \in Models
    BY FleetAssumption
  <1>5. cost \in Nat
    BY <1>1, <1>4, SigType, EstimateNat
  <1>6. Record(s, reason, cost)
    BY <1>2, Served DEF HServe
  <1>7. sessions' = [sessions EXCEPT ![s] = NextRecord(winner, reason)]
    BY <1>2, Served
  <1>8. sessions'[s] = NextRecord(winner, reason)
    BY <1>1, <1>3, <1>7 DEF RoutingInv, TypeOK
  <1>9. HistoryType
    BY DEF HistoryInv
  <1> HIDE DEF cost
  <1>10. HistoryType'
    BY <1>3, <1>5, <1>6, <1>9 DEF Record, HistoryType
  <1>11. Prev.turns \in Nat /\ Prev.spend \in Nat
    BY <1>3 DEF SessionRecord
  <1>12. /\ sessions'[s].model = winner
         /\ sessions'[s].turns = IF reason = "pin-swap" THEN 1 ELSE Prev.turns + 1
         /\ sessions'[s].spend = Prev.spend + cost
    BY <1>8 DEF NextRecord, cost
  <1>13. /\ heldRun'[s] = IF reason \in PinHolds THEN heldRun[s] + 1 ELSE 0
         /\ sinceSwap'[s] = IF reason = "pin-swap" THEN 1
                            ELSE IF Live(s) /\ sinceSwap[s] # 0
                                 THEN sinceSwap[s] + 1 ELSE 0
         /\ paid'[s] = (IF Live(s) THEN paid[s] ELSE 0) + cost
    BY <1>3, <1>6, <1>9 DEF Record, HistoryType
  <1>14. IF Live(s) THEN Accounted(s) ELSE Prev = NoRecord
    BY <1>3 DEF HistoryInv, Accounts
  <1>15. /\ heldRun[s] \in Nat /\ sinceSwap[s] \in Nat /\ paid[s] \in Nat
         /\ PIN_PREMIUM_CEIL \in Nat
    BY <1>3, <1>9, TuningAssumption DEF HistoryType
  <1>16. paid'[s] = sessions'[s].spend
    <2>1. CASE Live(s)
      BY <1>3, <1>12, <1>13, <1>14, <2>1 DEF Accounted
    <2>2. CASE ~Live(s)
      BY <1>5, <1>12, <1>13, <1>14, <2>2 DEF NoRecord
    <2> QED BY <2>1, <2>2
  <1>17. sinceSwap'[s] # 0 => sinceSwap'[s] = sessions'[s].turns
    BY <1>3, <1>11, <1>12, <1>13, <1>14, <1>15 DEF Accounted
  <1>18. /\ heldRun'[s] < sessions'[s].turns
         /\ Premium(winner) => heldRun'[s] <= PIN_PREMIUM_CEIL
    <2>1. CASE reason \in PinHolds
      <3>1. Holdable /\ winner = Prev.model
        BY <1>2, <2>1, Served, HoldChoice DEF HServe
      <3>2. Live(s)
        BY <1>3, <1>4, <3>1, FleetModelIsLive
      <3>3. heldRun[s] < Prev.turns
        BY <1>3, <1>14, <3>2 DEF Accounted
      <3>4. reason # "pin-swap"
        BY <2>1 DEF PinHolds
      <3>5. Premium(winner) => Prev.turns <= PIN_PREMIUM_CEIL
        BY <1>11, <1>15, <3>1 DEF Holdable, PinBroken
      <3> QED BY <1>11, <1>12, <1>13, <1>15, <2>1, <3>3, <3>4, <3>5
    <2>2. CASE reason \notin PinHolds
      BY <1>11, <1>12, <1>13, <1>15, <2>2
    <2> QED BY <2>1, <2>2
  <1>19. Accounted(s)'
    BY <1>12, <1>16, <1>17, <1>18 DEF Accounted
  <1> QED BY <1>10, <1>19

LEMMA ServedInv ==
    ASSUME HistoryInv, HServe
    PROVE  HistoryInv'
  <1>1. RoutingInv' /\ request # NoRequest /\ RoutingInv
    BY ServeInv, ServeCommits DEF HServe, HistoryInv
  <1>2. PICK s \in Sessions : s = request.session
    BY <1>1, RequestType
  <1>3. PICK winner \in Fleet, reason \in Reasons, fallback \in BOOLEAN :
            Commit(winner, reason, fallback)
    BY ServeCommits DEF HServe
  <1>4. Accounted(s)' /\ HistoryType'
    BY <1>2, ServedAccount
  <1>5. ASSUME NEW x \in Sessions, x # s
        PROVE  IF Live(x)' THEN Accounted(x)' ELSE sessions'[x] = NoRecord
    <2>1. sessions'[x] = sessions[x]
      BY <1>1, <1>2, <1>3, <1>5, Served DEF RoutingInv, TypeOK
    <2>2. PICK why, cost : Record(s, why, cost)
      BY <1>2 DEF HServe
    <2>3. heldRun'[x] = heldRun[x] /\ sinceSwap'[x] = sinceSwap[x] /\ paid'[x] = paid[x]
      BY <1>5, <2>2 DEF Record, HistoryInv, HistoryType
    <2>4. IF Live(x) THEN Accounted(x) ELSE sessions[x] = NoRecord
      BY DEF HistoryInv, Accounts
    <2> QED BY <2>1, <2>3, <2>4 DEF Live, Accounted
  <1>6. Live(s)'
    <2>1. sessions'[s] = NextRecord(winner, reason)
      BY <1>1, <1>2, <1>3, Served DEF RoutingInv, TypeOK
    <2> QED BY <2>1, FleetAssumption, NoModelAssumption DEF Live, NextRecord
  <1>7. Accounts'
    BY <1>4, <1>5, <1>6 DEF Accounts
  <1>8. GatesHold'
    BY GateChoice DEF HServe, GatesHold
  <1>9. CascadeRespected'
    BY CascadeChoice DEF HServe, CascadeRespected, Steered
  <1> QED BY <1>1, <1>4, <1>7, <1>8, <1>9 DEF HistoryInv

LEMMA HistoryInit ==
    ASSUME HInit
    PROVE  HistoryInv
  <1>1. RoutingInv /\ Init
    BY InitInv DEF HInit
  <1>2. HistoryType
    BY DEF HInit, HistoryType
  <1>3. Accounts
    BY <1>1 DEF Init, FreshPolicyState, Accounts, Live, NoRecord
  <1>4. GatesHold /\ CascadeRespected
    BY <1>1 DEF Init, GatesHold, CascadeRespected, Decided
  <1> QED BY <1>1, <1>2, <1>3, <1>4 DEF HistoryInv

LEMMA HistoryNext ==
    ASSUME HistoryInv, [HNext]_hvars
    PROVE  HistoryInv'
  BY ServedInv, IdleInv DEF HNext

THEOREM HistoryCorrect == HSpec => []HistoryInv
  BY HistoryInit, HistoryNext, PTL DEF HSpec
-----------------------------------------------------------------------------
(* A model that cannot serve a request is chosen only when no fleet model   *)
(* outside the failure window can.                                          *)
THEOREM GatesAlwaysHold == HSpec => []GatesHold
  BY HistoryCorrect, PTL DEF HistoryInv

(* A model in its failure window serves only by a lease, a directive or a   *)
(* logged fallback.                                                         *)
THEOREM CascadeAlwaysRespected == HSpec => []CascadeRespected
  BY HistoryCorrect, PTL DEF HistoryInv

(* Stickiness holds a premium model for at most PIN_PREMIUM_CEIL turns in a *)
(* row, whatever the requests, the weights and the learned tables.          *)
THEOREM PremiumRunAlwaysBounded == HSpec => []PremiumRunBounded
  <1>1. HistoryInv => PremiumRunBounded
    BY DEF HistoryInv, Accounts, Accounted, PremiumRunBounded
  <1> QED BY <1>1, HistoryCorrect, PTL

(* Two swaps of a session are more than PIN_GRACE_TURNS turns apart.        *)
THEOREM SwapsAreSpaced == HSpec => SwapSpacing
  <1> DEFINE Spaced ==
          HServe /\ decision'.reason = "pin-swap" =>
              LET s == request.session
              IN  sinceSwap[s] # 0 => sinceSwap[s] > PIN_GRACE_TURNS
  <1>1. HistoryInv /\ [HNext]_hvars => [Spaced]_hvars
    <2> SUFFICES ASSUME HistoryInv, HServe, decision'.reason = "pin-swap",
                        sinceSwap[request.session] # 0
                 PROVE  sinceSwap[request.session] > PIN_GRACE_TURNS
      OBVIOUS
    <2> DEFINE s == request.session
    <2>1. LoyaltyPin
      BY HoldChoice DEF HServe
    <2>2. request # NoRequest /\ RoutingInv
      BY ServeCommits DEF HServe, HistoryInv
    <2>3. s \in Sessions /\ Prev = sessions[s]
      BY <2>2, RequestType DEF Prev
    <2>4. Live(s)
      BY <2>1, <2>3, FleetAssumption, FleetModelIsLive DEF LoyaltyPin, Holdable
    <2>5. sinceSwap[s] = Prev.turns
      BY <2>3, <2>4 DEF HistoryInv, Accounts, Accounted
    <2> QED BY <2>1, <2>5 DEF LoyaltyPin
  <1> QED BY <1>1, HistoryCorrect, PTL DEF HSpec, SwapSpacing

(* A session whose decisions were estimated to cost the cap or more is      *)
(* served by the cheapest capable model on every turn without a directive,  *)
(* [[use:]] or a lease.                                                     *)
THEOREM CapAlwaysForcesCheapest == HSpec => CapForcesCheapest
  <1> DEFINE Forced ==
          HServe =>
              LET s == request.session
                  turn == decision'.sig
                  rivals == {m \in Fleet \ decision'.excluded :
                                Fits(turn, m) /\ Cap[m][turn.kind] >= BaseBar[turn.kind]}
              IN  /\ Live(s) /\ control.budget # 0 /\ paid[s] >= control.budget
                  /\ ~Explicit(turn)
                  /\ decision'.reason # "lease"
                  => \A m \in rivals : Blended(decision'.winner) <= Blended(m)
  <1>1. HistoryInv /\ [HNext]_hvars => [Forced]_hvars
    <2> SUFFICES ASSUME HistoryInv, HServe, Live(request.session),
                        control.budget # 0, paid[request.session] >= control.budget,
                        ~Explicit(decision'.sig), decision'.reason # "lease",
                        NEW m \in Fleet \ decision'.excluded,
                        Fits(decision'.sig, m),
                        Cap[m][decision'.sig.kind] >= BaseBar[decision'.sig.kind]
                 PROVE  Blended(decision'.winner) <= Blended(m)
      OBVIOUS
    <2>1. request # NoRequest /\ RoutingInv
      BY ServeCommits DEF HServe, HistoryInv
    <2>2. decision'.sig = Sig /\ decision'.excluded = Excluded
      BY ServeCommits, Served DEF HServe
    <2>3. Prev.spend >= control.budget
      BY <2>1, RequestType DEF HistoryInv, Accounts, Accounted, Prev
    <2>4. StopLoss
      BY <2>2, <2>3 DEF StopLoss, Breached
    <2>5. decision'.reason # "pinned-directive"
      <3> SUFFICES ASSUME decision'.reason = "pinned-directive" PROVE FALSE
        OBVIOUS
      <3>1. UseTarget # NoModel
        BY HoldChoice DEF HServe
      <3>2. Sig.use \in Fleet
        BY <3>1 DEF UseTarget
      <3>3. "use" \in Sig.directives
        BY <2>1, <3>2, SigType, SignatureAssumption, FleetAssumption, NoModelAssumption
        DEF RoutingInv, RequestKnown
      <3> QED BY <2>2, <3>3 DEF Explicit
    <2> QED BY <2>2, <2>4, <2>5, StopLossChoice DEF HServe
  <1> QED BY <1>1, HistoryCorrect, PTL DEF HSpec, CapForcesCheapest
-----------------------------------------------------------------------------
(* Some branch of the winner chain always has a model to give.              *)

(* The utility of a model is a number: nothing in it divides by zero.       *)
LEMMA NormalisedIsNumber ==
    ASSUME NEW pool, pool \subseteq Models, NEW score, \A n \in pool : score[n] \in Nat,
           NEW m \in pool
    PROVE  Normalised(score, m, pool) \in Nat
  <1> DEFINE values == {score[n] : n \in pool}
             low == Min(values)
             high == Max(values)
             minus == [n \in pool |-> -score[n]]
  <1>1. IsFiniteSet(pool)
    BY ProfileAssumption, FS_Subset
  <1>2. low \in values /\ \A v \in values : low <= v
    <2>1. PICK n \in pool : \A k \in pool : minus[k] <= minus[n]
      <3>1. \A n \in pool : minus[n] \in Int
        OBVIOUS
      <3> HIDE DEF minus
      <3> QED BY <1>1, <3>1, LargestExists
    <2>2. \A k \in pool : score[n] <= score[k]
      BY <2>1
    <2>3. score[n] \in values /\ \A v \in values : score[n] <= v
      BY <2>2
    <2> HIDE DEF values
    <2> QED BY <2>3 DEF Min
  <1>3. high \in values /\ \A v \in values : high >= v
    <2>1. PICK n \in pool : \A k \in pool : score[k] <= score[n]
      BY <1>1, LargestExists
    <2>2. score[n] \in values /\ \A v \in values : score[n] >= v
      BY <2>1
    <2> HIDE DEF values
    <2> QED BY <2>2 DEF Max
  <1>4. low \in Nat /\ high \in Nat /\ score[m] \in Nat /\ low <= score[m] /\ score[m] <= high
    BY <1>2, <1>3
  <1> HIDE DEF low, high
  <1>5. CASE high = low
    BY <1>5 DEF Normalised, low, high
  <1>6. CASE high # low
    <2> DEFINE a == 1000 * (score[m] - low)
               b == high - low
    <2>1. a \in Nat /\ b \in Nat \ {0}
      BY <1>4, <1>6
    <2> HIDE DEF a, b
    <2>2. a \div b \in Nat
      BY <2>1, QuotientNat
    <2> QED BY <1>6, <2>2 DEF Normalised, low, high, a, b
  <1> QED BY <1>5, <1>6

LEMMA ProductInt ==
    ASSUME NEW a \in Int, NEW b \in Int
    PROVE  a * b \in Int
  OBVIOUS

LEMMA UtilityIsNumber ==
    ASSUME NEW sig \in Signature, NEW pool, pool \subseteq Models, NEW m \in pool,
           NEW scale, \A n \in Models : scale[n] \in Int,
           NEW weights \in Weighting, NEW learned \in Learned
    PROVE  Utility(sig, m, pool, scale, weights, learned) \in Int
  <1> DEFINE cost == [n \in pool |-> Blended(n)]
             c == Normalised(cost, m, pool)
             l == Normalised(Latency, m, pool)
             h == Headroom(sig, m)
             k == Cap[m][sig.kind]
  <1>1. m \in Models /\ sig.kind \in Kinds /\ sig.tokens \in Nat
    BY DEF Signature
  <1>2. /\ weights.cost \in Int /\ weights.trust \in Int /\ weights.headroom \in Int
        /\ weights.latency \in Int /\ learned.laya \in Int
    BY DEF Weighting, Learned
  <1>3. c \in Int
    <2>1. \A n \in pool : cost[n] \in Nat
      BY ProfileAssumption DEF Blended
    <2> HIDE DEF cost
    <2>2. c \in Nat
      BY <2>1, NormalisedIsNumber
    <2> QED BY <2>2
  <1>4. l \in Int
    <2>1. \A n \in pool : Latency[n] \in Nat
      BY ProfileAssumption
    <2>2. l \in Nat
      BY <2>1, NormalisedIsNumber
    <2> QED BY <2>2
  <1>5. h \in Int
    <2> DEFINE w == AtLeast(Window[m], 1)
               t == 1000 * sig.tokens
               q == t \div w
    <2>1. w \in Nat \ {0} /\ t \in Nat
      BY <1>1, ProfileAssumption DEF AtLeast
    <2> HIDE DEF w, t
    <2>2. q \in Nat
      BY <2>1, QuotientNat
    <2> HIDE DEF q
    <2>3. AtMost(1000, AtLeast(0, 1000 - q)) \in Int
      BY <2>2 DEF AtMost, AtLeast
    <2> QED BY <2>3 DEF Headroom, q, w, t
  <1>6. k \in Int
    BY <1>1, ProfileAssumption
  <1>7. scale[m] \in Int
    BY <1>1
  <1> HIDE DEF c, l, h, k
  <1>8. /\ weights.trust * scale[m] \in Int /\ weights.headroom * h \in Int
        /\ weights.cost * c \in Int /\ weights.latency * l \in Int
    BY <1>2, <1>3, <1>4, <1>5, <1>7, ProductInt
  <1> DEFINE x == weights.trust * scale[m]
             y == weights.headroom * h
             z == weights.cost * c
             u == weights.latency * l
  <1> HIDE DEF x, y, z, u
  <1>9. x \in Int /\ y \in Int /\ z \in Int /\ u \in Int
    BY <1>8 DEF x, y, z, u
  <1>10. 100 * k + x + y - z - u + learned.laya \in Int
    BY <1>2, <1>6, <1>9
  <1> QED BY <1>10 DEF Utility, x, y, z, u, c, l, h, k

(* The argmaxes of decide: among a finite set of models one is of the best  *)
(* utility, one is closest by window, one is cheapest.                      *)
LEMMA CheapestExists ==
    ASSUME NEW pool, pool \subseteq Models, pool # {}
    PROVE  \E m \in pool : \A n \in pool : Blended(m) <= Blended(n)
  <1> DEFINE minus == [n \in pool |-> -Blended(n)]
  <1>1. IsFiniteSet(pool)
    BY ProfileAssumption, FS_Subset
  <1>2. \A n \in pool : Blended(n) \in Nat /\ minus[n] \in Int
    BY ProfileAssumption DEF Blended
  <1>3. PICK m \in pool : \A n \in pool : minus[n] <= minus[m]
    <2> HIDE DEF minus
    <2> QED BY <1>1, <1>2, LargestExists
  <1>4. \A n \in pool : minus[n] = -Blended(n)
    OBVIOUS
  <1> HIDE DEF minus
  <1> QED BY <1>2, <1>3, <1>4

Utilities(sig, scored, scale, weights, learned) ==
    {Utility(sig, n, scored, scale, weights, learned) : n \in scored}

LEMMA BestExists ==
    ASSUME NEW sig \in Signature, NEW scored, scored \subseteq Models, scored # {},
           NEW scale, \A n \in Models : scale[n] \in Int,
           NEW weights \in Weighting, NEW learned \in Learned
    PROVE  \E m \in scored :
               Utility(sig, m, scored, scale, weights, learned) =
                   Max(Utilities(sig, scored, scale, weights, learned))
  <1> DEFINE utility == [n \in scored |-> Utility(sig, n, scored, scale, weights, learned)]
             values == Utilities(sig, scored, scale, weights, learned)
  <1>1. IsFiniteSet(scored)
    BY ProfileAssumption, FS_Subset
  <1>2. \A n \in scored : utility[n] \in Int
    BY UtilityIsNumber
  <1>3. \A n \in scored : utility[n] = Utility(sig, n, scored, scale, weights, learned)
    OBVIOUS
  <1>4. values = {utility[n] : n \in scored}
    BY DEF Utilities
  <1> HIDE DEF utility, values
  <1>5. PICK m \in scored : \A n \in scored : utility[n] <= utility[m]
    BY <1>1, <1>2, LargestExists
  <1>6. \A x \in values : utility[m] >= x
    BY <1>2, <1>4, <1>5
  <1>7. Max(values) \in values
    BY <1>4, <1>6 DEF Max
  <1> QED BY <1>3, <1>4, <1>7 DEF values

LEMMA ClosestExists ==
    ASSUME NEW sig, NEW pool, pool \subseteq Models, pool # {}
    PROVE  Closest(sig, pool) # {}
  <1> DEFINE seeing == {m \in pool : Vision[m]}
             liked == IF sig.image /\ seeing # {} THEN seeing ELSE pool
  <1>1. IsFiniteSet(liked) /\ liked # {} /\ liked \subseteq pool
    BY ProfileAssumption, FS_Subset
  <1>2. \A n \in pool : Window[n] \in Nat /\ Vision[n] \in BOOLEAN
    BY ProfileAssumption
  <1>3. PICK m \in liked : \A n \in liked : Window[n] <= Window[m]
    <2> HIDE DEF liked
    <2>1. \A n \in liked : Window[n] \in Int
      BY <1>1, <1>2
    <2> QED BY <1>1, <2>1, LargestExists
  <1>4. ASSUME NEW n \in pool PROVE ~Closer(sig, n, m)
    <2>1. CASE n \in liked
      <3>1. Window[n] <= Window[m]
        BY <1>3, <2>1
      <3>2. ~(Window[n] > Window[m])
        BY <1>1, <1>2, <3>1
      <3>3. ~(sig.image /\ Vision[n] /\ ~Vision[m])
        BY <2>1
      <3> QED BY <3>2, <3>3 DEF Closer
    <2>2. CASE n \notin liked
      <3>1. sig.image /\ ~Vision[n] /\ Vision[m]
        BY <2>2
      <3> QED BY <3>1 DEF Closer
    <2> QED BY <2>1, <2>2
  <1> QED BY <1>1, <1>4 DEF Closest

(* Whatever the gates, the failures, the bar and the learned tables say,    *)
(* decide returns a model.                                                  *)
LEMMA DecideDecides ==
    ASSUME NEW sig \in Signature, NEW pool, pool \subseteq Models, pool # {},
           NEW scale, \A n \in Models : scale[n] \in Int,
           NEW weights \in Weighting, NEW learned \in Learned
    PROVE  Decide(sig, pool, scale, weights, learned) # {}
  <1> DEFINE fitting == {m \in pool : Fits(sig, m)}
             scored == Scored(sig, pool, learned)
  <1>1. CASE fitting = {}
    <2>1. Decide(sig, pool, scale, weights, learned) = Closest(sig, pool)
      BY <1>1 DEF Decide
    <2> QED BY <2>1, ClosestExists
  <1>2. CASE fitting # {}
    <2>1. scored \subseteq Models /\ scored # {}
      <3> DEFINE cap == [m \in Models |-> Cap[m][sig.kind]]
                 over == {m \in fitting : Cap[m][sig.kind] >= Bar(sig, learned)}
                 most == {m \in fitting : \A n \in fitting : Cap[n][sig.kind] <= Cap[m][sig.kind]}
      <3>1. scored = IF over # {} THEN over ELSE most
        BY DEF Scored, Capable
      <3>2. sig.kind \in Kinds
        BY DEF Signature
      <3>3. IsFiniteSet(fitting) /\ fitting \subseteq Models
        BY ProfileAssumption, FS_Subset
      <3>4. \A n \in fitting : cap[n] \in Int /\ cap[n] = Cap[n][sig.kind]
        BY <3>2, ProfileAssumption
      <3>5. PICK m \in fitting : \A n \in fitting : cap[n] <= cap[m]
        <4> HIDE DEF cap, fitting
        <4> QED BY <1>2, <3>3, <3>4, LargestExists
      <3>6. m \in most
        BY <3>4, <3>5
      <3> QED BY <3>1, <3>3, <3>6
    <2> DEFINE top == {m \in scored : Utility(sig, m, scored, scale, weights, learned) =
                           Max(Utilities(sig, scored, scale, weights, learned))}
    <2>2. Decide(sig, pool, scale, weights, learned) = Cheapest(top)
      BY <1>2 DEF Decide, Utilities
    <2> HIDE DEF scored
    <2>3. PICK m \in scored : Utility(sig, m, scored, scale, weights, learned) =
                  Max(Utilities(sig, scored, scale, weights, learned))
      BY <2>1, BestExists
    <2>4. m \in top /\ top \subseteq Models
      BY <2>1, <2>3
    <2> HIDE DEF top
    <2> QED BY <2>2, <2>4, CheapestExists DEF Cheapest
  <1> QED BY <1>1, <1>2

LEMMA ContendDecides ==
    ASSUME RoutingInv, request # NoRequest, NEW table \in LearnedTables
    PROVE  Contend(LearnedNow(table)) # {}
  <1> DEFINE learned == LearnedNow(table)
             scale == EffectiveTrust(learned)
  <1>1. table \in Learned
    BY SignatureAssumption
  <1>2. learned \in Learned
    <2> DEFINE none == [k \in Kinds |-> 0]
    <2>1. table.trust \in [Kinds -> [Models -> Int]] /\ none \in [Kinds -> Int]
      BY <1>1 DEF Learned
    <2>2. CASE control.learning
      BY <1>1, <2>2 DEF LearnedNow
    <2>3. CASE ~control.learning
      <3>1. learned = [trust |-> table.trust, bias |-> none, laya |-> 0]
        BY <2>3 DEF LearnedNow, Unlearned
      <3> HIDE DEF learned, none
      <3> QED BY <2>1, <3>1 DEF Learned
    <2> QED BY <2>2, <2>3
  <1>3. Sig \in Signature /\ Sig.kind \in Kinds
    BY SigType DEF Signature
  <1> HIDE DEF learned
  <1>4. \A m \in Models : scale[m] \in Int
    <2>1. ASSUME NEW m \in Models PROVE scale[m] \in Int
      <3> DEFINE a == FedBack[Sig.kind][m]
                 b == learned.trust[Sig.kind][m]
                 x == a + b
      <3>1. TRUST_FLOOR..TRUST_CEILING \subseteq Int
        BY DEF TRUST_FLOOR, TRUST_CEILING
      <3>2. a \in TRUST_FLOOR..TRUST_CEILING
        BY <1>3, FedBackType
      <3>3. b \in Int
        BY <1>2, <1>3 DEF Learned
      <3> HIDE DEF a, b
      <3>4. x \in Int
        BY <3>1, <3>2, <3>3
      <3> HIDE DEF x
      <3>5. Clamp(x, TRUST_FLOOR, TRUST_CEILING) \in Int
        BY <3>1, <3>4, ClampInRange
      <3> QED BY <3>5 DEF EffectiveTrust, x, a, b
    <2> QED BY <2>1
  <1>5. control.weights \in Weighting
    BY DEF RoutingInv, TypeOK, Control
  <1>6. Pool \subseteq Models /\ Pool # {}
    BY FleetAssumption DEF Pool
  <1> HIDE DEF scale
  <1>7. Decide(Sig, Pool, scale, control.weights, learned) # {}
    BY <1>2, <1>3, <1>4, <1>5, <1>6, DecideDecides
  <1> QED BY <1>7 DEF Contend, learned, scale

(* What the winner chain may decide for the request, branch by branch.      *)
Choice(winner, reason, fallback) ==
    \/ /\ LeaseWins
       /\ winner = LeaseModel /\ reason = "lease" /\ fallback = FALSE
    \/ /\ ~LeaseWins /\ UseTarget # NoModel
       /\ winner = UseTarget /\ reason = "pinned-directive" /\ fallback = FALSE
    \/ /\ Unsteered /\ PinSurvives /\ GracePin
       /\ winner = Prev.model /\ reason = "pinned-grace" /\ fallback = FALSE
    \/ /\ Unsteered /\ PinSurvives /\ LoyaltyPin
       /\ fallback = FALSE
       /\ \E table \in LearnedTables :
              LET learned == LearnedNow(table)
                  scored == Scored(Sig, Pool, learned)
              IN  \E best \in Contend(learned) :
                      \/ /\ best = Prev.model \/ (Prev.model \in scored /\ ~Outbid(best, learned))
                         /\ winner = Prev.model /\ reason = "pinned-loyalty"
                      \/ /\ best # Prev.model /\ Prev.model \in scored /\ Outbid(best, learned)
                         /\ winner = best /\ reason = "pin-swap"
                      \/ /\ best # Prev.model /\ Prev.model \notin scored
                         /\ winner = best /\ reason = "fresh"
    \/ /\ Unsteered /\ ~PinSurvives
       /\ StopLoss \/ AlarmBasis # "none"
       /\ LET pool == DemotionPool(Sig, Fleet, Excluded)
          IN  winner \in IF pool = {} THEN {FirstInFleet} ELSE Cheapest(pool)
       /\ reason = DemotionReason
       /\ fallback = \A m \in Fleet \ Excluded : ~Fits(Sig, m)
    \/ /\ Unsteered /\ ~PinSurvives
       /\ ~StopLoss /\ AlarmBasis = "none"
       /\ \E table \in LearnedTables : winner \in Contend(LearnedNow(table))
       /\ fallback = (Fleet \subseteq Excluded)
       /\ reason = IF Excluded # {} /\ ~fallback THEN "cascade-escalation" ELSE "fresh"

(* A Serve step is the commit of such a choice, and nothing else.           *)
LEMMA ServeIsAChoice ==
    Serve <=> /\ request # NoRequest
              /\ \E winner, reason, fallback :
                     Choice(winner, reason, fallback) /\ Commit(winner, reason, fallback)
  <1>1. ASSUME Serve
        PROVE  /\ request # NoRequest
               /\ \E winner, reason, fallback :
                      Choice(winner, reason, fallback) /\ Commit(winner, reason, fallback)
    <2>1. CASE ServeLease
      BY <2>1 DEF ServeLease, Choice
    <2>2. CASE ServeDirective
      BY <2>2 DEF ServeDirective, Choice
    <2>3. CASE ServeGrace
      BY <2>3 DEF ServeGrace, Unsteered, Choice
    <2>4. CASE ServeLoyal
      BY <2>4 DEF ServeLoyal, Unsteered, Choice
    <2>5. CASE ServeSwap
      BY <2>5 DEF ServeSwap, Unsteered, Choice
    <2>6. CASE ServeUnscored
      BY <2>6 DEF ServeUnscored, Unsteered, Choice
    <2>7. CASE ServeDemoted
      BY <2>7 DEF ServeDemoted, Unsteered, Choice
    <2>8. CASE ServeFresh
      BY <2>8 DEF ServeFresh, Unsteered, Choice
    <2> QED BY <1>1, <2>1, <2>2, <2>3, <2>4, <2>5, <2>6, <2>7, <2>8 DEF Serve
  <1>2. ASSUME request # NoRequest, NEW winner, NEW reason, NEW fallback,
               Choice(winner, reason, fallback), Commit(winner, reason, fallback)
        PROVE  Serve
    BY <1>2 DEF Choice, Serve, ServeLease, ServeDirective, ServeGrace, ServeLoyal, ServeSwap,
                ServeUnscored, ServeDemoted, ServeFresh
  <1> QED BY <1>1, <1>2

(* No request is ever left without a decision: in every reachable state in  *)
(* which one was begun, the winner chain has a choice for it, whatever the  *)
(* fleet, the failures, the gates, the spend guards and the learned tables. *)
(* This is the safety half of EveryRequestDecided.                          *)
THEOREM ChoiceAlwaysExists ==
    HSpec => [](request # NoRequest => \E winner, reason, fallback : Choice(winner, reason, fallback))
  <1>1. ASSUME RoutingInv, request # NoRequest
        PROVE  \E winner, reason, fallback : Choice(winner, reason, fallback)
    <2>1. PICK table \in LearnedTables : TRUE
      BY SignatureAssumption
    <2>2. PICK best : best \in Contend(LearnedNow(table))
      BY <1>1, ContendDecides
    <2>3. CASE ~Unsteered
      BY <1>1, <2>3 DEF Unsteered, Choice
    <2>4. CASE Unsteered /\ PinSurvives
      <3>1. CASE GracePin
        BY <2>4, <3>1 DEF Choice
      <3>2. CASE LoyaltyPin
        BY <2>1, <2>2, <2>4, <3>2 DEF Choice
      <3> QED BY <2>4, <3>1, <3>2 DEF PinSurvives
    <2>5. CASE Unsteered /\ ~PinSurvives /\ (StopLoss \/ AlarmBasis # "none")
      <3> DEFINE pool == DemotionPool(Sig, Fleet, Excluded)
                 choices == IF pool = {} THEN {FirstInFleet} ELSE Cheapest(pool)
      <3>1. pool \subseteq Models
        BY DemotionInFleet, FleetAssumption
      <3>2. pool # {} => Cheapest(pool) # {}
        BY <3>1, CheapestExists DEF Cheapest
      <3>3. PICK winner : winner \in choices
        BY <3>2
      <3>4. Choice(winner, DemotionReason, \A m \in Fleet \ Excluded : ~Fits(Sig, m))
        <4> HIDE DEF choices
        <4>1. winner \in choices
          BY <3>3
        <4> QED BY <2>5, <4>1 DEF Choice, choices
      <3> QED BY <3>4
    <2>6. CASE Unsteered /\ ~PinSurvives /\ ~StopLoss /\ AlarmBasis = "none"
      BY <2>1, <2>2, <2>6 DEF Choice
    <2> QED BY <2>3, <2>4, <2>5, <2>6
  <1>2. HistoryInv => RoutingInv
    BY DEF HistoryInv
  <1>3. HistoryInv => (request # NoRequest => \E winner, reason, fallback : Choice(winner, reason, fallback))
    BY <1>1, <1>2
  <1> QED BY <1>3, HistoryCorrect, PTL
=============================================================================
