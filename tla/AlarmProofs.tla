----------------------------- MODULE AlarmProofs -----------------------------
(***************************************************************************)
(* Proofs about AlarmHistory: the receipts alarm is raised only by what    *)
(* the session itself was billed, and after a clear only by what it was    *)
(* billed since, for any sessions, models, bills, thresholds, number of    *)
(* clears and restarts, and wherever a receipt falls within a request.     *)
(***************************************************************************)
EXTENDS AlarmHistory, RoutingProofs

BillType ==
    /\ billed \in [Sessions -> Nat] /\ beganAt \in [Sessions -> Nat]
    /\ wipedAt \in [Sessions -> Nat] /\ witness \subseteq Sessions

(* A view is of the past, and each total is part of the bill.               *)
BillInv ==
    /\ BillType
    /\ \A s \in Sessions :
           /\ beganAt[s] <= billed[s] /\ wipedAt[s] <= billed[s]
           /\ \A m \in Models, k \in Kinds : real[s][m][k] <= billed[s]
    /\ request # NoRequest => \A m \in Models, k \in Kinds :
           /\ request.view[m][k] <= billed[request.session]
           /\ real[request.session][m][k] - request.view[m][k]
                  <= billed[request.session] - beganAt[request.session]

(* For a session that took in the last clear, the totals have grown past    *)
(* the baseline by no more than it was billed since.                        *)
Grown(s, totals) ==
    \A m \in Models, k \in Kinds :
        totals[m][k] - usageBaseline[s][m][k] <= billed[s] - wipedAt[s]

WitnessInv ==
    \A s \in witness :
        /\ Grown(s, real[s])
        /\ request # NoRequest /\ request.session = s => Grown(s, request.view)

AlarmInv == RoutingInv /\ BillInv /\ WitnessInv

LEMMA SpendTypes ==
  ASSUME RoutingInv
  PROVE  /\ \A s \in Sessions, m \in Models, k \in Kinds :
                real[s][m][k] \in Nat /\ usageBaseline[s][m][k] \in Nat
         /\ request # NoRequest =>
                /\ request.session \in Sessions /\ request.view \in Spend
                /\ \A m \in Models, k \in Kinds : request.view[m][k] \in Nat
<1>1. real \in [Sessions -> Spend] /\ usageBaseline \in [Sessions -> Spend]
  BY DEF RoutingInv, TypeOK
<1>2. request # NoRequest => request.session \in Sessions /\ request.view \in Spend
  BY RequestType
<1> QED BY <1>1, <1>2 DEF Spend

(* Pruning keeps the baselines of the sessions it keeps.                    *)
LEMMA PruneBaselines ==
  ASSUME NEW kept, NEW swept, Prune(Unexpired(kept), swept), NEW s \in Sessions,
         sessions'[s].model # NoModel
  PROVE  usageBaseline'[s] = usageBaseline[s]
<1>1. s \in Unexpired(kept)
  BY DEF Prune, NoRecord
<1> QED BY <1>1 DEF Prune

LEMMA AlarmBegin ==
  ASSUME AlarmInv, NEW t \in Sessions, NEW sig \in Signatures, ABegin(t, sig)
  PROVE  AlarmInv'
<1> USE DEF AlarmInv
<1>1. RoutingInv'
  BY BeginInv DEF ABegin
<1>2. /\ request' = [session |-> t, sig |-> sig, view |-> real[t]] /\ real' = real
      /\ billed' = billed /\ wipedAt' = wipedAt /\ beganAt' = billed
      /\ witness' = {x \in witness : sessions'[x].model # NoModel}
  BY DEF ABegin, Begin, environment
<1>3. BillInv'
  <2>1. request'.session = t /\ request'.view = real[t]
    BY <1>2
  <2> QED BY <1>2, <2>1, SpendTypes DEF BillInv, BillType
<1>4. WitnessInv'
  <2>1. ASSUME NEW s \in witness'
        PROVE  s \in witness /\ usageBaseline'[s] = usageBaseline[s]
    BY <1>2, <2>1, PruneBaselines DEF ABegin, Begin, BillInv, BillType
  <2>2. \A s \in witness' : Grown(s, real[s])'
    BY <1>2, <2>1 DEF WitnessInv, Grown
  <2>3. request'.session = t /\ request'.view = real'[t]
    BY <1>2
  <2> QED BY <2>2, <2>3 DEF WitnessInv, Grown
<1> QED BY <1>1, <1>3, <1>4

LEMMA AlarmSkipPath ==
  ASSUME AlarmInv, ASkipPath
  PROVE  AlarmInv'
<1> USE DEF AlarmInv
<1>1. RoutingInv'
  BY SkipPathInv DEF ASkipPath
<1>2. /\ request' = request /\ real' = real /\ request = NoRequest
      /\ billed' = billed /\ wipedAt' = wipedAt /\ beganAt' = beganAt
      /\ witness' = {x \in witness : sessions'[x].model # NoModel}
  BY DEF ASkipPath, SkipPath, environment
<1>3. BillInv'
  BY <1>2 DEF BillInv, BillType
<1>4. ASSUME NEW s \in witness'
      PROVE  s \in witness /\ usageBaseline'[s] = usageBaseline[s]
  BY <1>2, <1>4, PruneBaselines DEF ASkipPath, SkipPath, BillInv, BillType
<1>5. WitnessInv'
  BY <1>2, <1>4 DEF WitnessInv, Grown
<1> QED BY <1>1, <1>3, <1>5

LEMMA AlarmServe ==
  ASSUME AlarmInv, AServe
  PROVE  AlarmInv'
<1> USE DEF AlarmInv
<1>1. RoutingInv' /\ request # NoRequest
  BY ServeInv, ServeCommits DEF AServe
<1>2. /\ request' = NoRequest /\ real' = real /\ usageBaseline' = SyncedBaseline
      /\ billed' = billed /\ beganAt' = beganAt
  BY ServeCommits DEF AServe, Commit, environment
<1>3. /\ wipedAt' = IF ClearTakenIn THEN beganAt ELSE wipedAt
      /\ witness' = IF ClearTakenIn THEN {request.session} ELSE witness
  BY DEF AServe
<1>4. PICK r \in Sessions : r = request.session
  BY <1>1, SpendTypes
<1>5. BillInv'
  BY <1>2, <1>3, <1>4 DEF BillInv, BillType
<1>6. CASE ClearTakenIn
  <2>1. usageBaseline'[r] = request.view /\ witness' = {r} /\ wipedAt'[r] = beganAt[r]
    BY <1>2, <1>3, <1>4, <1>6 DEF SyncedBaseline, ClearTakenIn, RoutingInv, TypeOK
  <2>2. \A m \in Models, k \in Kinds :
            real[r][m][k] - request.view[m][k] <= billed[r] - beganAt[r]
    BY <1>1, <1>4 DEF BillInv
  <2>3. Grown(r, real[r])'
    BY <1>2, <2>1, <2>2 DEF Grown
  <2>4. WitnessInv'
    BY <1>2, <2>1, <2>3 DEF WitnessInv
  <2> QED BY <1>1, <1>5, <2>4
<1>7. CASE ~ClearTakenIn
  <2>1. usageBaseline' = usageBaseline
    BY <1>2, <1>7 DEF SyncedBaseline, ClearTakenIn
  <2> QED BY <1>1, <1>2, <1>3, <1>5, <1>7, <2>1 DEF WitnessInv, Grown
<1> QED BY <1>6, <1>7

LEMMA AlarmReceipt ==
  ASSUME AlarmInv, NEW t \in Sessions, NEW n \in Models, NEW c \in Kinds, NEW bill \in Bills,
         AReceipt(t, n, c, bill)
  PROVE  AlarmInv'
<1> USE DEF AlarmInv
<1>1. RoutingInv'
  BY ReceiptInv DEF AReceipt
<1>2. /\ request' = request /\ usageBaseline' = usageBaseline
      /\ billed' = [billed EXCEPT ![t] = @ + bill] /\ bill \in Nat
      /\ beganAt' = beganAt /\ wipedAt' = wipedAt /\ witness' = witness
  BY EnvironmentAssumption DEF AReceipt, Receipt, policyState
<1>3. ASSUME NEW s \in Sessions
      PROVE  /\ billed[s] \in Nat /\ billed'[s] \in Nat /\ billed[s] <= billed'[s]
             /\ \A m \in Models, k \in Kinds :
                    real'[s][m][k] <= real[s][m][k] + (billed'[s] - billed[s])
  <2>1. billed'[s] = IF s = t THEN billed[s] + bill ELSE billed[s]
    BY <1>2 DEF BillInv, BillType
  <2>2. billed[s] \in Nat
    BY DEF BillInv, BillType
  <2>3. ASSUME NEW m \in Models, NEW k \in Kinds
        PROVE  real'[s][m][k] \in
                   {real[s][m][k], 0} \cup (IF s = t THEN {bill, real[s][m][k] + bill} ELSE {})
    <3>1. real \in [Sessions -> [Models -> [Kinds -> Nat]]]
      BY DEF RoutingInv, TypeOK, Spend
    <3>2. CASE aggLost
      BY <3>1, <3>2 DEF AReceipt, Receipt, NoSpend
    <3>3. CASE ~aggLost
      BY <3>1, <3>3 DEF AReceipt, Receipt
    <3> QED BY <3>2, <3>3
  <2>4. \A m \in Models, k \in Kinds : real[s][m][k] \in Nat
    BY SpendTypes
  <2>5. CASE s = t
    <3>1. billed'[s] = billed[s] + bill /\ bill \in Nat
      BY <1>2, <2>1, <2>5
    <3>2. billed'[s] \in Nat /\ billed[s] <= billed'[s] /\ billed'[s] - billed[s] = bill
      BY <2>2, <3>1
    <3>3. ASSUME NEW m \in Models, NEW k \in Kinds
          PROVE  real'[s][m][k] <= real[s][m][k] + (billed'[s] - billed[s])
      <4> DEFINE old == real[s][m][k]
      <4>1. real'[s][m][k] \in {old, 0, bill, old + bill}
        BY <2>3, <2>5
      <4>2. old \in Nat
        BY <2>4
      <4> HIDE DEF old
      <4>3. real'[s][m][k] <= old + bill
        BY <3>1, <4>1, <4>2
      <4> QED BY <3>2, <4>3 DEF old
    <3> QED BY <2>2, <3>2, <3>3
  <2>6. CASE s # t
    <3>1. billed'[s] = billed[s]
      BY <2>1, <2>6
    <3>2. billed'[s] \in Nat /\ billed[s] <= billed'[s] /\ billed'[s] - billed[s] = 0
      BY <2>2, <3>1
    <3>3. ASSUME NEW m \in Models, NEW k \in Kinds
          PROVE  real'[s][m][k] <= real[s][m][k] + (billed'[s] - billed[s])
      <4> DEFINE old == real[s][m][k]
      <4>1. real'[s][m][k] \in {old, 0}
        BY <2>3, <2>6
      <4>2. old \in Nat
        BY <2>4
      <4> HIDE DEF old
      <4>3. real'[s][m][k] <= old + 0
        BY <4>1, <4>2
      <4> QED BY <3>2, <4>3 DEF old
    <3> QED BY <2>2, <3>2, <3>3
  <2> QED BY <2>5, <2>6
<1>4. BillInv'
  <2>1. BillType'
    BY <1>2 DEF BillInv, BillType
  <2>2. ASSUME NEW s \in Sessions
        PROVE  /\ beganAt'[s] <= billed'[s] /\ wipedAt'[s] <= billed'[s]
               /\ \A m \in Models, k \in Kinds : real'[s][m][k] <= billed'[s]
    <3>1. beganAt[s] \in Nat /\ wipedAt[s] \in Nat /\ beganAt[s] <= billed[s]
          /\ wipedAt[s] <= billed[s]
      BY DEF BillInv, BillType
    <3>2. \A m \in Models, k \in Kinds :
              real[s][m][k] <= billed[s] /\ real[s][m][k] \in Nat /\ real'[s][m][k] \in Nat
      BY <1>1, SpendTypes DEF BillInv, RoutingInv, TypeOK, Spend
    <3> QED BY <1>2, <1>3, <3>1, <3>2
  <2>3. ASSUME request' # NoRequest, NEW m \in Models, NEW k \in Kinds
        PROVE  /\ request'.view[m][k] <= billed'[request'.session]
               /\ real'[request'.session][m][k] - request'.view[m][k]
                      <= billed'[request'.session] - beganAt'[request'.session]
    <3> DEFINE s == request.session
    <3>1. /\ s \in Sessions /\ request.view[m][k] \in Nat /\ real[s][m][k] \in Nat
          /\ request.view[m][k] <= billed[s]
          /\ real[s][m][k] - request.view[m][k] <= billed[s] - beganAt[s]
          /\ beganAt[s] \in Nat
      BY <1>2, <2>3, SpendTypes DEF BillInv, BillType
    <3>2. real'[s][m][k] \in Nat
      BY <1>1, <3>1 DEF RoutingInv, TypeOK, Spend
    <3>3. /\ billed[s] \in Nat /\ billed'[s] \in Nat /\ billed[s] <= billed'[s]
          /\ real'[s][m][k] <= real[s][m][k] + (billed'[s] - billed[s])
      BY <1>3, <3>1
    <3> HIDE DEF s
    <3>4. /\ request.view[m][k] <= billed'[s]
          /\ real'[s][m][k] - request.view[m][k] <= billed'[s] - beganAt[s]
      BY <3>1, <3>2, <3>3
    <3> QED BY <1>2, <3>4 DEF s
  <2> QED BY <2>1, <2>2, <2>3 DEF BillInv
<1>5. WitnessInv'
  <2> SUFFICES ASSUME NEW s \in witness
               PROVE  /\ Grown(s, real[s])'
                      /\ request # NoRequest /\ request.session = s => Grown(s, request.view)'
    BY <1>2 DEF WitnessInv
  <2>1. s \in Sessions /\ wipedAt[s] \in Nat
    BY DEF BillInv, BillType
  <2>2. ASSUME NEW m \in Models, NEW k \in Kinds
        PROVE  real'[s][m][k] - usageBaseline[s][m][k] <= billed'[s] - wipedAt[s]
    <3>1. /\ real[s][m][k] \in Nat /\ usageBaseline[s][m][k] \in Nat
          /\ real[s][m][k] - usageBaseline[s][m][k] <= billed[s] - wipedAt[s]
          /\ real'[s][m][k] \in Nat
      BY <1>1, <2>1, SpendTypes DEF WitnessInv, Grown, RoutingInv, TypeOK, Spend
    <3>2. /\ billed[s] \in Nat /\ billed'[s] \in Nat
          /\ real'[s][m][k] <= real[s][m][k] + (billed'[s] - billed[s])
      BY <1>3, <2>1
    <3> QED BY <2>1, <3>1, <3>2
  <2>3. ASSUME request # NoRequest, request.session = s, NEW m \in Models, NEW k \in Kinds
        PROVE  request.view[m][k] - usageBaseline[s][m][k] <= billed'[s] - wipedAt[s]
    <3>1. /\ request.view[m][k] \in Nat /\ usageBaseline[s][m][k] \in Nat
          /\ request.view[m][k] - usageBaseline[s][m][k] <= billed[s] - wipedAt[s]
      BY <2>1, <2>3, SpendTypes DEF WitnessInv, Grown
    <3> QED BY <1>3, <2>1, <3>1
  <2> QED BY <1>2, <2>2, <2>3 DEF Grown
<1> QED BY <1>1, <1>4, <1>5

LEMMA AlarmRestart ==
  ASSUME AlarmInv, ARestart
  PROVE  AlarmInv'
<1>1. RoutingInv'
  BY RestartInv DEF AlarmInv, ARestart
<1> QED BY <1>1 DEF AlarmInv, ARestart, Restart, BillInv, BillType, WitnessInv

LEMMA AlarmIdle ==
  ASSUME AlarmInv, UNCHANGED alarmHistory,
         \/ Tick \/ Operator \/ \E m \in FailingModels : UpstreamFailure(m)
         \/ UNCHANGED vars
  PROVE  AlarmInv'
<1>1. RoutingInv'
  BY NextInv DEF AlarmInv, Next, Surroundings
<1>2. UNCHANGED <<request, real, usageBaseline>>
  BY DEF Tick, Operator, SetLease, ClearLease, SetBudget, ClearBudget, SetWeights, SetLearning,
     ClearAlarms, SetControl, UpstreamFailure, vars, environment, policyState
<1> QED BY <1>1, <1>2 DEF AlarmInv, BillInv, BillType, WitnessInv, Grown, alarmHistory

LEMMA AlarmNext == AlarmInv /\ [ANext]_avars => AlarmInv'
  BY AlarmBegin, AlarmSkipPath, AlarmServe, AlarmReceipt, AlarmRestart, AlarmIdle DEF ANext, avars

LEMMA AlarmInit == AInit => AlarmInv
<1> SUFFICES ASSUME AInit PROVE AlarmInv
  OBVIOUS
<1>1. RoutingInv
  BY InitInv DEF AInit
<1>2. BillInv
  BY DEF AInit, Init, NoSpend, BillInv, BillType
<1>3. WitnessInv
  BY DEF AInit, WitnessInv
<1> QED BY <1>1, <1>2, <1>3 DEF AlarmInv

(* What the receipts alarm has found when it is raised.                     *)
LEMMA RealAlarmFinds ==
  ASSUME AServe, decision'.alarm = "real"
  PROVE  \E m \in Models :
             request.view[m][Sig.kind] - SyncedBaseline[request.session][m][Sig.kind]
                 >= KIND_ALARM_HKD
<1>1. decision'.alarm = AlarmBasis
  BY ServeCommits DEF AServe, Commit
<1> QED BY <1>1 DEF AlarmBasis, RealAlarm

(* A session that was billed less than the threshold raises no receipts    *)
(* alarm, whatever other sessions were billed.                             *)
THEOREM AlarmAlwaysPerSession == ASpec => AlarmIsPerSession
<1>1. ASSUME AlarmInv, AServe, decision'.alarm = "real"
      PROVE  billed[request.session] >= KIND_ALARM_HKD
  <2>1. RoutingInv /\ RoutingInv' /\ request # NoRequest
    BY <1>1, ServeInv, ServeCommits DEF AlarmInv, AServe
  <2>2. PICK m \in Models :
            request.view[m][Sig.kind] - SyncedBaseline[request.session][m][Sig.kind]
                >= KIND_ALARM_HKD
    BY <1>1, RealAlarmFinds
  <2>3. Sig.kind \in Kinds /\ request.session \in Sessions
    BY <2>1, SigType, RequestType DEF Signature
  <2>4. SyncedBaseline[request.session][m][Sig.kind] \in Nat
    BY <2>1, <2>3, EpochType DEF Spend
  <2>5. /\ request.view[m][Sig.kind] \in Nat /\ billed[request.session] \in Nat
        /\ request.view[m][Sig.kind] <= billed[request.session]
    BY <1>1, <2>1, <2>3, SpendTypes DEF AlarmInv, BillInv, BillType
  <2>6. KIND_ALARM_HKD \in Nat
    BY TuningAssumption
  <2> QED BY <2>2, <2>4, <2>5, <2>6
<1>2. AlarmInv /\ [ANext]_avars =>
          [AServe /\ decision'.alarm = "real"
              => billed[request.session] >= KIND_ALARM_HKD]_avars
  BY <1>1
<1> QED BY <1>2, AlarmInit, AlarmNext, PTL DEF ASpec, AlarmIsPerSession

(* In the session whose request took in a clear, the receipts alarm fires  *)
(* again only for what was billed since that request began.                *)
THEOREM AlarmAlwaysNeedsNewSpend == ASpec => AlarmNeedsNewSpend
<1>1. ASSUME AlarmInv, AServe, decision'.alarm = "real", request.session \in witness'
      PROVE  (NewlyBilled(decision.session))' >= KIND_ALARM_HKD
  <2>1. RoutingInv /\ request # NoRequest
    BY <1>1, ServeCommits DEF AlarmInv, AServe
  <2>2. PICK m \in Models :
            request.view[m][Sig.kind] - SyncedBaseline[request.session][m][Sig.kind]
                >= KIND_ALARM_HKD
    BY <1>1, RealAlarmFinds
  <2>3. Sig.kind \in Kinds /\ request.session \in Sessions
    BY <2>1, SigType, RequestType DEF Signature
  <2>4. KIND_ALARM_HKD \in Nat \ {0}
    BY TuningAssumption
  <2>5. ~ClearTakenIn
    <3> SUFFICES ASSUME ClearTakenIn PROVE FALSE
      OBVIOUS
    <3>1. SyncedBaseline[request.session] = request.view
      BY <2>1, <2>3 DEF SyncedBaseline, ClearTakenIn, RoutingInv, TypeOK
    <3>2. request.view[m][Sig.kind] \in Nat
      BY <2>1, <2>3, SpendTypes
    <3> QED BY <2>2, <2>4, <3>1, <3>2
  <2>6. /\ request.session \in witness /\ SyncedBaseline = usageBaseline
        /\ wipedAt' = wipedAt /\ billed' = billed /\ decision'.session = request.session
    BY <1>1, <2>5, ServeCommits DEF AServe, SyncedBaseline, ClearTakenIn, Commit
  <2>7. request.view[m][Sig.kind] - usageBaseline[request.session][m][Sig.kind]
            <= billed[request.session] - wipedAt[request.session]
    BY <1>1, <2>1, <2>3, <2>6 DEF AlarmInv, WitnessInv, Grown
  <2>8. /\ request.view[m][Sig.kind] \in Nat /\ billed[request.session] \in Nat
        /\ wipedAt[request.session] \in Nat
        /\ usageBaseline[request.session][m][Sig.kind] \in Nat
    BY <1>1, <2>1, <2>3, SpendTypes DEF AlarmInv, BillInv, BillType
  <2>9. billed[request.session] - wipedAt[request.session] >= KIND_ALARM_HKD
    BY <2>2, <2>4, <2>6, <2>7, <2>8
  <2> QED BY <2>6, <2>9 DEF NewlyBilled
<1>2. AlarmInv /\ [ANext]_avars =>
          [AServe /\ decision'.alarm = "real" /\ request.session \in witness'
              => (NewlyBilled(decision.session))' >= KIND_ALARM_HKD]_avars
  BY <1>1
<1> QED BY <1>2, AlarmInit, AlarmNext, PTL DEF ASpec, AlarmNeedsNewSpend
=============================================================================
