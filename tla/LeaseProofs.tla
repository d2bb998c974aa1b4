----------------------------- MODULE LeaseProofs -----------------------------
(***************************************************************************)
(* Proofs about the sessions the policy holds: the store stays within its  *)
(* cap, and the sweep of an ended lease leaves no session on the model the *)
(* lease gave it, for any fleet, any leases set, replaced, cleared or run  *)
(* out at any moment, and any number of restarts.                          *)
(***************************************************************************)
EXTENDS RoutingProofs, FiniteSetTheorems

(* A request is served in the room its own pruning made.                    *)
SizeInv ==
    /\ Cardinality(Held) <= SESSION_CAP + 1
    /\ request # NoRequest => Cardinality(Held) <= SESSION_CAP

LEMMA HeldFinite == IsFiniteSet(Held) /\ Cardinality(Held) \in Nat
<1>1. Held \in SUBSET Sessions
  BY DEF Held
<1>2. IsFiniteSet(Held)
  BY <1>1, FleetAssumption, FS_Subset
<1> QED BY <1>2, FS_CardinalityType

LEMMA HeldFiniteNext == IsFiniteSet(Held') /\ Cardinality(Held)' \in Nat
<1>1. Held' \in SUBSET Sessions
  BY DEF Held
<1>2. IsFiniteSet(Held')
  BY <1>1, FleetAssumption, FS_Subset
<1> QED BY <1>2, FS_CardinalityType

(* What is held after a step that only drops records.                       *)
LEMMA FewerHeld ==
  ASSUME NEW S, IsFiniteSet(S), Held' \subseteq S
  PROVE  Cardinality(Held)' <= Cardinality(S)
  BY FS_Subset

(* Pruning makes room.                                                      *)
LEMMA PruneMakesRoom ==
  ASSUME NEW kept \in KeptByCap, NEW swept, Prune(Unexpired(kept), swept)
  PROVE  Cardinality(Held)' <= SESSION_CAP
<1>1. SESSION_CAP \in Nat
  BY TuningAssumption
<1>2. /\ kept \in SUBSET Held
      /\ Cardinality(kept) = AtMost(Cardinality(Held), SESSION_CAP)
  BY DEF KeptByCap
<1>3. IsFiniteSet(kept)
  BY <1>2, HeldFinite, FS_Subset
<1>4. Cardinality(kept) <= SESSION_CAP
  BY <1>1, <1>2, HeldFinite DEF AtMost
<1>5. Held' \subseteq kept
  BY DEF Held, Live, Prune, Unexpired, NoRecord
<1>6. Cardinality(Held)' <= Cardinality(kept) /\ Cardinality(kept) \in Nat
  BY <1>3, <1>5, FewerHeld, FS_CardinalityType
<1> QED BY <1>1, <1>4, <1>6, HeldFiniteNext

LEMMA SizeNext ==
  ASSUME RoutingInv, SizeInv, [Next]_vars
  PROVE  SizeInv'
<1>1. SESSION_CAP \in Nat
  BY TuningAssumption
<1>2. CASE \E s \in Sessions, sig \in Signatures : Begin(s, sig)
  <2>1. Cardinality(Held)' <= SESSION_CAP
    BY <1>2, PruneMakesRoom DEF Begin
  <2> QED BY <1>1, <2>1, HeldFiniteNext DEF SizeInv
<1>3. CASE SkipPath
  <2>1. Cardinality(Held)' <= SESSION_CAP
    BY <1>3, PruneMakesRoom DEF SkipPath
  <2> QED BY <1>1, <2>1, HeldFiniteNext DEF SizeInv
<1>4. CASE Serve
  <2>1. request # NoRequest /\ request' = NoRequest
    BY <1>4, ServeCommits DEF Commit
  <2>2. Held' \subseteq Held \cup {request.session}
    <3>1. PICK record : sessions' = [sessions EXCEPT ![request.session] = record]
      BY <1>4, ServeCommits DEF Commit
    <3> QED BY <3>1 DEF Held, Live, RoutingInv, TypeOK
  <2>3. /\ IsFiniteSet(Held \cup {request.session})
        /\ Cardinality(Held \cup {request.session}) <= Cardinality(Held) + 1
        /\ Cardinality(Held \cup {request.session}) \in Nat
    <3>1. IsFiniteSet(Held \cup {request.session})
          /\ Cardinality(Held \cup {request.session}) =
                 IF request.session \in Held THEN Cardinality(Held) ELSE Cardinality(Held) + 1
      BY HeldFinite, FS_AddElement
    <3> QED BY <3>1, HeldFinite
  <2>4. Cardinality(Held)' <= Cardinality(Held \cup {request.session})
    BY <2>2, <2>3, FewerHeld
  <2> QED BY <1>1, <2>1, <2>3, <2>4, HeldFinite, HeldFiniteNext DEF SizeInv
<1>5. ASSUME request' \in {request, NoRequest}, Held' \subseteq Held
      PROVE  SizeInv'
  <2>1. Cardinality(Held)' <= Cardinality(Held)
    BY <1>5, HeldFinite, FewerHeld
  <2> QED BY <1>1, <1>5, <2>1, HeldFinite, HeldFiniteNext DEF SizeInv
<1>6. CASE Surroundings \/ UNCHANGED vars
  <2>1. \A s \in Sessions : sessions'[s] = sessions[s] \/ sessions'[s] = NoRecord
    BY <1>6, IdleKeeps
  <2>2. Held' \subseteq Held
    BY <2>1 DEF Held, Live, NoRecord
  <2>3. request' \in {request, NoRequest}
    BY <1>6 DEF Surroundings, Tick, Operator, SetLease, ClearLease, SetBudget, ClearBudget,
       SetWeights, SetLearning, ClearAlarms, SetControl, UpstreamFailure, Receipt, Restart, vars
  <2> QED BY <1>5, <2>2, <2>3
<1> QED BY <1>2, <1>3, <1>4, <1>6 DEF Next

(* The session store is never more than one record above its cap.          *)
THEOREM SessionsAlwaysBounded == Spec => []SessionsBounded
<1>1. Init => RoutingInv /\ SizeInv
  <2> SUFFICES ASSUME Init PROVE SizeInv
    BY InitInv
  <2>1. Held = {}
    BY DEF Init, FreshPolicyState, Held, Live, NoRecord
  <2>2. Cardinality(Held) = 0
    BY <2>1, FS_EmptySet
  <2>3. SESSION_CAP \in Nat
    BY TuningAssumption
  <2> QED BY <2>2, <2>3 DEF SizeInv
<1>2. RoutingInv /\ SizeInv /\ [Next]_vars => (RoutingInv /\ SizeInv)'
  BY NextInv, SizeNext
<1>3. SizeInv => SessionsBounded
  BY DEF SizeInv, SessionsBounded
<1> QED BY <1>1, <1>2, <1>3, PTL DEF Spec
-----------------------------------------------------------------------------
(* A lease that was swept is over for good: it is not the present one       *)
(* unless that has run out, and its serial is never issued again.  A        *)
(* session that a lease put on a model is still on that model.              *)
LeaseInv ==
    /\ control.lease.serial <= control.issued
    /\ lastLease.serial <= control.issued
    /\ lastLease # NoLease => lastLease.model # NoModel
    /\ NoLease \notin cleanedLeases
    /\ \A l \in cleanedLeases :
           /\ l.serial <= control.issued
           /\ l = control.lease => ~(now < l.expires)
    /\ \A s \in Sessions : Live(s) /\ leasedBy[s] # NoLease =>
           sessions[s].model = leasedBy[s].model
    /\ SweptLeaseHoldsNoSession

LEMMA LeaseTypes ==
  ASSUME RoutingInv
  PROVE  /\ control \in Control /\ control.lease \in Lease /\ control.lease.serial \in Nat
         /\ control.issued \in Nat /\ now \in Nat
         /\ lastLease \in Lease /\ lastLease.serial \in Nat
         /\ \A l \in cleanedLeases : l \in Lease /\ l.serial \in Nat /\ l.expires \in Nat
  BY DEF RoutingInv, TypeOK, Control, Lease

LEMMA LeaseBegin ==
  ASSUME RoutingInv, LeaseInv, NEW t \in Sessions, NEW sig \in Signatures, Begin(t, sig),
         UNCHANGED history
  PROVE  LeaseInv'
<1>1. PICK kept \in KeptByCap : Prune(Unexpired(kept), SweptSessions)
  BY DEF Begin
<1>2. /\ control' = control /\ now' = now /\ leasedBy' = leasedBy /\ lastLease' = LiveLease
      /\ cleanedLeases' = IF LeaseEndSeen THEN cleanedLeases \cup {lastLease} ELSE cleanedLeases
  BY DEF Begin, environment, history
<1>3. LiveLease = NoLease \/ (LiveLease = control.lease /\ LiveLease.model # NoModel)
  <2>1. CASE control.lease.model # NoModel /\ now < control.lease.expires
    BY <2>1 DEF LiveLease
  <2>2. CASE ~(control.lease.model # NoModel /\ now < control.lease.expires)
    BY <2>2 DEF LiveLease
  <2> QED BY <2>1, <2>2
<1>4. /\ lastLease'.serial <= control'.issued
      /\ lastLease' # NoLease => lastLease'.model # NoModel
  <2>1. LiveLease.serial <= control.issued
    BY <1>3, LeaseTypes DEF LeaseInv, NoLease
  <2>2. LiveLease # NoLease => LiveLease.model # NoModel
    BY <1>3
  <2> QED BY <1>2, <2>1, <2>2
<1>5. /\ NoLease \notin cleanedLeases'
      /\ \A l \in cleanedLeases' : /\ l.serial <= control'.issued
                                   /\ l = control'.lease => ~(now' < l.expires)
  <2>1. LeaseEndSeen => /\ lastLease # NoLease /\ lastLease.model # NoModel
                        /\ lastLease = control.lease => ~(now < lastLease.expires)
    BY LeaseTypes DEF LeaseEndSeen, LiveLease, LeaseInv
  <2> QED BY <1>2, <2>1 DEF LeaseInv
<1>6. ASSUME NEW s \in Sessions, Live(s)'
      PROVE  /\ leasedBy'[s] # NoLease => sessions'[s].model = leasedBy'[s].model
             /\ leasedBy'[s] \notin cleanedLeases'
  <2>1. s \in kept /\ s \notin SweptSessions /\ sessions'[s] = sessions[s]
    BY <1>1, <1>6 DEF Prune, Live, NoRecord, Unexpired
  <2>2. Live(s)
    BY <1>6, <2>1 DEF Live
  <2>3. /\ leasedBy[s] # NoLease => sessions[s].model = leasedBy[s].model
        /\ leasedBy[s] \notin cleanedLeases
    BY <2>2 DEF LeaseInv, SweptLeaseHoldsNoSession
  <2>4. LeaseEndSeen => leasedBy[s] # lastLease
    BY <2>1, <2>3 DEF LeaseEndSeen, SweptSessions
  <2> QED BY <1>2, <2>1, <2>3, <2>4
<1>7. control'.lease.serial <= control'.issued
  BY <1>2 DEF LeaseInv
<1> QED BY <1>4, <1>5, <1>6, <1>7 DEF LeaseInv, SweptLeaseHoldsNoSession

(* A turn that is served by a lease puts the session on the model of the    *)
(* live one.                                                                *)
LEMMA LeaseChoice ==
  ASSUME Serve
  PROVE  decision'.reason = "lease" =>
             /\ LiveLease = control.lease /\ now < control.lease.expires
             /\ decision'.winner = LiveLease.model
<1>1. CASE ServeLease
  <2>1. LeaseModel # NoModel /\ decision'.winner = LeaseModel
    BY <1>1, Served DEF ServeLease, LeaseWins
  <2>2. LeaseModel = LiveLease.model
    BY <2>1 DEF LeaseModel
  <2> QED BY <2>1, <2>2 DEF LiveLease, NoLease
<1>2. CASE ~ServeLease
  <2>1. CASE ServeDirective
    BY <2>1, Served DEF ServeDirective
  <2>2. CASE ServeGrace
    BY <2>2, Served DEF ServeGrace
  <2>3. CASE ServeLoyal
    BY <2>3, Served DEF ServeLoyal
  <2>4. CASE ServeSwap
    BY <2>4, Served DEF ServeSwap
  <2>5. CASE ServeUnscored
    <3>1. \E challenger : Commit(challenger, "fresh", FALSE)
      BY <2>5 DEF ServeUnscored
    <3> QED BY <3>1, Served
  <2>6. CASE ServeDemoted
    <3>1. decision'.reason = DemotionReason
      BY <2>6, Served DEF ServeDemoted
    <3> QED BY <3>1 DEF DemotionReason
  <2>7. CASE ServeFresh
    <3>1. decision'.reason \in {"cascade-escalation", "fresh"}
      BY <2>7, Served DEF ServeFresh
    <3> QED BY <3>1
  <2> QED BY <1>2, <2>1, <2>2, <2>3, <2>4, <2>5, <2>6, <2>7 DEF Serve
<1> QED BY <1>1, <1>2

LEMMA LeaseServe ==
  ASSUME HistoryInv, LeaseInv, leasedBy \in [Sessions -> Lease], HServe
  PROVE  LeaseInv'
<1>1. RoutingInv /\ Serve /\ request # NoRequest
  BY ServeCommits DEF HistoryInv, HServe
<1>2. PICK winner \in Fleet, reason \in Reasons, fallback \in BOOLEAN :
          Commit(winner, reason, fallback)
  BY <1>1, ServeCommits
<1> DEFINE r == request.session
<1>3. r \in Sessions
  BY <1>1, RequestType
<1>4. /\ control' = control /\ now' = now /\ lastLease' = lastLease
      /\ cleanedLeases' = cleanedLeases
      /\ decision'.reason = reason /\ decision'.winner = winner
      /\ sessions' = [sessions EXCEPT ![r] = NextRecord(winner, reason)]
  BY <1>2 DEF Commit, environment
<1>5. leasedBy' = [leasedBy EXCEPT ![r] = IF reason = "lease" THEN LiveLease
                                         ELSE IF reason \in PinHolds THEN @ ELSE NoLease]
  BY <1>4 DEF HServe, Record
<1>6. ASSUME NEW s \in Sessions, Live(s)'
      PROVE  /\ leasedBy'[s] # NoLease => sessions'[s].model = leasedBy'[s].model
             /\ leasedBy'[s] \notin cleanedLeases'
  <2>1. CASE s # r
    <3>1. sessions'[s] = sessions[s] /\ leasedBy'[s] = leasedBy[s]
      BY <1>1, <1>4, <1>5, <2>1 DEF RoutingInv, TypeOK
    <3> QED BY <1>4, <1>6, <3>1 DEF Live, LeaseInv, SweptLeaseHoldsNoSession
  <2>2. CASE s = r
    <3>1. sessions'[s].model = winner
      BY <1>1, <1>3, <1>4, <2>2 DEF NextRecord, RoutingInv, TypeOK
    <3>2. CASE reason = "lease"
      <4>1. leasedBy'[s] = LiveLease
        BY <1>3, <1>5, <2>2, <3>2
      <4>2. /\ LiveLease = control.lease /\ now < control.lease.expires
            /\ winner = LiveLease.model
        BY <1>1, <1>4, <3>2, LeaseChoice
      <4> QED BY <1>4, <3>1, <4>1, <4>2 DEF LeaseInv
    <3>3. CASE reason \in PinHolds
      <4>1. leasedBy'[s] = leasedBy[s]
        BY <1>3, <1>5, <2>2, <3>3 DEF PinHolds
      <4>2. Holdable /\ winner = Prev.model
        BY <1>1, <1>4, <3>3, HoldChoice
      <4>3. Live(s) /\ sessions[s].model = winner
        BY <2>2, <4>2, FleetAssumption, FleetModelIsLive DEF Prev
      <4> QED BY <1>4, <3>1, <4>1, <4>3 DEF LeaseInv, SweptLeaseHoldsNoSession
    <3>4. CASE reason # "lease" /\ reason \notin PinHolds
      <4>1. leasedBy'[s] = NoLease
        BY <1>3, <1>5, <2>2, <3>4
      <4> QED BY <1>4, <4>1 DEF LeaseInv
    <3> QED BY <3>2, <3>3, <3>4
  <2> QED BY <2>1, <2>2
<1> QED BY <1>4, <1>6 DEF LeaseInv, SweptLeaseHoldsNoSession

(* A step that neither serves nor sweeps.                                   *)
LEMMA LeaseIdle ==
  ASSUME RoutingInv, LeaseInv, UNCHANGED <<lastLease, cleanedLeases, leasedBy>>,
         \A s \in Sessions : sessions'[s] = sessions[s] \/ sessions'[s] = NoRecord,
         control'.lease.serial <= control'.issued, control.issued <= control'.issued,
         control'.issued \in Nat,
         \A l \in cleanedLeases : l = control'.lease => ~(now' < l.expires)
  PROVE  LeaseInv'
<1>1. \A s \in Sessions : Live(s)' => Live(s) /\ sessions'[s] = sessions[s]
  BY DEF Live, NoRecord
<1>2. \A s \in Sessions : Live(s)' =>
          /\ leasedBy'[s] # NoLease => sessions'[s].model = leasedBy'[s].model
          /\ leasedBy'[s] \notin cleanedLeases'
  BY <1>1 DEF LeaseInv, SweptLeaseHoldsNoSession
<1>3. \A l \in cleanedLeases' : l.serial <= control'.issued
  BY LeaseTypes DEF LeaseInv
<1>4. lastLease'.serial <= control'.issued
  BY LeaseTypes DEF LeaseInv
<1> QED BY <1>2, <1>3, <1>4 DEF LeaseInv, SweptLeaseHoldsNoSession

(* What the operator does to the lease.                                     *)
LEMMA LeaseOperator ==
  ASSUME RoutingInv, LeaseInv, Operator
  PROVE  /\ control'.lease.serial <= control'.issued /\ control.issued <= control'.issued
         /\ control'.issued \in Nat
         /\ \A l \in cleanedLeases : l = control'.lease => ~(now < l.expires)
<1>1. \/ control'.lease = control.lease /\ control'.issued = control.issued
      \/ control'.lease = NoLease /\ control'.issued = control.issued
      \/ /\ control'.issued = control.issued + 1
         /\ control'.lease.serial = control.issued + 1
  <2>0. control \in Control
    BY LeaseTypes
  <2>1. ASSUME NEW m \in LeaseModels, NEW term \in LeaseTerms, SetLease(m, term)
        PROVE  /\ control'.issued = control.issued + 1
               /\ control'.lease.serial = control.issued + 1
    BY <2>0, <2>1 DEF SetLease, SetControl, Control
  <2>2. CASE ClearLease
    BY <2>0, <2>2 DEF ClearLease, SetControl, Control
  <2>3. CASE \/ \E hkd \in Budgets : SetBudget(hkd)
             \/ ClearBudget
             \/ \E weights \in WeightChoices : SetWeights(weights)
             \/ \E enabled \in LearningChoices : SetLearning(enabled)
             \/ ClearAlarms
    BY <2>0, <2>3 DEF SetBudget, ClearBudget, SetWeights, SetLearning, ClearAlarms,
       SetControl, Control
  <2> QED BY <2>1, <2>2, <2>3 DEF Operator
<1> QED BY <1>1, LeaseTypes DEF LeaseInv, NoLease

LEMMA LeaseSurroundings ==
  ASSUME RoutingInv, LeaseInv, Surroundings \/ SkipPath \/ UNCHANGED vars, UNCHANGED history
  PROVE  LeaseInv'
<1>1. \A s \in Sessions : sessions'[s] = sessions[s] \/ sessions'[s] = NoRecord
  BY IdleKeeps
<1>2. leasedBy' = leasedBy
  BY DEF history
<1>3. CASE UNCHANGED control /\ now' \in {now, now + 1} /\ UNCHANGED <<lastLease, cleanedLeases>>
  <2>1. \A l \in cleanedLeases : l = control'.lease => ~(now' < l.expires)
    BY <1>3, LeaseTypes DEF LeaseInv
  <2>2. control'.lease.serial <= control'.issued /\ control.issued <= control'.issued
        /\ control'.issued \in Nat
    BY <1>3, LeaseTypes DEF LeaseInv
  <2> QED BY <1>1, <1>2, <1>3, <2>1, <2>2, LeaseIdle
<1>4. CASE Tick
  BY <1>3, <1>4 DEF Tick, environment, policyState
<1>5. CASE Operator
  <2>1. UNCHANGED <<now, lastLease, cleanedLeases>>
    BY <1>5 DEF Operator, SetLease, ClearLease, SetBudget, ClearBudget, SetWeights,
       SetLearning, ClearAlarms, SetControl, policyState
  <2> QED BY <1>1, <1>2, <1>5, <2>1, LeaseOperator, LeaseIdle
<1>6. CASE \E m \in FailingModels : UpstreamFailure(m)
  BY <1>3, <1>6 DEF UpstreamFailure, policyState
<1>7. CASE \E s \in Sessions, m \in Models, k \in Kinds, bill \in Bills : Receipt(s, m, k, bill)
  BY <1>3, <1>7 DEF Receipt, policyState
<1>8. CASE Restart
  <2>1. /\ control' = control /\ lastLease' = NoLease /\ cleanedLeases' = {}
        /\ \A s \in Sessions : sessions'[s] = NoRecord
    BY <1>8 DEF Restart
  <2>2. \A s \in Sessions : ~Live(s)'
    BY <2>1 DEF Live, NoRecord
  <2> QED BY <2>1, <2>2, LeaseTypes DEF LeaseInv, SweptLeaseHoldsNoSession, NoLease
<1>9. CASE SkipPath
  BY <1>3, <1>9 DEF SkipPath, environment
<1>10. CASE UNCHANGED vars
  BY <1>3, <1>10 DEF vars, environment, policyState
<1> QED BY <1>4, <1>5, <1>6, <1>7, <1>8, <1>9, <1>10 DEF Surroundings

LEMMA LeasedByType ==
  ASSUME HistoryInv, leasedBy \in [Sessions -> Lease], [HNext]_hvars
  PROVE  leasedBy' \in [Sessions -> Lease]
<1>1. NoLease \in Lease /\ LiveLease \in Lease
  BY LiveLeaseType DEF HistoryInv, NoLease, Lease
<1> QED BY <1>1 DEF HNext, HServe, Record, HIdle, history, hvars

LeaseHistory == HistoryInv /\ LeaseInv /\ leasedBy \in [Sessions -> Lease]

(* After the sweep of an ended lease no session is held by its pin on the  *)
(* model that lease gave it, whether the lease ran out or was cleared, and *)
(* however it was replaced before.                                         *)
THEOREM SweptLeaseNeverHolds == HSpec => []SweptLeaseHoldsNoSession
<1>1. HInit => LeaseHistory
  <2> SUFFICES ASSUME HInit PROVE LeaseHistory
    OBVIOUS
  <2>1. HistoryInv /\ leasedBy \in [Sessions -> Lease]
    BY HistoryInit DEF HInit, NoLease, Lease
  <2>2. LeaseInv
    BY DEF HInit, Init, FreshPolicyState, LeaseInv, SweptLeaseHoldsNoSession, NoLease, NoRecord,
       Live
  <2> QED BY <2>1, <2>2 DEF LeaseHistory
<1>2. LeaseHistory /\ [HNext]_hvars => LeaseHistory'
  <2> SUFFICES ASSUME LeaseHistory, [HNext]_hvars PROVE LeaseInv'
    BY HistoryNext, LeasedByType DEF LeaseHistory
  <2>1. HistoryInv /\ RoutingInv /\ LeaseInv
    BY DEF LeaseHistory, HistoryInv
  <2>2. CASE HServe
    BY <2>2, LeaseServe DEF LeaseHistory
  <2>3. CASE HIdle
    BY <2>1, <2>3, LeaseBegin, LeaseSurroundings DEF HIdle
  <2>4. CASE UNCHANGED hvars
    BY <2>1, <2>4, LeaseSurroundings DEF hvars
  <2> QED BY <2>2, <2>3, <2>4 DEF HNext
<1>3. LeaseHistory => SweptLeaseHoldsNoSession
  BY DEF LeaseHistory, LeaseInv
<1> QED BY <1>1, <1>2, <1>3, PTL DEF HSpec
=============================================================================
