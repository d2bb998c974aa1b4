-------------------------- MODULE MeasurementProofs --------------------------
(***************************************************************************)
(* Proofs about Measurement: every receipt carries the tag its user meant, *)
(* switch-back flags are exact, and no total exceeds what was billed, for  *)
(* any chats, clients, tags, prices and store sizes, and any number of     *)
(* requests, answers, sweeps, restarts and failed writes.                  *)
(***************************************************************************)
EXTENDS Measurement, Induction, SequenceTheorems

FleetTime(s) == IF fleet[s] = NoRecord THEN 0 ELSE fleet[s].ts

(* What the two records of a session say of its last turn.                  *)
TraceInv ==
    \A s \in Sessions :
        /\ turned[s] < now
        /\ turned[s] = 0 => meant[s] = NoTag
        /\ fleet[s] # NoRecord =>
               /\ fleet[s].ts <= turned[s]
               /\ fleet[s].ts = turned[s] => meant[s] \in {fleet[s].task_tag, Unsure}
        /\ own[s] # NoRecord =>
               /\ own[s].ts <= turned[s]
               /\ own[s].ts = turned[s] => meant[s] \in {own[s].task_tag, Unsure}
               /\ own[s].served_ts <= turned[s]
               /\ own[s].served_ts > 0 => own[s].served_by = hatch[s]

(* The order of the two records tells where the last turn went, while both  *)
(* are there.                                                               *)
AwayInv ==
    \A s \in Sessions :
        /\ away[s] # NoModel => away[s] = hatch[s]
        /\ away[s] = NoModel /\ own[s] # NoRecord /\ "fleet" \notin lost[s] =>
               own[s].served_ts <= FleetTime(s)
        /\ away[s] # NoModel /\ "own" \notin lost[s] =>
               own[s] # NoRecord /\ own[s].served_ts > FleetTime(s)

(* A call under way, and a receipt, has the tag its user meant, if anybody  *)
(* can know it.                                                             *)
Logged == {log[i] : i \in DOMAIN log}
CallInv ==
    \A c \in calls \cup counted \cup Logged :
        c.no < requests /\ tagged[c.no] \in {c.task, Unsure}

(* Every call has a number of its own, and its answer comes once.           *)
NumberInv ==
    /\ IsFiniteSet(counted)
    /\ \A c, d \in calls : c.no = d.no => c = d
    /\ \A c \in calls, r \in counted : c.no # r.no

(* A total is the sum of its clients' parts.                                *)
PartsInv ==
    \A totals \in {agg, file, cache}, s \in Sessions :
        totals[s].real = SumFunction(totals[s].clients)

(* What a session spent on a task is the price of its receipts.             *)
TaskSpendInv ==
    \A s \in Sessions, t \in Tags, c \in Clients :
        agg[s].tasks[<<t, c>>] = SumFunction([r \in ReceiptsOf(s, t, c) |-> Price[r.model]])

MeasurementInv ==
    /\ TypeOK
    /\ TraceInv
    /\ AwayInv
    /\ CallInv
    /\ NumberInv
    /\ SpendIsBilled
    /\ PartsInv
    /\ TaskSpendInv
-----------------------------------------------------------------------------
(* Operators.                                                               *)

(* Pruning keeps a record as it is or drops it.                             *)
LEMMA PrunedKeeps ==
  ASSUME NEW records, NEW s \in Sessions
  PROVE  Pruned(records)[s] = records[s] \/ Pruned(records)[s] = NoRecord
  BY DEF Pruned

LEMMA PrunedTypes ==
  ASSUME NEW T, NEW records \in [Sessions -> T \cup {NoRecord}]
  PROVE  Pruned(records) \in [Sessions -> T \cup {NoRecord}]
  BY DEF Pruned

(* A record newer than all others survives the pruning of its own turn.     *)
LEMMA PrunedKeepsNewest ==
  ASSUME TypeOK, NEW s \in Sessions, NEW records, records[s] # NoRecord, records[s].ts = now,
         \A o \in Sessions : records[o] # NoRecord => ~(records[o].ts > now)
  PROVE  Pruned(records)[s] = records[s]
<1>1. {o \in Held(records) : records[o].ts > records[s].ts} = {}
  BY DEF Held
<1>2. Cardinality({o \in Held(records) : records[o].ts > records[s].ts}) < SESSION_CAP
  <2>1. SESSION_CAP \in Nat \ {0}
    BY TagsAssumption
  <2>2. Cardinality({}) = 0
    BY FS_EmptySet
  <2> QED BY <1>1, <2>1, <2>2
<1>3. s \in Newest(records)
  BY <1>2 DEF Newest, Held
<1>4. now - records[s].ts <= SESSION_TTL
  <2>1. SESSION_TTL \in Nat /\ now \in Nat
    BY TagsAssumption DEF TypeOK, TagsTypeOK
  <2> QED BY <2>1
<1> QED BY <1>3, <1>4 DEF Pruned

LEMMA PrunedTotalsKeeps ==
  ASSUME NEW totals \in Totals
  PROVE  /\ PrunedTotals(totals) \in Totals
         /\ \A s \in Sessions : PrunedTotals(totals)[s] \in {totals[s], NoEntry}
<1>1. NoEntry \in Entry
  BY DEF NoEntry, Entry
<1> QED BY <1>1 DEF PrunedTotals, Totals

(* The tag a turn is given is the one its user means, if anybody can know. *)
LEMMA TagIsMeant ==
  ASSUME TypeOK, TraceInv, NEW s \in Sessions, NEW mark \in Marks
  PROVE  /\ TagOf(mark, Sticky(Pruned(fleet), s)) \in MaybeTag
         /\ Meaning(s, mark) \in {TagOf(mark, Sticky(Pruned(fleet), s)), Unsure}
<1> DEFINE held == Pruned(fleet)
<1>1. /\ held \in [Sessions -> FleetRecord \cup {NoRecord}]
      /\ own \in [Sessions -> OwnRecord \cup {NoRecord}]
      /\ turned[s] \in Nat
  BY PrunedTypes DEF TypeOK, TagsTypeOK
<1>2. held[s] = fleet[s] \/ held[s] = NoRecord
  BY PrunedKeeps
<1>3. Sticky(held, s) \in MaybeTag
  BY <1>1 DEF Sticky, FleetRecord, OwnRecord, MaybeTag
<1>4. /\ held[s] # NoRecord =>
             /\ held[s].ts \in Nat /\ held[s].ts <= turned[s]
             /\ held[s].ts = turned[s] => meant[s] \in {held[s].task_tag, Unsure}
      /\ own[s] # NoRecord =>
             /\ own[s].ts \in Nat /\ own[s].ts <= turned[s]
             /\ own[s].ts = turned[s] => meant[s] \in {own[s].task_tag, Unsure}
  BY <1>1, <1>2 DEF TraceInv, FleetRecord, OwnRecord
<1>5. Remembered(s) => meant[s] \in {Sticky(held, s), Unsure}
  <2> SUFFICES ASSUME Remembered(s) PROVE meant[s] \in {Sticky(held, s), Unsure}
    OBVIOUS
  <2>1. \/ held[s] # NoRecord /\ held[s].ts = turned[s]
        \/ own[s] # NoRecord /\ own[s].ts = turned[s]
    BY DEF Remembered
  <2> QED BY <1>1, <1>4, <2>1 DEF Sticky
<1>6. turned[s] = 0 => meant[s] \in {Sticky(held, s), Unsure}
  <2> SUFFICES ASSUME turned[s] = 0 PROVE meant[s] \in {Sticky(held, s), Unsure}
    OBVIOUS
  <2>1. CASE Remembered(s)
    BY <1>5, <2>1
  <2>2. CASE ~Remembered(s)
    <3>1. held[s] = NoRecord /\ own[s] = NoRecord
      BY <1>4, <2>2 DEF Remembered
    <3>2. meant[s] = NoTag
      BY DEF TraceInv
    <3> QED BY <3>1, <3>2 DEF Sticky
  <2> QED BY <2>1, <2>2
<1>7. TagOf(mark, Sticky(held, s)) \in MaybeTag
  BY <1>3 DEF TagOf, MaybeTag
<1> HIDE DEF held
<1>8. CASE mark = Plain
  <2>1. Plain \notin Tags /\ Plain # Clear
    BY TagsAssumption
  <2> QED BY <1>5, <1>6, <1>7, <1>8, <2>1 DEF TagOf, Meaning, held
<1>9. CASE mark # Plain
  <2>1. Clear \notin Tags /\ (mark = Clear \/ mark \in Tags)
    BY <1>9, TagsAssumption DEF Marks
  <2> QED BY <1>7, <2>1 DEF TagOf, Meaning, held
<1> QED BY <1>8, <1>9

(* Two distinct elements make a finite set of at least two.                 *)
LEMMA TwoElements ==
  ASSUME NEW S, IsFiniteSet(S)
  PROVE  Cardinality(S) >= 2 <=> \E a, b \in S : a # b
<1>1. Cardinality(S) \in Nat
  BY FS_CardinalityType
<1>2. Cardinality(S) = 0 <=> S = {}
  BY FS_EmptySet
<1>3. Cardinality(S) = 1 <=> \E x : S = {x}
  BY FS_Singleton
<1>4. CASE \E a, b \in S : a # b
  <2>1. S # {} /\ ~ \E x : S = {x}
    BY <1>4
  <2> QED BY <1>1, <1>2, <1>3, <1>4, <2>1
<1>5. CASE ~ \E a, b \in S : a # b
  <2>1. S = {} \/ \E x : S = {x}
    <3> SUFFICES ASSUME S # {} PROVE \E x : S = {x}
      OBVIOUS
    <3>1. PICK x : x \in S
      OBVIOUS
    <3>2. S = {x}
      BY <1>5, <3>1
    <3> QED BY <3>2
  <2> QED BY <1>1, <1>2, <1>3, <1>5, <2>1
<1> QED BY <1>4, <1>5

(* The clients of the receipts of a log are finitely many.                  *)
LEMMA FiniteClients ==
  ASSUME NEW receipts \in Seq(Call), NEW S \in SUBSET (DOMAIN receipts)
  PROVE  IsFiniteSet({receipts[i].client : i \in S})
<1> DEFINE T == {receipts[i].client : i \in S}
           f == [i \in S |-> receipts[i].client]
<1>1. IsFiniteSet(S)
  <2>1. Len(receipts) \in Nat /\ DOMAIN receipts = 1 .. Len(receipts)
    OBVIOUS
  <2>2. IsFiniteSet(1 .. Len(receipts))
    BY <2>1, FS_Interval
  <2> QED BY <2>1, <2>2, FS_Subset
<1>2. f \in Surjection(S, T)
  BY DEF Surjection
<1> HIDE DEF f, T
<1>3. IsFiniteSet(T)
  BY <1>1, <1>2, FS_Surjection
<1> QED BY <1>3 DEF T

(* usage_summary looks at the newest receipts, and calls a task redone when *)
(* two of them, of different clients, carry it.                             *)
LEMMA RedoOfNewest ==
  ASSUME TypeOK, NEW t \in Tags
  PROVE  t \in TaskRedo <=>
             \E i, j \in {k \in DOMAIN log : Len(log) - k < SUMMARY_LIMIT} :
                 /\ log[i].client # log[j].client
                 /\ log[i].task = t /\ log[j].task = t
<1> DEFINE newest == {k \in DOMAIN log : Len(log) - k < SUMMARY_LIMIT}
           records == TailUsage(SUMMARY_LIMIT)
           skipped == Len(log) - Len(records)
           tagging == {i \in DOMAIN records : records[i].task = t}
           clients == {records[i].client : i \in tagging}
<1>1. log \in Seq(Call) /\ Len(log) \in Nat /\ DOMAIN log = 1 .. Len(log) /\ SUMMARY_LIMIT \in Nat
  BY UsageAssumption DEF TypeOK, UsageTypeOK
<1>2. /\ records \in Seq(Call) /\ Len(records) \in Nat /\ Len(records) <= Len(log)
      /\ Len(records) = IF Len(log) <= SUMMARY_LIMIT THEN Len(log) ELSE SUMMARY_LIMIT
      /\ DOMAIN records = 1 .. Len(records)
      /\ \A i \in 1 .. Len(records) : records[i] = log[i + skipped]
  <2>1. CASE Len(log) <= SUMMARY_LIMIT
    BY <1>1, <2>1 DEF TailUsage
  <2>2. CASE ~(Len(log) <= SUMMARY_LIMIT)
    <3> DEFINE first == Len(log) - SUMMARY_LIMIT + 1
    <3>1. records = SubSeq(log, first, Len(log)) /\ first \in 1 .. Len(log) + 1
      BY <1>1, <2>2 DEF TailUsage
    <3>2. /\ records \in Seq(Call) /\ Len(records) = SUMMARY_LIMIT
          /\ \A i \in 1 .. SUMMARY_LIMIT : records[i] = log[first + i - 1]
      BY <1>1, <2>2, <3>1, SubSeqProperties
    <3> HIDE DEF records
    <3> QED BY <1>1, <2>2, <3>2
  <2> QED BY <2>1, <2>2
<1>3. t \in TaskRedo <=> Cardinality(clients) >= 2
  BY DEF TaskRedo
<1> HIDE DEF records
<1>4. IsFiniteSet(clients)
  BY <1>2, FiniteClients
<1>5. Cardinality(clients) >= 2 <=> \E a, b \in clients : a # b
  <2> HIDE DEF clients
  <2> QED BY <1>4, TwoElements
<1>a. skipped \in Nat
  BY <1>1, <1>2
<1>6. (\E a, b \in clients : a # b) <=>
          \E i, j \in tagging : records[i].client # records[j].client
  OBVIOUS
<1>7. ASSUME NEW i \in tagging
      PROVE  /\ i + skipped \in newest /\ log[i + skipped] = records[i]
             /\ records[i].task = t
  <2>1. i \in 1 .. Len(records) /\ i \in Nat /\ records[i].task = t
    BY <1>2
  <2>2. i + skipped \in 1 .. Len(log) /\ Len(log) - (i + skipped) < SUMMARY_LIMIT
    BY <1>1, <1>2, <2>1
  <2> QED BY <1>1, <1>2, <2>1, <2>2
<1>8. ASSUME NEW k \in newest, log[k].task = t
      PROVE  k - skipped \in tagging /\ records[k - skipped] = log[k]
  <2>1. k - skipped \in 1 .. Len(records)
    BY <1>1, <1>2
  <2>2. (k - skipped) + skipped = k
    BY <1>1, <1>2
  <2> QED BY <1>2, <1>8, <2>1, <2>2
<1> HIDE DEF newest, tagging, skipped
<1>9. (\E i, j \in tagging : records[i].client # records[j].client) <=>
          \E i, j \in newest : log[i].client # log[j].client /\ log[i].task = t /\ log[j].task = t
  BY <1>7, <1>8
<1> QED BY <1>3, <1>5, <1>6, <1>9 DEF newest
-----------------------------------------------------------------------------
(* The types.                                                               *)

(* Each call has a type, from the types of what it is made of.              *)
LEMMA CallTypes ==
  ASSUME TypeOK, TraceInv, NEW s \in Sessions, NEW client \in Clients, NEW model \in Models,
         NEW mark \in Marks, NEW back \in MaybeModel
  PROVE  CallOf(s, client, model, TagOf(mark, Sticky(Pruned(fleet), s)), back) \in Call
<1>1. TagOf(mark, Sticky(Pruned(fleet), s)) \in MaybeTag
  BY TagIsMeant
<1> QED BY <1>1 DEF CallOf, Call, TypeOK, TagsTypeOK

LEMMA LostTypes ==
  ASSUME TypeOK, NEW keptFleet, NEW keptOwn
  PROVE  Lost(keptFleet, keptOwn) \in [Sessions -> SUBSET {"fleet", "own"}]
  BY DEF Lost, Missing, TypeOK

(* A request of either route: what each record and its call become.         *)
LEMMA RequestTypes ==
  ASSUME TypeOK, TraceInv, NEW s \in Sessions, NEW client \in Clients, NEW model \in Models,
         NEW mark \in Marks, NEW back \in MaybeModel,
         Request(CallOf(s, client, model, TagOf(mark, Sticky(Pruned(fleet), s)), back)),
         Taken(s, mark)
  PROVE  /\ now' \in Nat /\ requests' \in Nat /\ disturbances' \in Nat
         /\ calls' \subseteq Call
         /\ meant' \in [Sessions -> MaybeTag \cup {Unsure}]
         /\ tagged' \in [0 .. MaxRequests - 1 -> MaybeTag \cup {Unsure}]
         /\ turned' \in [Sessions -> Nat]
         /\ billed' \in [Sessions -> Nat] /\ counted' \subseteq Call /\ answers' \in Nat
<1>1. CallOf(s, client, model, TagOf(mark, Sticky(Pruned(fleet), s)), back) \in Call
  BY CallTypes
<1>2. Meaning(s, mark) \in MaybeTag \cup {Unsure}
  BY TagIsMeant
<1>3. /\ now' \in Nat /\ requests' \in Nat /\ disturbances' \in Nat
      /\ calls' \subseteq Call
  BY <1>1 DEF Request, TypeOK, TagsTypeOK
<1>4. /\ meant' \in [Sessions -> MaybeTag \cup {Unsure}]
      /\ tagged' \in [0 .. MaxRequests - 1 -> MaybeTag \cup {Unsure}]
      /\ turned' \in [Sessions -> Nat]
  BY <1>2 DEF Taken, TypeOK, TagsTypeOK
<1>5. /\ billed' \in [Sessions -> Nat] /\ counted' \subseteq Call /\ answers' \in Nat
  BY DEF Taken, TypeOK, billHistory
<1> QED BY <1>3, <1>4, <1>5

LEMMA AnnotatedTypes ==
  ASSUME TypeOK, TraceInv, NEW s \in Sessions, NEW mark \in Marks, NEW model \in MaybeModel
  PROVE  Pruned(Annotated(s, TagOf(mark, Sticky(Pruned(fleet), s)), model))
             \in [Sessions -> OwnRecord \cup {NoRecord}]
<1> DEFINE task == TagOf(mark, Sticky(Pruned(fleet), s))
<1>1. task \in MaybeTag
  BY TagIsMeant
<1>2. /\ now \in Nat /\ own \in [Sessions -> OwnRecord \cup {NoRecord}]
  BY DEF TypeOK, TagsTypeOK
<1>3. own[s] # NoRecord => own[s].served_by \in MaybeModel /\ own[s].served_ts \in Nat
  BY <1>2 DEF OwnRecord
<1>4. ServedBy(s, model) \in MaybeModel /\ ServedTs(s, model) \in Nat
  BY <1>2, <1>3 DEF ServedBy, ServedTs
<1> HIDE DEF task
<1>5. [ts |-> now, task_tag |-> task, served_by |-> ServedBy(s, model),
       served_ts |-> ServedTs(s, model)] \in OwnRecord
  BY <1>1, <1>2, <1>4 DEF OwnRecord
<1>6. Annotated(s, task, model) \in [Sessions -> OwnRecord \cup {NoRecord}]
  BY <1>2, <1>5 DEF Annotated
<1> QED BY <1>6, PrunedTypes DEF task

LEMMA FleetTypes ==
  ASSUME TypeOK
  PROVE  Pruned(fleet) \in [Sessions -> FleetRecord \cup {NoRecord}]
  BY PrunedTypes DEF TypeOK, TagsTypeOK

LEMMA ChargedTypes ==
  ASSUME TypeOK, NEW call \in calls
  PROVE  /\ call \in Call /\ Price[call.model] \in Nat
         /\ Charged(agg[call.session], call) \in Entry
         /\ Charged(agg[call.session], call).real = agg[call.session].real + Price[call.model]
         /\ [agg EXCEPT ![call.session] = Charged(@, call)] \in Totals
         /\ Receipt(call) = call
<1>1. /\ call \in Call /\ call.session \in Sessions /\ call.client \in Clients
      /\ call.model \in Models /\ call.task \in MaybeTag /\ now \in Nat
      /\ agg \in Totals
  BY DEF TypeOK, TagsTypeOK, UsageTypeOK, Call
<1>2. Price[call.model] \in Nat
  BY <1>1, UsageAssumption
<1>3. agg[call.session] \in Entry
  BY <1>1 DEF Totals
<1> DEFINE entry == agg[call.session]
<1>4. [entry.clients EXCEPT ![call.client] = @ + Price[call.model]] \in [Clients -> Nat]
  BY <1>1, <1>2, <1>3 DEF Entry
<1>5. CASE call.task = NoTag
  <2>1. Charged(entry, call) \in Entry
    BY <1>1, <1>2, <1>3, <1>4, <1>5 DEF Charged, Entry, TaskAtCall
  <2> QED BY <1>1, <1>2, <2>1 DEF Charged, Totals, Receipt, TaskAtCall, Call
<1>6. CASE call.task # NoTag
  <2>1. call.task \in Tags
    BY <1>1, <1>6 DEF MaybeTag
  <2>2. [entry.tasks EXCEPT ![<<call.task, call.client>>] = @ + Price[call.model]]
            \in [Tags \X Clients -> Nat]
    BY <1>1, <1>2, <1>3, <2>1 DEF Entry
  <2>3. Charged(entry, call) \in Entry
    BY <1>1, <1>2, <1>3, <1>4, <1>6, <2>2 DEF Charged, Entry, TaskAtCall
  <2> QED BY <1>1, <1>2, <2>3 DEF Charged, Totals, Receipt, TaskAtCall, Call
<1> QED BY <1>5, <1>6

LEMMA NoEntryParts == NoEntry.real = SumFunction(NoEntry.clients)
  BY UsageAssumption, SumOfZeros DEF NoEntry, SumFunction

LEMMA NoReceipts == SumFunction([r \in {} |-> Price[r.model]]) = 0
  BY SumOfEmpty DEF SumFunction

(* A receipt is added to the total and to the part of its client.           *)
LEMMA ChargedParts ==
  ASSUME TypeOK, NEW call \in calls,
         agg[call.session].real = SumFunction(agg[call.session].clients)
  PROVE  Charged(agg[call.session], call).real =
             SumFunction(Charged(agg[call.session], call).clients)
<1> DEFINE before == agg[call.session].clients
           after == [before EXCEPT ![call.client] = @ + Price[call.model]]
<1>1. call.session \in Sessions /\ call.client \in Clients /\ Price[call.model] \in Nat
  BY ChargedTypes DEF Call
<1>2. before \in [Clients -> Nat] /\ agg[call.session].real \in Nat
  BY <1>1 DEF TypeOK, UsageTypeOK, Totals, Entry
<1>3. /\ Charged(agg[call.session], call).clients = after
      /\ Charged(agg[call.session], call).real = agg[call.session].real + Price[call.model]
  BY DEF Charged
<1> HIDE DEF before
<1>4. /\ DOMAIN before = Clients /\ DOMAIN after = Clients
      /\ \A c \in Clients : before[c] \in Int /\ after[c] \in Int
      /\ \A c \in Clients \ {call.client} : after[c] = before[c]
      /\ after[call.client] = before[call.client] + Price[call.model]
  BY <1>1, <1>2
<1> HIDE DEF after
<1>5. SumFunctionOnSet(after, Clients) =
          SumFunctionOnSet(before, Clients) - before[call.client] + after[call.client]
  BY <1>1, <1>4, SumOfChanged, UsageAssumption
<1>6. SumFunctionOnSet(before, Clients) = agg[call.session].real
  BY <1>4 DEF SumFunction, before
<1> QED BY <1>1, <1>2, <1>3, <1>4, <1>5, <1>6 DEF SumFunction
-----------------------------------------------------------------------------
(* The steps.                                                               *)

LEMMA InitCorrect == Init => MeasurementInv
<1> SUFFICES ASSUME Init PROVE MeasurementInv
  OBVIOUS
<1> USE DEF Init, TagsInit, UsageInit
<1>1. NoTotals \in Totals
  BY DEF NoTotals, Totals, NoEntry, Entry
<1>2. TagsTypeOK /\ UsageTypeOK
  BY <1>1 DEF TagsTypeOK, UsageTypeOK
<1>3. TypeOK
  BY <1>2 DEF TypeOK, MaybeTag, MaybeModel
<1>4. TraceInv /\ AwayInv
  BY DEF TraceInv, AwayInv
<1>5. CallInv
  BY DEF CallInv, Logged
<1>6. SpendIsBilled
  BY DEF SpendIsBilled, NoTotals, NoEntry
<1>7. NumberInv
  BY FS_EmptySet DEF NumberInv
<1>8. PartsInv
  BY NoEntryParts DEF PartsInv, NoTotals
<1>9. TaskSpendInv
  <2>1. \A s \in Sessions, t \in Tags, c \in Clients : ReceiptsOf(s, t, c) = {}
    BY DEF ReceiptsOf
  <2> QED BY <2>1, NoReceipts DEF TaskSpendInv, NoTotals, NoEntry
<1> QED BY <1>3, <1>4, <1>5, <1>6, <1>7, <1>8, <1>9 DEF MeasurementInv

LEMMA TypeStep ==
  ASSUME MeasurementInv, [Next]_vars
  PROVE  TypeOK'
<1> USE DEF MeasurementInv
<1>1. ASSUME NEW s \in Sessions, NEW client \in Clients, NEW model \in FleetModels,
             NEW mark \in Marks, Decide(s, client, model, mark)
      PROVE  TypeOK'
  <2>1. SwitchBackFrom(Pruned(fleet), s) \in MaybeModel /\ model \in Models
    <3>1. own[s] = NoRecord \/ own[s].served_by \in MaybeModel
      BY DEF TypeOK, TagsTypeOK, OwnRecord
    <3> QED BY <3>1 DEF SwitchBackFrom, MaybeModel, Models
  <2>2. TagOf(mark, Sticky(Pruned(fleet), s)) \in MaybeTag
    BY TagIsMeant
  <2>3. [ts |-> now, task_tag |-> TagOf(mark, Sticky(Pruned(fleet), s))] \in FleetRecord
    BY <2>2 DEF FleetRecord, TypeOK, TagsTypeOK
  <2>4. fleet' \in [Sessions -> FleetRecord \cup {NoRecord}] /\ own' = own
    BY <1>1, <2>3, FleetTypes DEF Decide, FleetTurn
  <2>5. TagsTypeOK'
    BY <1>1, <2>1, <2>4, RequestTypes DEF Decide, FleetTurn, TagsTypeOK, TypeOK
  <2>6. UsageTypeOK'
    BY <1>1 DEF Decide, LoadView, UsageTypeOK, TypeOK
  <2>7. lost' \in [Sessions -> SUBSET {"fleet", "own"}]
    BY <1>1, LostTypes DEF Decide
  <2>8. away' \in [Sessions -> MaybeModel] /\ hatch' \in [Sessions -> MaybeModel]
    BY <1>1 DEF Decide, TypeOK, MaybeModel
  <2> QED BY <1>1, <2>1, <2>5, <2>6, <2>7, <2>8, RequestTypes DEF Decide, FleetTurn, TypeOK
<1>2. ASSUME NEW s \in Sessions, NEW client \in Clients, NEW model \in DirectModels,
             NEW mark \in Marks, Bypass(s, client, model, mark)
      PROVE  TypeOK'
  <2>1. model \in Models /\ model \in MaybeModel /\ NoModel \in MaybeModel
    BY DEF Models, MaybeModel
  <2>2. fleet' \in [Sessions -> FleetRecord \cup {NoRecord}]
    BY <1>2, FleetTypes DEF Bypass, DirectTurn
  <2>3. own' \in [Sessions -> OwnRecord \cup {NoRecord}]
    BY <1>2, <2>1, AnnotatedTypes DEF Bypass, DirectTurn
  <2>4. TagsTypeOK'
    BY <1>2, <2>1, <2>2, <2>3, RequestTypes DEF Bypass, DirectTurn, TagsTypeOK
  <2>5. UsageTypeOK'
    BY <1>2 DEF Bypass, usageVars, UsageTypeOK, TypeOK
  <2>6. lost' \in [Sessions -> SUBSET {"fleet", "own"}]
    BY <1>2, LostTypes DEF Bypass
  <2>7. away' \in [Sessions -> MaybeModel] /\ hatch' \in [Sessions -> MaybeModel]
    BY <1>2, <2>1 DEF Bypass, TypeOK
  <2> QED BY <1>2, <2>1, <2>4, <2>5, <2>6, <2>7, RequestTypes DEF Bypass, DirectTurn, TypeOK
<1>3. ASSUME NEW s \in Sessions, NEW client \in Clients, NEW model \in FleetModels,
             PassOn(s, client, model)
      PROVE  TypeOK'
  <2>1. model \in Models /\ NoModel \in MaybeModel /\ Plain \in Marks
    BY DEF Models, MaybeModel, Marks
  <2>2. fleet' \in [Sessions -> FleetRecord \cup {NoRecord}]
    BY <1>3, FleetTypes DEF PassOn, NoAskTurn
  <2>3. own' \in [Sessions -> OwnRecord \cup {NoRecord}]
    BY <1>3, <2>1, AnnotatedTypes DEF PassOn, NoAskTurn
  <2>4. TagsTypeOK'
    BY <1>3, <2>1, <2>2, <2>3, RequestTypes DEF PassOn, NoAskTurn, TagsTypeOK
  <2>5. UsageTypeOK' /\ away' = away /\ hatch' = hatch
    BY <1>3 DEF PassOn, usageVars, UsageTypeOK, TypeOK
  <2>6. lost' \in [Sessions -> SUBSET {"fleet", "own"}]
    BY <1>3, LostTypes DEF PassOn
  <2> QED BY <1>3, <2>1, <2>4, <2>5, <2>6, RequestTypes DEF PassOn, NoAskTurn, TypeOK
<1>4. ASSUME NEW call \in calls, Deliver(call)
      PROVE  TypeOK'
  <2> DEFINE charged == [agg EXCEPT ![call.session] = Charged(@, call)]
  <2>1. charged \in Totals /\ call \in Call /\ Price[call.model] \in Nat /\ Receipt(call) = call
    BY ChargedTypes
  <2>2. agg' = PrunedTotals(charged) /\ agg' \in Totals
    BY <1>4, <2>1, PrunedTotalsKeeps DEF Deliver, RecordReceipt
  <2>3. log' \in Seq(Call)
    <3>1. log' \in {Append(log, call), <<call>>, <<>>, log}
      BY <1>4, <2>1 DEF Deliver, RecordReceipt, AppendReceipt, RotateLog, LoseReceipt
    <3>2. log \in Seq(Call)
      BY DEF TypeOK, UsageTypeOK
    <3>3. /\ Append(log, call) \in Seq(Call) /\ <<call>> \in Seq(Call) /\ <<>> \in Seq(Call)
      BY <2>1, <3>2
    <3> QED BY <3>1, <3>2, <3>3
  <2>6. file' \in Totals /\ stamp' \in Nat /\ disturbances' \in Nat
    <3>1. PICK m, u \in {0, 1} : (FlushTotals \/ FailToFlush) /\ Disturbances(m + u)
      BY <1>4 DEF Deliver, RecordReceipt
    <3> QED BY <2>2, <3>1 DEF FlushTotals, FlushOver, FailToFlush, Disturbances, TypeOK,
          UsageTypeOK, TagsTypeOK
  <2>4. UsageTypeOK'
    BY <1>4, <2>2, <2>3, <2>6 DEF Deliver, RecordReceipt, UsageTypeOK, TypeOK
  <2>5. TagsTypeOK'
    BY <1>4, <2>6 DEF Deliver, TagsTypeOK, TypeOK
  <2>7. billed' \in [Sessions -> Nat] /\ counted' \subseteq Call
    BY <1>4, <2>1 DEF Deliver, TypeOK, Call
  <2> QED BY <1>4, <2>4, <2>5, <2>7 DEF Deliver, TypeOK, tagHistory
<1>5. ASSUME NEW pinned \in SUBSET Sessions, EndLease(pinned)
      PROVE  TypeOK'
  <2>1. fleet' \in [Sessions -> FleetRecord \cup {NoRecord}]
    BY <1>5 DEF EndLease, Sweep, TypeOK, TagsTypeOK
  <2>2. TagsTypeOK' /\ UsageTypeOK'
    BY <1>5, <2>1 DEF EndLease, Sweep, Disturbances, TypeOK, TagsTypeOK, UsageTypeOK, usageVars
  <2>3. lost' \in [Sessions -> SUBSET {"fleet", "own"}]
    BY <1>5, LostTypes DEF EndLease
  <2> QED BY <1>5, <2>2, <2>3 DEF EndLease, TypeOK, tagHistory, billHistory
<1>6. CASE Restart
  <2>1. NoTotals \in Totals
    BY DEF NoTotals, Totals, NoEntry, Entry
  <2>2. TagsTypeOK' /\ UsageTypeOK'
    BY <1>6, <2>1 DEF Restart, TagsRestart, UsageRestart, Disturbances, TypeOK, TagsTypeOK,
       UsageTypeOK
  <2>3. lost' \in [Sessions -> SUBSET {"fleet", "own"}]
    BY <1>6, LostTypes DEF Restart
  <2> QED BY <1>6, <2>2, <2>3 DEF Restart, TypeOK, tagHistory
<1>7. CASE UNCHANGED vars
  BY <1>7 DEF vars, tagVars, usageVars, tagHistory, billHistory, TypeOK, TagsTypeOK, UsageTypeOK
<1> QED BY <1>1, <1>2, <1>3, <1>4, <1>5, <1>6, <1>7 DEF Next

LEMMA TraceStep ==
  ASSUME MeasurementInv, [Next]_vars
  PROVE  TraceInv'
<1> USE DEF MeasurementInv
<1>0. /\ now \in Nat
      /\ \A t \in Sessions : /\ turned[t] \in Nat /\ turned[t] < now
                             /\ fleet[t] # NoRecord => fleet[t].ts \in Nat
                             /\ own[t] # NoRecord => own[t].ts \in Nat /\ own[t].served_ts \in Nat
  BY DEF TypeOK, TagsTypeOK, TraceInv, FleetRecord, OwnRecord
<1>1. ASSUME NEW s \in Sessions, NEW client \in Clients, NEW model \in FleetModels,
             NEW mark \in Marks, Decide(s, client, model, mark)
      PROVE  TraceInv'
  <2> DEFINE task == TagOf(mark, Sticky(Pruned(fleet), s))
             meaning == Meaning(s, mark)
  <2>1. task \in MaybeTag /\ meaning \in {task, Unsure}
    BY TagIsMeant
  <2>2. /\ now' = now + 1 /\ own' = own /\ hatch' = hatch
        /\ fleet' = [Pruned(fleet) EXCEPT ![s] = [ts |-> now, task_tag |-> task]]
        /\ meant' = [meant EXCEPT ![s] = meaning] /\ turned' = [turned EXCEPT ![s] = now]
    BY <1>1, <2>1 DEF Decide, FleetTurn, Request, Taken
  <2> HIDE DEF task, meaning
  <2>3. ASSUME NEW t \in Sessions
        PROVE  /\ turned'[t] < now'
               /\ turned'[t] = 0 => meant'[t] = NoTag
               /\ fleet'[t] # NoRecord =>
                      /\ fleet'[t].ts <= turned'[t]
                      /\ fleet'[t].ts = turned'[t] => meant'[t] \in {fleet'[t].task_tag, Unsure}
               /\ own'[t] # NoRecord =>
                      /\ own'[t].ts <= turned'[t]
                      /\ own'[t].ts = turned'[t] => meant'[t] \in {own'[t].task_tag, Unsure}
                      /\ own'[t].served_ts <= turned'[t]
                      /\ own'[t].served_ts > 0 => own'[t].served_by = hatch'[t]
    <3>1. /\ meant'[t] = IF t = s THEN meaning ELSE meant[t]
          /\ turned'[t] = IF t = s THEN now ELSE turned[t]
          /\ fleet'[t] = IF t = s THEN [ts |-> now, task_tag |-> task] ELSE Pruned(fleet)[t]
      BY <2>2, FleetTypes DEF TypeOK, TagsTypeOK
    <3>2. CASE t = s
      BY <1>0, <2>1, <2>2, <3>1, PrunedKeeps, <3>2 DEF TraceInv
    <3>3. CASE t # s
      BY <1>0, <2>1, <2>2, <3>1, PrunedKeeps, <3>3 DEF TraceInv
    <3> QED BY <3>2, <3>3
  <2> QED BY <2>3 DEF TraceInv
<1>2. ASSUME NEW s \in Sessions, NEW client \in Clients, NEW model \in DirectModels,
             NEW mark \in Marks, Bypass(s, client, model, mark)
      PROVE  TraceInv'
  <2> DEFINE task == TagOf(mark, Sticky(Pruned(fleet), s))
             meaning == Meaning(s, mark)
  <2>1. task \in MaybeTag /\ meaning \in {task, Unsure} /\ model # NoModel
    BY TagIsMeant, TagsAssumption DEF Models
  <2>2. /\ now' = now + 1 /\ fleet' = Pruned(fleet)
        /\ own' = Pruned(Annotated(s, task, model))
        /\ hatch' = [hatch EXCEPT ![s] = model]
        /\ meant' = [meant EXCEPT ![s] = meaning] /\ turned' = [turned EXCEPT ![s] = now]
    BY <1>2, <2>1 DEF Bypass, DirectTurn, Request, Taken
  <2> HIDE DEF task, meaning
  <2>3. \A t \in Sessions : Annotated(s, task, model)[t] =
            IF t = s THEN [ts |-> now, task_tag |-> task, served_by |-> model, served_ts |-> now]
            ELSE own[t]
    BY <2>1 DEF Annotated, ServedBy, ServedTs, TypeOK, TagsTypeOK
  <2>4. ASSUME NEW t \in Sessions
        PROVE  /\ turned'[t] < now'
               /\ turned'[t] = 0 => meant'[t] = NoTag
               /\ fleet'[t] # NoRecord =>
                      /\ fleet'[t].ts <= turned'[t]
                      /\ fleet'[t].ts = turned'[t] => meant'[t] \in {fleet'[t].task_tag, Unsure}
               /\ own'[t] # NoRecord =>
                      /\ own'[t].ts <= turned'[t]
                      /\ own'[t].ts = turned'[t] => meant'[t] \in {own'[t].task_tag, Unsure}
                      /\ own'[t].served_ts <= turned'[t]
                      /\ own'[t].served_ts > 0 => own'[t].served_by = hatch'[t]
    <3>1. /\ meant'[t] = IF t = s THEN meaning ELSE meant[t]
          /\ turned'[t] = IF t = s THEN now ELSE turned[t]
          /\ hatch'[t] = IF t = s THEN model ELSE hatch[t]
          /\ fleet'[t] \in {fleet[t], NoRecord}
          /\ own'[t] \in {Annotated(s, task, model)[t], NoRecord}
      BY <2>2, PrunedKeeps DEF TypeOK
    <3>2. CASE t = s
      BY <1>0, <2>1, <2>2, <2>3, <3>1, <3>2 DEF TraceInv
    <3>3. CASE t # s
      BY <1>0, <2>1, <2>2, <2>3, <3>1, <3>3 DEF TraceInv
    <3> QED BY <3>2, <3>3
  <2> QED BY <2>4 DEF TraceInv
<1>3. ASSUME NEW s \in Sessions, NEW client \in Clients, NEW model \in FleetModels,
             PassOn(s, client, model)
      PROVE  TraceInv'
  <2> DEFINE task == TagOf(Plain, Sticky(Pruned(fleet), s))
             meaning == Meaning(s, Plain)
  <2>1. task \in MaybeTag /\ meaning \in {task, Unsure}
    BY TagIsMeant DEF Marks
  <2>2. /\ now' = now + 1 /\ fleet' = Pruned(fleet) /\ hatch' = hatch
        /\ own' = Pruned(Annotated(s, task, NoModel))
        /\ meant' = [meant EXCEPT ![s] = meaning] /\ turned' = [turned EXCEPT ![s] = now]
    BY <1>3, <2>1 DEF PassOn, NoAskTurn, Request, Taken
  <2> HIDE DEF task, meaning
  <2>3. \A t \in Sessions : Annotated(s, task, NoModel)[t] =
            IF t = s THEN [ts |-> now, task_tag |-> task, served_by |-> ServedBy(s, NoModel),
                           served_ts |-> ServedTs(s, NoModel)]
            ELSE own[t]
    BY DEF Annotated, TypeOK, TagsTypeOK
  <2>4. /\ ServedTs(s, NoModel) = IF own[s] = NoRecord THEN 0 ELSE own[s].served_ts
        /\ own[s] # NoRecord => ServedBy(s, NoModel) = own[s].served_by
    BY DEF ServedTs, ServedBy
  <2>5. ASSUME NEW t \in Sessions
        PROVE  /\ turned'[t] < now'
               /\ turned'[t] = 0 => meant'[t] = NoTag
               /\ fleet'[t] # NoRecord =>
                      /\ fleet'[t].ts <= turned'[t]
                      /\ fleet'[t].ts = turned'[t] => meant'[t] \in {fleet'[t].task_tag, Unsure}
               /\ own'[t] # NoRecord =>
                      /\ own'[t].ts <= turned'[t]
                      /\ own'[t].ts = turned'[t] => meant'[t] \in {own'[t].task_tag, Unsure}
                      /\ own'[t].served_ts <= turned'[t]
                      /\ own'[t].served_ts > 0 => own'[t].served_by = hatch'[t]
    <3>1. /\ meant'[t] = IF t = s THEN meaning ELSE meant[t]
          /\ turned'[t] = IF t = s THEN now ELSE turned[t]
          /\ fleet'[t] \in {fleet[t], NoRecord}
          /\ own'[t] \in {Annotated(s, task, NoModel)[t], NoRecord}
      BY <2>2, PrunedKeeps DEF TypeOK
    <3>2. CASE t = s
      BY <1>0, <2>1, <2>2, <2>3, <2>4, <3>1, <3>2 DEF TraceInv
    <3>3. CASE t # s
      BY <1>0, <2>1, <2>2, <2>3, <2>4, <3>1, <3>3 DEF TraceInv
    <3> QED BY <3>2, <3>3
  <2> QED BY <2>5 DEF TraceInv
<1>4. ASSUME NEW call \in calls, Deliver(call)
      PROVE  TraceInv'
  BY <1>0, <1>4 DEF Deliver, TraceInv, tagHistory
<1>5. ASSUME NEW pinned \in SUBSET Sessions, EndLease(pinned)
      PROVE  TraceInv'
  BY <1>5 DEF EndLease, Sweep, TraceInv, tagHistory
<1>6. CASE Restart
  BY <1>6 DEF Restart, TagsRestart, TraceInv, tagHistory
<1>7. CASE UNCHANGED vars
  BY <1>7 DEF vars, tagVars, tagHistory, TraceInv
<1> QED BY <1>1, <1>2, <1>3, <1>4, <1>5, <1>6, <1>7 DEF Next

(* Lost notes each record that a step dropped.                              *)
LEMMA LostNotes ==
  ASSUME NEW keptFleet, NEW keptOwn, NEW s \in Sessions
  PROVE  /\ lost[s] \subseteq Lost(keptFleet, keptOwn)[s]
         /\ fleet[s] # NoRecord /\ keptFleet[s] = NoRecord =>
                "fleet" \in Lost(keptFleet, keptOwn)[s]
         /\ own[s] # NoRecord /\ keptOwn[s] = NoRecord => "own" \in Lost(keptFleet, keptOwn)[s]
  BY DEF Lost, Missing

(* A step that only drops records, and notes which, leaves the order of     *)
(* those that stay.                                                         *)
LEMMA DroppedOrder ==
  ASSUME MeasurementInv, NEW t \in Sessions,
         fleet'[t] \in {fleet[t], NoRecord}, own'[t] \in {own[t], NoRecord},
         away'[t] = away[t], hatch'[t] = hatch[t],
         lost'[t] = Lost(fleet', own')[t]
  PROVE  /\ away'[t] # NoModel => away'[t] = hatch'[t]
         /\ away'[t] = NoModel /\ own'[t] # NoRecord /\ "fleet" \notin lost'[t] =>
                own'[t].served_ts <= FleetTime(t)'
         /\ away'[t] # NoModel /\ "own" \notin lost'[t] =>
                own'[t] # NoRecord /\ own'[t].served_ts > FleetTime(t)'
<1>1. /\ lost[t] \subseteq lost'[t]
      /\ fleet[t] # NoRecord /\ fleet'[t] = NoRecord => "fleet" \in lost'[t]
      /\ own[t] # NoRecord /\ own'[t] = NoRecord => "own" \in lost'[t]
  BY LostNotes
<1>2. /\ fleet[t] # NoRecord => fleet[t].ts \in Nat
      /\ own[t] # NoRecord => own[t].served_ts \in Nat
  BY DEF MeasurementInv, TypeOK, TagsTypeOK, FleetRecord, OwnRecord
<1> QED BY <1>1, <1>2 DEF MeasurementInv, AwayInv, FleetTime

LEMMA AwayStep ==
  ASSUME MeasurementInv, [Next]_vars
  PROVE  AwayInv'
<1> USE DEF MeasurementInv
<1> DEFINE Ordered(t) ==
        /\ away[t] # NoModel => away[t] = hatch[t]
        /\ away[t] = NoModel /\ own[t] # NoRecord /\ "fleet" \notin lost[t] =>
               own[t].served_ts <= FleetTime(t)
        /\ away[t] # NoModel /\ "own" \notin lost[t] =>
               own[t] # NoRecord /\ own[t].served_ts > FleetTime(t)
<1>a. SUFFICES ASSUME NEW t \in Sessions PROVE Ordered(t)'
  BY DEF AwayInv
<1>0. /\ now \in Nat /\ turned[t] \in Nat /\ turned[t] < now
      /\ fleet[t] # NoRecord => fleet[t].ts \in Nat /\ fleet[t].ts <= turned[t]
      /\ own[t] # NoRecord => own[t].served_ts \in Nat /\ own[t].served_ts <= turned[t]
  BY DEF TypeOK, TagsTypeOK, TraceInv, FleetRecord, OwnRecord
<1>1. ASSUME NEW s \in Sessions, NEW client \in Clients, NEW model \in FleetModels,
             NEW mark \in Marks, Decide(s, client, model, mark)
      PROVE  Ordered(t)'
  <2>1. CASE t = s
    <3>1. fleet'[t] # NoRecord => fleet'[t].ts = now
      BY <1>1, <2>1, FleetTypes DEF Decide, FleetTurn
    <3>2. /\ fleet'[t] = [ts |-> now, task_tag |-> TagOf(mark, Sticky(Pruned(fleet), s))]
          /\ away'[t] = NoModel /\ own' = own
      BY <1>1, <2>1, FleetTypes DEF Decide, FleetTurn, TypeOK
    <3>3. fleet'[t] # NoRecord
      <4>1. TagOf(mark, Sticky(Pruned(fleet), s)) \in MaybeTag
        BY TagIsMeant
      <4> QED BY <1>0, <3>2, <4>1, TagsAssumption DEF FleetRecord
    <3> QED BY <1>0, <3>1, <3>2, <3>3 DEF FleetTime
  <2>2. CASE t # s
    <3>1. /\ fleet'[t] = Pruned(fleet)[t] /\ own' = own /\ away'[t] = away[t]
          /\ hatch' = hatch /\ lost'[t] = Lost(Pruned(fleet), own)[t]
      BY <1>1, <2>2, FleetTypes DEF Decide, FleetTurn, TypeOK, Lost
    <3>2. lost'[t] = Lost(fleet', own')[t]
      BY <3>1 DEF Lost, Missing
    <3> QED BY <3>1, <3>2, PrunedKeeps, DroppedOrder
  <2> QED BY <2>1, <2>2
<1>2. ASSUME NEW s \in Sessions, NEW client \in Clients, NEW model \in DirectModels,
             NEW mark \in Marks, Bypass(s, client, model, mark)
      PROVE  Ordered(t)'
  <2> DEFINE task == TagOf(mark, Sticky(Pruned(fleet), s))
             annotated == Annotated(s, task, model)
  <2>1. /\ task \in MaybeTag /\ model # NoModel /\ model \in MaybeModel
    BY TagIsMeant, TagsAssumption DEF Models, MaybeModel
  <2>2. /\ fleet' = Pruned(fleet) /\ own' = Pruned(annotated)
        /\ away' = [away EXCEPT ![s] = model] /\ hatch' = [hatch EXCEPT ![s] = model]
        /\ lost' = Lost(fleet', own')
    BY <1>2 DEF Bypass, DirectTurn
  <2> HIDE DEF task
  <2>3. \A o \in Sessions : annotated[o] =
            IF o = s THEN [ts |-> now, task_tag |-> task, served_by |-> model, served_ts |-> now]
            ELSE own[o]
    BY <2>1 DEF Annotated, ServedBy, ServedTs, TypeOK, TagsTypeOK
  <2>4. CASE t = s
    <3>1. away'[t] = model /\ hatch'[t] = model
      BY <2>2, <2>4 DEF TypeOK
    <3>2. annotated[s] # NoRecord /\ annotated[s].ts = now /\ annotated[s].served_ts = now
      BY <1>0, <2>1, <2>3, TagsAssumption DEF OwnRecord
    <3>3. \A o \in Sessions : annotated[o] # NoRecord => ~(annotated[o].ts > now)
      <4>1. \A o \in Sessions : own[o] # NoRecord => own[o].ts \in Nat /\ own[o].ts < now
        BY <1>0 DEF TypeOK, TagsTypeOK, TraceInv, OwnRecord
      <4> QED BY <1>0, <2>3, <4>1
    <3>4. own'[t] = annotated[s]
      BY <2>2, <2>4, <3>2, <3>3, PrunedKeepsNewest
    <3>5. fleet'[t] = fleet[t] \/ fleet'[t] = NoRecord
      BY <2>2, PrunedKeeps
    <3> QED BY <1>0, <2>1, <3>1, <3>2, <3>4, <3>5 DEF FleetTime
  <2>5. CASE t # s
    <3>1. /\ fleet'[t] \in {fleet[t], NoRecord} /\ own'[t] \in {own[t], NoRecord}
          /\ away'[t] = away[t] /\ hatch'[t] = hatch[t]
      BY <2>2, <2>3, <2>5, PrunedKeeps DEF TypeOK
    <3> QED BY <2>2, <3>1, DroppedOrder
  <2> QED BY <2>4, <2>5
<1>3. ASSUME NEW s \in Sessions, NEW client \in Clients, NEW model \in FleetModels,
             PassOn(s, client, model)
      PROVE  Ordered(t)'
  <2> DEFINE task == TagOf(Plain, Sticky(Pruned(fleet), s))
             annotated == Annotated(s, task, NoModel)
  <2>1. /\ fleet' = Pruned(fleet) /\ own' = Pruned(annotated)
        /\ away' = away /\ hatch' = hatch /\ lost' = Lost(fleet', own')
    BY <1>3 DEF PassOn, NoAskTurn
  <2> HIDE DEF task
  <2>2. \A o \in Sessions : annotated[o] =
            IF o = s THEN [ts |-> now, task_tag |-> task, served_by |-> ServedBy(s, NoModel),
                           served_ts |-> ServedTs(s, NoModel)]
            ELSE own[o]
    BY DEF Annotated, TypeOK, TagsTypeOK
  <2>3. fleet'[t] = fleet[t] \/ fleet'[t] = NoRecord
    BY <2>1, PrunedKeeps
  <2>4. CASE t = s
    <3>1. /\ lost[t] \subseteq lost'[t]
          /\ fleet[t] # NoRecord /\ fleet'[t] = NoRecord => "fleet" \in lost'[t]
          /\ own[t] # NoRecord /\ own'[t] = NoRecord => "own" \in lost'[t]
      BY <2>1, LostNotes
    <3>2. own'[t] # NoRecord => own'[t].served_ts = ServedTs(s, NoModel)
      BY <2>1, <2>2, <2>4, PrunedKeeps
    <3>3. ServedTs(s, NoModel) = IF own[t] = NoRecord THEN 0 ELSE own[t].served_ts
      BY <2>4 DEF ServedTs
    <3>4. FleetTime(t) \in Nat /\ FleetTime(t)' \in Nat /\ FleetTime(t)' <= FleetTime(t)
      BY <1>0, <2>3 DEF FleetTime
    <3>5. fleet'[t] = fleet[t] \/ "fleet" \in lost'[t]
      BY <2>3, <3>1
    <3>6. fleet'[t] = fleet[t] => FleetTime(t)' = FleetTime(t)
      BY DEF FleetTime
    <3>7. Ordered(t)
      BY DEF AwayInv
    <3> HIDE DEF annotated
    <3> QED BY <1>0, <2>1, <3>1, <3>2, <3>3, <3>4, <3>5, <3>6, <3>7
  <2>5. CASE t # s
    <3>1. own'[t] \in {own[t], NoRecord}
      BY <2>1, <2>2, <2>5, PrunedKeeps
    <3> QED BY <2>1, <2>3, <3>1, DroppedOrder
  <2> QED BY <2>4, <2>5
<1>4. ASSUME NEW call \in calls, Deliver(call)
      PROVE  Ordered(t)'
  BY <1>4 DEF Deliver, AwayInv, FleetTime, tagHistory
<1>5. ASSUME NEW pinned \in SUBSET Sessions, EndLease(pinned)
      PROVE  Ordered(t)'
  <2>1. /\ fleet'[t] \in {fleet[t], NoRecord} /\ own' = own
        /\ away' = away /\ hatch' = hatch /\ lost' = Lost(fleet', own)
    BY <1>5 DEF EndLease, Sweep, tagHistory
  <2>2. lost'[t] = Lost(fleet', own')[t]
    BY <2>1
  <2> QED BY <2>1, <2>2, DroppedOrder
<1>6. CASE Restart
  <2>1. /\ fleet'[t] = NoRecord /\ own'[t] = NoRecord
        /\ away' = away /\ hatch' = hatch /\ lost' = Lost(fleet', own')
    BY <1>6 DEF Restart, TagsRestart, tagHistory
  <2> QED BY <2>1, DroppedOrder
<1>7. CASE UNCHANGED vars
  BY <1>7 DEF vars, tagVars, tagHistory, AwayInv, FleetTime
<1> QED BY <1>1, <1>2, <1>3, <1>4, <1>5, <1>6, <1>7 DEF Next

(* Every line of the log is a receipt of a call.                            *)
LEMMA LoggedCalls ==
  ASSUME TypeOK
  PROVE  Logged \subseteq Call
<1>1. log \in Seq(Call)
  BY DEF TypeOK, UsageTypeOK
<1> QED BY <1>1 DEF Logged

(* A receipt adds at most its own line to the log.                          *)
LEMMA LoggedGrows ==
  ASSUME TypeOK, NEW call \in calls, Deliver(call)
  PROVE  Logged' \subseteq Logged \cup {call}
<1>1. Receipt(call) = call /\ log \in Seq(Call) /\ call \in Call
  BY ChargedTypes DEF TypeOK, UsageTypeOK
<1>2. log' \in {Append(log, call), <<call>>, <<>>, log}
  BY <1>1 DEF Deliver, RecordReceipt, AppendReceipt, RotateLog, LoseReceipt
<1>3. CASE log' = Append(log, call)
  <2>1. \A i \in DOMAIN log' : log'[i] = call \/ (i \in DOMAIN log /\ log'[i] = log[i])
    BY <1>1, <1>3
  <2> QED BY <2>1 DEF Logged
<1>4. CASE log' \in {<<call>>, <<>>, log}
  BY <1>4 DEF Logged
<1> QED BY <1>2, <1>3, <1>4

LEMMA CallStep ==
  ASSUME MeasurementInv, [Next]_vars
  PROVE  CallInv'
<1> USE DEF MeasurementInv
<1>0. requests \in Nat
  BY DEF TypeOK, TagsTypeOK
<1>1. ASSUME NEW s \in Sessions, NEW client \in Clients, NEW model \in Models,
             NEW mark \in Marks, NEW back,
             Request(CallOf(s, client, model, TagOf(mark, Sticky(Pruned(fleet), s)), back)),
             Taken(s, mark), log' = log
      PROVE  CallInv'
  <2> DEFINE call == CallOf(s, client, model, TagOf(mark, Sticky(Pruned(fleet), s)), back)
           meaning == Meaning(s, mark)
  <2>1. call.no = requests /\ meaning \in {call.task, Unsure}
    BY TagIsMeant DEF CallOf
  <2>2. /\ calls' = calls \cup {call} /\ requests' = requests + 1 /\ requests < MaxRequests
        /\ tagged' = [tagged EXCEPT ![requests] = meaning]
        /\ counted' = counted /\ Logged' = Logged
    BY <1>1 DEF Request, Taken, billHistory, Logged
  <2> HIDE DEF call, meaning
  <2>3. tagged'[requests] = meaning
    <3>1. requests \in 0 .. MaxRequests - 1
      BY <1>0, <2>2, TagsAssumption
    <3> QED BY <2>2, <3>1 DEF TypeOK
  <2>4. ASSUME NEW c \in calls' \cup counted' \cup Logged'
        PROVE  c.no < requests' /\ tagged'[c.no] \in {c.task, Unsure}
    <3>1. CASE c = call
      BY <1>0, <2>1, <2>2, <2>3, <3>1
    <3>2. CASE c \in calls \cup counted \cup Logged
      <4>1. c \in Call
        BY <3>2, LoggedCalls DEF TypeOK, TagsTypeOK
      <4>2. c.no \in Nat /\ c.no < requests /\ tagged[c.no] \in {c.task, Unsure}
        BY <3>2, <4>1 DEF CallInv, Call
      <4>3. tagged'[c.no] = tagged[c.no]
        <5>1. c.no \in 0 .. MaxRequests - 1 /\ c.no # requests
          BY <1>0, <2>2, <4>2, TagsAssumption
        <5> QED BY <2>2, <5>1 DEF TypeOK
      <4> QED BY <1>0, <2>2, <4>2, <4>3
    <3> QED BY <1>1, <2>2, <3>1, <3>2
  <2> QED BY <1>1, <2>4 DEF CallInv
<1>2. ASSUME NEW s \in Sessions, NEW client \in Clients, NEW model \in FleetModels,
             NEW mark \in Marks, Decide(s, client, model, mark)
      PROVE  CallInv'
  BY <1>1, <1>2 DEF Decide, FleetTurn, Models
<1>3. ASSUME NEW s \in Sessions, NEW client \in Clients, NEW model \in DirectModels,
             NEW mark \in Marks, Bypass(s, client, model, mark)
      PROVE  CallInv'
  BY <1>1, <1>3 DEF Bypass, DirectTurn, Models, usageVars
<1>4. ASSUME NEW s \in Sessions, NEW client \in Clients, NEW model \in FleetModels,
             PassOn(s, client, model)
      PROVE  CallInv'
  BY <1>1, <1>4 DEF PassOn, NoAskTurn, Models, Marks, usageVars
<1>5. ASSUME NEW call \in calls, Deliver(call)
      PROVE  CallInv'
  <2>1. Logged' \subseteq Logged \cup {call}
    BY <1>5, LoggedGrows
  <2>2. calls' \subseteq calls /\ counted' \subseteq counted \cup {call}
    BY <1>5 DEF Deliver
  <2>3. requests' = requests /\ tagged' = tagged
    BY <1>5 DEF Deliver, tagHistory
  <2> QED BY <2>1, <2>2, <2>3 DEF CallInv
<1>6. ASSUME NEW pinned \in SUBSET Sessions, EndLease(pinned)
      PROVE  CallInv'
  BY <1>6 DEF EndLease, Sweep, CallInv, Logged, tagHistory, billHistory, usageVars
<1>7. CASE Restart
  BY <1>7 DEF Restart, TagsRestart, UsageRestart, CallInv, Logged, tagHistory
<1>8. CASE UNCHANGED vars
  BY <1>8 DEF vars, tagVars, usageVars, tagHistory, billHistory, CallInv, Logged
<1> QED BY <1>2, <1>3, <1>4, <1>5, <1>6, <1>7, <1>8 DEF Next

LEMMA SpendStep ==
  ASSUME MeasurementInv, [Next]_vars
  PROVE  SpendIsBilled'
<1> USE DEF MeasurementInv
<1>0. \A s \in Sessions : billed[s] \in Nat
  BY DEF TypeOK
<1>1. ASSUME UNCHANGED <<agg, file, billed>>, cache' \in {cache, file}
      PROVE  SpendIsBilled'
  BY <1>1 DEF SpendIsBilled
<1>2. ASSUME NEW s \in Sessions, NEW client \in Clients, NEW model \in FleetModels,
             NEW mark \in Marks, Decide(s, client, model, mark)
      PROVE  SpendIsBilled'
  BY <1>1, <1>2 DEF Decide, LoadView, Taken, billHistory
<1>3. ASSUME NEW s \in Sessions, NEW client \in Clients, NEW model \in DirectModels,
             NEW mark \in Marks, Bypass(s, client, model, mark)
      PROVE  SpendIsBilled'
  BY <1>1, <1>3 DEF Bypass, Taken, billHistory, usageVars
<1>4. ASSUME NEW s \in Sessions, NEW client \in Clients, NEW model \in FleetModels,
             PassOn(s, client, model)
      PROVE  SpendIsBilled'
  BY <1>1, <1>4 DEF PassOn, Taken, billHistory, usageVars
<1>5. ASSUME NEW call \in calls, Deliver(call)
      PROVE  SpendIsBilled'
  <2> DEFINE charged == [agg EXCEPT ![call.session] = Charged(@, call)]
  <2>1. /\ charged \in Totals /\ call.session \in Sessions /\ Price[call.model] \in Nat
        /\ Charged(agg[call.session], call).real = agg[call.session].real + Price[call.model]
    BY ChargedTypes DEF Call
  <2>2. agg' = PrunedTotals(charged) /\ cache' = cache /\ file' \in {file, agg'}
        /\ billed' = [billed EXCEPT ![call.session] = @ + Price[call.model]]
    BY <1>5 DEF Deliver, RecordReceipt, FlushTotals, FlushOver, FailToFlush
  <2>3. ASSUME NEW s \in Sessions
        PROVE  /\ billed[s] <= billed'[s] /\ agg'[s].real <= billed'[s]
               /\ file[s].real <= billed'[s] /\ cache[s].real <= billed'[s]
    <3>1. /\ agg[s].real \in Nat /\ file[s].real \in Nat /\ cache[s].real \in Nat
          /\ agg[s].real <= billed[s] /\ file[s].real <= billed[s] /\ cache[s].real <= billed[s]
      BY DEF SpendIsBilled, TypeOK, UsageTypeOK, Totals, Entry
    <3>2. billed'[s] = IF s = call.session THEN billed[s] + Price[call.model] ELSE billed[s]
      BY <2>1, <2>2 DEF TypeOK
    <3>3. charged[s].real =
              IF s = call.session THEN agg[s].real + Price[call.model] ELSE agg[s].real
      BY <2>1 DEF TypeOK, UsageTypeOK, Totals
    <3>4. agg'[s] \in {charged[s], NoEntry} /\ NoEntry.real = 0
      BY <2>1, <2>2, PrunedTotalsKeeps DEF NoEntry
    <3> HIDE DEF charged
    <3> QED BY <1>0, <2>1, <3>1, <3>2, <3>3, <3>4
  <2> QED BY <2>2, <2>3 DEF SpendIsBilled
<1>6. ASSUME NEW pinned \in SUBSET Sessions, EndLease(pinned)
      PROVE  SpendIsBilled'
  BY <1>1, <1>6 DEF EndLease, billHistory, usageVars
<1>7. CASE Restart
  BY <1>0, <1>7 DEF Restart, UsageRestart, SpendIsBilled, NoTotals, NoEntry
<1>8. CASE UNCHANGED vars
  BY <1>1, <1>8 DEF vars, billHistory, usageVars
<1> QED BY <1>2, <1>3, <1>4, <1>5, <1>6, <1>7, <1>8 DEF Next

(* A step that makes no receipt adds at most one call, under a new number.  *)
LEMMA NumberStep ==
  ASSUME MeasurementInv, [Next]_vars
  PROVE  NumberInv'
<1> USE DEF MeasurementInv, NumberInv
<1>0. requests \in Nat /\ \A c \in calls \cup counted : c.no < requests
  BY DEF TypeOK, TagsTypeOK, CallInv
<1>00. \A c \in calls \cup counted : c.no \in Nat
  BY DEF TypeOK, TagsTypeOK, Call
<1>1. ASSUME NEW call, call.no = requests, Request(call), counted' = counted
      PROVE  NumberInv'
  <2>1. calls' = calls \cup {call} /\ requests' = requests + 1
    BY <1>1 DEF Request
  <2> QED BY <1>0, <1>00, <1>1, <2>1
<1>2. ASSUME NEW s \in Sessions, NEW client \in Clients, NEW model \in FleetModels,
             NEW mark \in Marks, Decide(s, client, model, mark)
      PROVE  NumberInv'
  BY <1>1, <1>2 DEF Decide, FleetTurn, CallOf, Taken, billHistory
<1>3. ASSUME NEW s \in Sessions, NEW client \in Clients, NEW model \in DirectModels,
             NEW mark \in Marks, Bypass(s, client, model, mark)
      PROVE  NumberInv'
  BY <1>1, <1>3 DEF Bypass, DirectTurn, CallOf, Taken, billHistory
<1>4. ASSUME NEW s \in Sessions, NEW client \in Clients, NEW model \in FleetModels,
             PassOn(s, client, model)
      PROVE  NumberInv'
  BY <1>1, <1>4 DEF PassOn, NoAskTurn, CallOf, Taken, billHistory
<1>5. ASSUME NEW call \in calls, Deliver(call)
      PROVE  NumberInv'
  <2>1. /\ counted' \in SUBSET (counted \cup {call}) /\ calls' = calls \ {call}
        /\ requests' = requests
    BY <1>5 DEF Deliver
  <2>2. IsFiniteSet(counted \cup {call})
    BY FS_AddElement
  <2>3. IsFiniteSet(counted')
    BY <2>1, <2>2, FS_Subset
  <2> QED BY <1>0, <2>1, <2>3
<1>6. ASSUME NEW pinned \in SUBSET Sessions, EndLease(pinned)
      PROVE  NumberInv'
  BY <1>6 DEF EndLease, Sweep, billHistory
<1>7. CASE Restart
  BY <1>7, FS_EmptySet DEF Restart, TagsRestart
<1>8. CASE UNCHANGED vars
  BY <1>8 DEF vars, tagVars, billHistory
<1> QED BY <1>2, <1>3, <1>4, <1>5, <1>6, <1>7, <1>8 DEF Next

LEMMA PartsStep ==
  ASSUME MeasurementInv, [Next]_vars
  PROVE  PartsInv'
<1> USE DEF MeasurementInv
<1>1. ASSUME UNCHANGED <<agg, file>>, cache' \in {cache, file}
      PROVE  PartsInv'
  BY <1>1 DEF PartsInv
<1>2. ASSUME NEW s \in Sessions, NEW client \in Clients, NEW model \in FleetModels,
             NEW mark \in Marks, Decide(s, client, model, mark)
      PROVE  PartsInv'
  BY <1>1, <1>2 DEF Decide, LoadView
<1>3. ASSUME NEW s \in Sessions, NEW client \in Clients, NEW model \in DirectModels,
             NEW mark \in Marks, Bypass(s, client, model, mark)
      PROVE  PartsInv'
  BY <1>1, <1>3 DEF Bypass, usageVars
<1>4. ASSUME NEW s \in Sessions, NEW client \in Clients, NEW model \in FleetModels,
             PassOn(s, client, model)
      PROVE  PartsInv'
  BY <1>1, <1>4 DEF PassOn, usageVars
<1>5. ASSUME NEW call \in calls, Deliver(call)
      PROVE  PartsInv'
  <2> DEFINE charged == [agg EXCEPT ![call.session] = Charged(@, call)]
  <2>1. charged \in Totals /\ call.session \in Sessions
    BY ChargedTypes DEF Call
  <2>2. agg' = PrunedTotals(charged) /\ cache' = cache /\ file' \in {file, agg'}
    BY <1>5 DEF Deliver, RecordReceipt, FlushTotals, FlushOver, FailToFlush
  <2>3. ASSUME NEW s \in Sessions
        PROVE  agg'[s].real = SumFunction(agg'[s].clients)
    <3>1. charged[s].real = SumFunction(charged[s].clients)
      <4>1. agg \in [Sessions -> Entry]
        BY DEF TypeOK, UsageTypeOK, Totals
      <4>2. CASE s = call.session
        <5>1. charged[s] = Charged(agg[call.session], call)
          BY <2>1, <4>1, <4>2
        <5>2. agg[call.session].real = SumFunction(agg[call.session].clients)
          BY <2>1 DEF PartsInv
        <5> QED BY <5>1, <5>2, ChargedParts
      <4>3. CASE s # call.session
        <5>1. charged[s] = agg[s]
          BY <4>1, <4>3
        <5> QED BY <5>1 DEF PartsInv
      <4> QED BY <4>2, <4>3
    <3>2. agg'[s] \in {charged[s], NoEntry}
      BY <2>1, <2>2, PrunedTotalsKeeps
    <3> HIDE DEF charged
    <3> QED BY <3>1, <3>2, NoEntryParts
  <2>4. ASSUME NEW s \in Sessions
        PROVE  /\ file'[s].real = SumFunction(file'[s].clients)
               /\ cache'[s].real = SumFunction(cache'[s].clients)
    <3>1. /\ file[s].real = SumFunction(file[s].clients)
          /\ cache[s].real = SumFunction(cache[s].clients)
      BY DEF PartsInv
    <3>2. file' = file \/ file' = agg'
      BY <2>2
    <3> HIDE DEF charged
    <3> QED BY <2>2, <2>3, <3>1, <3>2
  <2> QED BY <2>3, <2>4 DEF PartsInv
<1>6. ASSUME NEW pinned \in SUBSET Sessions, EndLease(pinned)
      PROVE  PartsInv'
  BY <1>1, <1>6 DEF EndLease, usageVars
<1>7. CASE Restart
  BY <1>7, NoEntryParts DEF Restart, UsageRestart, PartsInv, NoTotals
<1>8. CASE UNCHANGED vars
  BY <1>1, <1>8 DEF vars, usageVars
<1> QED BY <1>2, <1>3, <1>4, <1>5, <1>6, <1>7, <1>8 DEF Next

(* A receipt of the task by the client adds its price to what they spent;   *)
(* any other leaves that alone.                                             *)
LEMMA DeliveredIsTagged ==
  ASSUME MeasurementInv, NEW call \in calls, Deliver(call)
  PROVE  TaskSpendInv'
<1> USE DEF MeasurementInv
<1> DEFINE entry == Charged(agg[call.session], call)
           charged == [agg EXCEPT ![call.session] = entry]
<1>1. /\ call \in Call /\ Price[call.model] \in Nat /\ entry \in Entry /\ charged \in Totals
      /\ call.session \in Sessions /\ call.client \in Clients /\ call.task \in MaybeTag
  BY ChargedTypes DEF Call
<1>2. /\ agg' = PrunedTotals(charged)
      /\ counted' = {c \in counted \cup {call} : agg'[c.session] # NoEntry}
  BY DEF Deliver, RecordReceipt
<1>3. call \notin counted
  BY DEF NumberInv
<1>4. \A r \in counted \cup {call} : Price[r.model] \in Nat
  BY <1>1, UsageAssumption DEF TypeOK, Call
<1>5. agg \in [Sessions -> Entry]
  BY DEF TypeOK, UsageTypeOK, Totals
<1> SUFFICES ASSUME NEW s \in Sessions, NEW t \in Tags, NEW c \in Clients
             PROVE  agg'[s].tasks[<<t, c>>] =
                        SumFunction([r \in ReceiptsOf(s, t, c)' |-> Price[r.model]])
  BY DEF TaskSpendInv
<1> DEFINE before == [r \in ReceiptsOf(s, t, c) |-> Price[r.model]]
           after == [r \in ReceiptsOf(s, t, c)' |-> Price[r.model]]
<1>6. agg[s].tasks[<<t, c>>] = SumFunction(before)
  BY DEF TaskSpendInv
<1>7. t # NoTag
  BY TagsAssumption
<1>8. CASE agg'[s] = NoEntry
  <2>1. ReceiptsOf(s, t, c)' = {}
    BY <1>2, <1>8 DEF ReceiptsOf
  <2> QED BY <1>8, <2>1, NoReceipts DEF NoEntry
<1>9. CASE agg'[s] # NoEntry
  <2>1. agg'[s] = charged[s]
    BY <1>1, <1>2, <1>9, PrunedTotalsKeeps
  <2>2. ReceiptsOf(s, t, c)' =
            {r \in counted \cup {call} : r.session = s /\ r.client = c /\ r.task = t}
    BY <1>2, <1>9 DEF ReceiptsOf
  <2>3. CASE call.session = s /\ call.client = c /\ call.task = t
    <3>1. ReceiptsOf(s, t, c)' = ReceiptsOf(s, t, c) \cup {call}
      BY <1>3, <2>2, <2>3 DEF ReceiptsOf
    <3>2. /\ DOMAIN before = ReceiptsOf(s, t, c) /\ IsFiniteSet(ReceiptsOf(s, t, c))
          /\ call \notin ReceiptsOf(s, t, c)
      BY <1>3, FS_Subset DEF NumberInv, ReceiptsOf
    <3>3. \A r \in ReceiptsOf(s, t, c)' : Price[r.model] \in Int
      BY <1>4, <2>2
    <3>4. SumFunction(after) = SumFunction(before) + after[call]
      <4>1. DOMAIN after = (DOMAIN before) \cup {call}
        BY <3>1
      <4>2. \A r \in DOMAIN before : after[r] = before[r]
        BY <3>1
      <4>3. \A r \in DOMAIN after : after[r] \in Int
        BY <3>3
      <4> HIDE DEF before, after
      <4> QED BY <3>2, <4>1, <4>2, <4>3, SumOfExtended
    <3>5. after[call] = Price[call.model]
      BY <3>1
    <3>6. charged[s].tasks[<<t, c>>] = agg[s].tasks[<<t, c>>] + Price[call.model]
      <4>1. agg[s].tasks \in [Tags \X Clients -> Nat]
        BY <1>5 DEF Entry
      <4>2. charged[s].tasks = [agg[s].tasks EXCEPT ![<<t, c>>] = @ + Price[call.model]]
        BY <1>5, <1>7, <2>3 DEF Charged, TaskAtCall
      <4> QED BY <4>1, <4>2
    <3> HIDE DEF before, after, charged
    <3> QED BY <1>6, <2>1, <3>4, <3>5, <3>6 DEF after
  <2>4. CASE ~(call.session = s /\ call.client = c /\ call.task = t)
    <3>1. ReceiptsOf(s, t, c)' = ReceiptsOf(s, t, c)
      BY <1>3, <2>2, <2>4 DEF ReceiptsOf
    <3>2. charged[s].tasks[<<t, c>>] = agg[s].tasks[<<t, c>>]
      <4>1. CASE s # call.session
        BY <1>5, <4>1
      <4>2. CASE s = call.session
        <5>1. agg[s].tasks \in [Tags \X Clients -> Nat]
          BY <1>5 DEF Entry
        <5>2. \/ charged[s].tasks = agg[s].tasks
              \/ charged[s].tasks = [agg[s].tasks EXCEPT ![<<call.task, call.client>>] =
                                         @ + Price[call.model]]
          BY <1>5, <4>2 DEF Charged, TaskAtCall
        <5>3. <<call.task, call.client>> # <<t, c>>
          BY <2>4, <4>2
        <5> QED BY <5>1, <5>2, <5>3
      <4> QED BY <4>1, <4>2
    <3> QED BY <1>6, <2>1, <3>1, <3>2
  <2> QED BY <2>3, <2>4
<1> QED BY <1>8, <1>9

LEMMA TaggedStep ==
  ASSUME MeasurementInv, [Next]_vars
  PROVE  TaskSpendInv'
<1> USE DEF MeasurementInv
<1>1. ASSUME agg' = agg, counted' = counted
      PROVE  TaskSpendInv'
  <2>1. \A s \in Sessions, t \in Tags, c \in Clients :
            ReceiptsOf(s, t, c)' = ReceiptsOf(s, t, c)
    BY <1>1 DEF ReceiptsOf
  <2> QED BY <1>1, <2>1 DEF TaskSpendInv
<1>2. ASSUME NEW s \in Sessions, NEW mark \in Marks, Taken(s, mark), agg' = agg
      PROVE  TaskSpendInv'
  BY <1>1, <1>2 DEF Taken, billHistory
<1>3. ASSUME NEW s \in Sessions, NEW client \in Clients, NEW model \in FleetModels,
             NEW mark \in Marks, Decide(s, client, model, mark)
      PROVE  TaskSpendInv'
  BY <1>2, <1>3 DEF Decide
<1>4. ASSUME NEW s \in Sessions, NEW client \in Clients, NEW model \in DirectModels,
             NEW mark \in Marks, Bypass(s, client, model, mark)
      PROVE  TaskSpendInv'
  BY <1>2, <1>4 DEF Bypass, usageVars
<1>5. ASSUME NEW s \in Sessions, NEW client \in Clients, NEW model \in FleetModels,
             PassOn(s, client, model)
      PROVE  TaskSpendInv'
  BY <1>2, <1>5 DEF PassOn, usageVars, Marks
<1>6. ASSUME NEW pinned \in SUBSET Sessions, EndLease(pinned)
      PROVE  TaskSpendInv'
  BY <1>1, <1>6 DEF EndLease, usageVars, tagHistory, billHistory
<1>7. CASE Restart
  <2>1. counted' = {} /\ agg' = NoTotals
    BY <1>7 DEF Restart, UsageRestart
  <2>2. \A s \in Sessions, t \in Tags, c \in Clients : ReceiptsOf(s, t, c)' = {}
    BY <2>1 DEF ReceiptsOf
  <2> QED BY <2>1, <2>2, NoReceipts DEF TaskSpendInv, NoTotals, NoEntry
<1>8. CASE UNCHANGED vars
  BY <1>1, <1>8 DEF vars, usageVars, tagHistory, billHistory
<1> QED BY <1>3, <1>4, <1>5, <1>6, <1>7, <1>8, DeliveredIsTagged DEF Next
-----------------------------------------------------------------------------
(* The theorems.                                                            *)

(* The inductive invariant holds in every reachable state: the records of  *)
(* both routes are in the order of the turns, and each call has the tag    *)
(* its user meant.                                                         *)
THEOREM MeasurementCorrect == Spec => []MeasurementInv
<1>1. MeasurementInv /\ [Next]_vars => MeasurementInv'
  <2> SUFFICES ASSUME MeasurementInv, [Next]_vars PROVE MeasurementInv'
    OBVIOUS
  <2> QED BY TypeStep, TraceStep, AwayStep, CallStep, NumberStep, SpendStep, PartsStep, TaggedStep
         DEF MeasurementInv
<1> QED BY InitCorrect, <1>1, PTL DEF Spec

(* Every stored tag, signal and total has its type.                        *)
THEOREM MeasurementTypeCorrect == Spec => []TypeOK
<1>1. MeasurementInv => TypeOK
  BY DEF MeasurementInv
<1> QED BY <1>1, MeasurementCorrect, PTL

(* No total, in RAM, in the file or in the reader's cache, is more than    *)
(* the session's answers cost, and each is the sum of its clients' parts.  *)
THEOREM SpendNeverInvented == Spec => []SpendIsNeverInvented
<1>1. MeasurementInv => SpendIsNeverInvented
  BY DEF MeasurementInv, SpendIsNeverInvented, PartsInv
<1> QED BY <1>1, MeasurementCorrect, PTL

(* A session's spend on a task under a client is the price of exactly the  *)
(* receipts of calls its user made for that task, since its totals began.  *)
THEOREM TaskSpendAlwaysTagged == Spec => []TaskSpendIsTagged
<1>1. MeasurementInv => TaskSpendIsTagged
  BY DEF MeasurementInv, TaskSpendInv, CallInv, TaskSpendIsTagged
<1> QED BY <1>1, MeasurementCorrect, PTL

(* A task is called redone when two clients worked on it among the newest  *)
(* receipts, and only then, up to calls whose tag nobody can know.         *)
THEOREM RedoAlwaysReal == Spec => []RedoIsReal
<1>1. MeasurementInv => RedoIsReal
  <2> DEFINE newest == {k \in DOMAIN log : Len(log) - k < SUMMARY_LIMIT}
  <2> SUFFICES ASSUME MeasurementInv, NEW t \in Tags
               PROVE  /\ (\E i, j \in newest : /\ log[i].client # log[j].client
                                               /\ tagged[log[i].no] = t
                                               /\ tagged[log[j].no] = t) => t \in TaskRedo
                      /\ t \in TaskRedo =>
                             \E i, j \in newest : /\ log[i].client # log[j].client
                                                  /\ tagged[log[i].no] \in {t, Unsure}
                                                  /\ tagged[log[j].no] \in {t, Unsure}
    BY DEF RedoIsReal, RedoneBy
  <2>1. t \in TaskRedo <=>
            \E i, j \in newest : /\ log[i].client # log[j].client
                                 /\ log[i].task = t /\ log[j].task = t
    BY RedoOfNewest DEF MeasurementInv
  <2>2. \A i \in newest : tagged[log[i].no] \in {log[i].task, Unsure}
    BY DEF MeasurementInv, CallInv, Logged
  <2>3. t # Unsure
    BY UsesAssumption DEF MaybeTag
  <2> HIDE DEF newest
  <2> QED BY <2>1, <2>2, <2>3
<1> QED BY <1>1, MeasurementCorrect, PTL

(* A fleet turn is flagged with the escape-hatch turn it comes back from,  *)
(* and differs from it only when the record of a route was lost.           *)
THEOREM SwitchBackAlwaysExact == Spec => SwitchBackIsExact
<1> DEFINE Exact(s, call) ==
        LET back == call.switch_back_from
            gone == Lost(Pruned(fleet), own)[s]
        IN  call.session = s /\ fleet'[s] # NoRecord /\ fleet'[s].ts = now =>
                /\ back \in {NoModel, away[s]} \/ ("fleet" \in gone /\ back = hatch[s])
                /\ away[s] # NoModel /\ back # away[s] => "own" \in gone
<1>1. ASSUME MeasurementInv, [Next]_vars
      PROVE  [\A s \in Sessions, call \in calls' \ calls : Exact(s, call)]_vars
  <2> SUFFICES ASSUME NEW t \in Sessions, NEW new \in calls' \ calls, new.session = t,
                      fleet'[t] # NoRecord, fleet'[t].ts = now
               PROVE  LET back == new.switch_back_from
                          gone == Lost(Pruned(fleet), own)[t]
                      IN  /\ back \in {NoModel, away[t]} \/ ("fleet" \in gone /\ back = hatch[t])
                          /\ away[t] # NoModel /\ back # away[t] => "own" \in gone
    OBVIOUS
  <2> USE <1>1 DEF MeasurementInv
  <2>0. /\ now \in Nat /\ turned[t] < now /\ turned[t] \in Nat
        /\ fleet[t] # NoRecord => fleet[t].ts \in Nat /\ fleet[t].ts <= turned[t]
        /\ own[t] # NoRecord => /\ own[t].served_ts \in Nat
                                /\ own[t].served_ts > 0 => own[t].served_by = hatch[t]
    BY DEF TypeOK, TagsTypeOK, TraceInv, FleetRecord, OwnRecord
  <2>1. fleet'[t] \notin {fleet[t], Pruned(fleet)[t]}
    BY <2>0, PrunedKeeps
  <2>2. ASSUME NEW s \in Sessions, NEW client \in Clients, NEW model \in FleetModels,
               NEW mark \in Marks, Decide(s, client, model, mark)
        PROVE  new.switch_back_from = SwitchBackFrom(Pruned(fleet), t)
    <3> DEFINE call == CallOf(s, client, model, TagOf(mark, Sticky(Pruned(fleet), s)),
                              SwitchBackFrom(Pruned(fleet), s))
    <3>1. new = call
      BY <2>2 DEF Decide, FleetTurn, Request
    <3> QED BY <3>1 DEF CallOf
  <2>3. \E s \in Sessions, client \in Clients, model \in FleetModels, mark \in Marks :
            Decide(s, client, model, mark)
    <3>1. ASSUME NEW s \in Sessions, NEW client \in Clients, NEW model \in DirectModels,
                 NEW mark \in Marks, Bypass(s, client, model, mark)
          PROVE  FALSE
      BY <2>1, <3>1 DEF Bypass, DirectTurn
    <3>2. ASSUME NEW s \in Sessions, NEW client \in Clients, NEW model \in FleetModels,
                 PassOn(s, client, model)
          PROVE  FALSE
      BY <2>1, <3>2 DEF PassOn, NoAskTurn
    <3>3. ASSUME NEW call \in calls, Deliver(call)
          PROVE  FALSE
      BY <2>1, <3>3 DEF Deliver
    <3>4. ASSUME NEW pinned \in SUBSET Sessions, EndLease(pinned)
          PROVE  FALSE
      BY <3>4 DEF EndLease, Sweep
    <3>5. CASE Restart
      BY <3>5 DEF Restart, TagsRestart
    <3>6. CASE UNCHANGED vars
      BY <2>1, <3>6 DEF vars, tagVars
    <3> QED BY <3>1, <3>2, <3>3, <3>4, <3>5, <3>6 DEF Next
  <2>4. new.switch_back_from = SwitchBackFrom(Pruned(fleet), t)
    BY <2>2, <2>3
  <2>5. /\ lost[t] \subseteq Lost(Pruned(fleet), own)[t]
        /\ fleet[t] # NoRecord /\ Pruned(fleet)[t] = NoRecord =>
               "fleet" \in Lost(Pruned(fleet), own)[t]
    BY LostNotes
  <2>6. /\ away[t] # NoModel => away[t] = hatch[t]
        /\ away[t] = NoModel /\ own[t] # NoRecord /\ "fleet" \notin lost[t] =>
               own[t].served_ts <= FleetTime(t)
        /\ away[t] # NoModel /\ "own" \notin lost[t] =>
               own[t] # NoRecord /\ own[t].served_ts > FleetTime(t)
    BY DEF AwayInv
  <2>7. Pruned(fleet)[t] = fleet[t] \/ Pruned(fleet)[t] = NoRecord
    BY PrunedKeeps
  <2> QED BY <2>0, <2>4, <2>5, <2>6, <2>7 DEF SwitchBackFrom, FleetTime
<1>2. [][\A s \in Sessions, call \in calls' \ calls : Exact(s, call)]_vars <=> SwitchBackIsExact
  BY PTL DEF SwitchBackIsExact
<1> QED BY <1>1, <1>2, MeasurementCorrect, PTL DEF Spec
=============================================================================
