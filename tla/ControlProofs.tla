---------------------------- MODULE ControlProofs ----------------------------
(***************************************************************************)
(* Proofs about ControlPlane: its types, that the stamp cache never hides  *)
(* a write, and that the control service implements the register of        *)
(* ControlRegister; and, of ControlHistory, that a torn control.json never *)
(* switches learning back on.  All for any handlers, readers, settings,    *)
(* hand edits and crashes, and however the steps of a read interleave.     *)
(***************************************************************************)
EXTENDS ControlHistory, TLAPS

(* The lock is held by the one handler that has loaded the file.            *)
LockInv == \A h \in Handlers : pending[h] # Idle <=> lock = h

(* What the lock holder loaded is what the file says, or someone tampered   *)
(* with the file since.                                                     *)
BaseInv ==
    \A h \in Handlers :
        lock = h => Loaded \in {pending[h].base, Defaults} \cup Edits

(* No reader knows a stamp of the future; and the snapshot of a read that   *)
(* is about to be recorded is the file's if its stamp is.                   *)
StampInv ==
    /\ exists => stamp # NoStamp
    /\ \A r \in Readers :
           /\ store[r].stamp <= stamp
           /\ seen[r] <= stamp
           /\ step[r] = "persist" /\ exists /\ seen[r] = stamp
              => store[r].control = file

ControlInv == TypeOK /\ LockInv /\ BaseInv /\ StampInv /\ StampIsHonest
-----------------------------------------------------------------------------
LEMMA DefaultsType == Defaults \in Content /\ FailClosed \in Content
  BY DEF Defaults, FailClosed, Content

(* An accepted write of a content is a content.                             *)
LEMMA WrittenType ==
  ASSUME NEW change \in Change, NEW content \in Content
  PROVE  Written(change, content) \in Content
<1>1. Apply(change, content) \in Content
  <2>1. CASE change \in [op: {"learning"}, to: BOOLEAN]
    BY <2>1 DEF Apply, Content
  <2>2. CASE change \in [op: {"setting"}, key: Keys, to: Values \cup {NoValue}]
    BY <2>2 DEF Apply, Content
  <2>3. CASE change \in [op: {"alarms"}]
    BY <2>3 DEF Apply, Content
  <2> QED BY <2>1, <2>2, <2>3 DEF Change
<1> QED BY <1>1 DEF Written, Content

LEMMA LoadedType == ASSUME TypeOK PROVE Loaded \in Content
  BY DefaultsType DEF TypeOK, Loaded

LEMMA NewStoreType == NewStore \in Store
  BY DefaultsType DEF NewStore, Store, NoStamp

LEMMA StoreOfType ==
  ASSUME TypeOK, NEW r \in Readers
  PROVE  StoreOf(r) \in Store
  BY NewStoreType DEF TypeOK, StoreOf

LEMMA FallBackType ==
  ASSUME TypeOK, NEW s \in Store
  PROVE  FallBack(s) \in Store /\ FallBack(s).stamp = s.stamp
  BY DefaultsType DEF TypeOK, FallBack, Store

(* The invariant holds initially.                                           *)
LEMMA ControlInit == Init => ControlInv
<1> SUFFICES ASSUME Init PROVE ControlInv
  OBVIOUS
<1>1. TypeOK
  BY NewStoreType DEF Init, TypeOK, NoStamp
<1>2. LockInv /\ BaseInv
  BY ControlAssumption DEF Init, LockInv, BaseInv
<1>3. StampInv /\ StampIsHonest
  BY NewStoreType DEF Init, StampInv, StampIsHonest, NewStore, NoStamp
<1> QED BY <1>1, <1>2, <1>3 DEF ControlInv
-----------------------------------------------------------------------------
(* The service's steps.                                                     *)

LEMMA AcquireStep ==
  ASSUME ControlInv, NEW h \in Handlers, NEW change \in Change,
         Acquire(h, change)
  PROVE  ControlInv'
<1> USE DEF ControlInv, Acquire, fileVars, readerVars
<1>1. Loaded \in Content
  BY LoadedType
<1>2. TypeOK'
  BY <1>1 DEF TypeOK
<1>3. pending'[h] = [change |-> change, base |-> Loaded] /\ pending'[h] # Idle
  BY <1>1, ControlAssumption DEF TypeOK
<1>4. LockInv'
  BY <1>3, ControlAssumption DEF TypeOK, LockInv, LockIsFree
<1>5. BaseInv'
  BY <1>3, ControlAssumption DEF BaseInv, Loaded
<1>6. StampInv' /\ StampIsHonest'
  BY DEF StampInv, StampIsHonest
<1> QED BY <1>2, <1>4, <1>5, <1>6

(* A change of the file moves the stamp past every stamp a reader knows.    *)
LEMMA ReplaceStep ==
  ASSUME TypeOK, StampInv, StampIsHonest, NEW content, Replace(content),
         UNCHANGED readerVars
  PROVE  StampInv' /\ StampIsHonest'
<1> USE DEF Replace, readerVars
<1>1. ASSUME NEW r \in Readers
      PROVE  /\ store[r].stamp \in Nat /\ seen[r] \in Nat
             /\ store[r].stamp <= stamp /\ seen[r] <= stamp
  BY DEF TypeOK, Store, StampInv
<1>2. stamp \in Nat /\ stamp' = stamp + 1
  BY DEF TypeOK
<1>3. StampInv'
  BY <1>1, <1>2 DEF StampInv, NoStamp
<1>4. StampIsHonest'
  BY <1>1, <1>2 DEF StampIsHonest
<1> QED BY <1>3, <1>4

LEMMA SaveStep ==
  ASSUME ControlInv, NEW h \in Handlers, Save(h)
  PROVE  ControlInv'
<1> USE DEF ControlInv
<1>1. pending[h] \in [change: Change, base: Content]
  BY DEF Save, TypeOK
<1>2. Written(pending[h].change, pending[h].base) \in Content
  BY <1>1, WrittenType
<1>3. TypeOK'
  BY <1>2 DEF TypeOK, Save, Replace, readerVars
<1>4. LockInv' /\ BaseInv'
  BY ControlAssumption DEF Save, TypeOK, LockInv, BaseInv
<1>5. StampInv' /\ StampIsHonest'
  BY ReplaceStep DEF Save
<1> QED BY <1>3, <1>4, <1>5

LEMMA ServiceRestartStep ==
  ASSUME ControlInv, ServiceRestart
  PROVE  ControlInv'
<1> USE DEF ControlInv, ServiceRestart, fileVars, readerVars
<1>1. TypeOK'
  BY DEF TypeOK
<1>2. LockInv' /\ BaseInv'
  BY ControlAssumption DEF TypeOK, LockInv, BaseInv
<1>3. StampInv' /\ StampIsHonest'
  BY DEF StampInv, StampIsHonest
<1> QED BY <1>1, <1>2, <1>3

(* Tampering leaves the service alone and moves the stamp, or removes the   *)
(* file.                                                                    *)
LEMMA TamperStep ==
  ASSUME ControlInv,
         \/ \E content \in Edits : Edit(content)
         \/ Tear
         \/ Remove
  PROVE  ControlInv'
<1> USE DEF ControlInv
<1>1. file' \in Edits \cup {Unreadable} /\ UNCHANGED <<serviceVars, readerVars>>
  BY DEF Edit, Tear, Remove, Replace
<1>2. TypeOK'
  <2>1. file' \in Content \cup {Unreadable}
    BY <1>1, ControlAssumption
  <2>2. exists' \in BOOLEAN
    BY DEF Edit, Tear, Remove, Replace
  <2>3. stamp' \in Nat
    BY DEF Edit, Tear, Remove, Replace, TypeOK
  <2> QED BY <1>1, <2>1, <2>2, <2>3 DEF TypeOK, serviceVars, readerVars
<1>3. LockInv'
  BY <1>1 DEF LockInv, serviceVars
<1>4. BaseInv'
  BY <1>1 DEF BaseInv, Loaded, serviceVars
<1>5. StampInv' /\ StampIsHonest'
  <2>1. CASE \/ \E content \in Edits : Edit(content)
             \/ Tear
    BY <2>1, ReplaceStep DEF Edit, Tear
  <2>2. CASE Remove
    BY <2>2 DEF Remove, StampInv, StampIsHonest, readerVars
  <2> QED BY <2>1, <2>2
<1> QED BY <1>2, <1>3, <1>4, <1>5
-----------------------------------------------------------------------------
(* The readers' steps.                                                      *)

(* A step of one reader keeps the types and the rest of the invariant, and  *)
(* the other readers keep theirs.                                           *)
LEMMA BecomeStep ==
  ASSUME ControlInv, NEW r \in Readers, NEW s \in Store,
         NEW where \in {"idle", "load", "persist"}, NEW found \in Nat,
         Become(r, s, where, found),
         UNCHANGED <<fileVars, serviceVars>>,
         sidecar' \in Content \cup {Unreadable},
         s.stamp <= stamp, found <= stamp,
         where = "persist" /\ exists /\ found = stamp => s.control = file,
         exists /\ s.stamp = stamp => s.control = file
  PROVE  ControlInv'
<1> USE DEF ControlInv, Become, fileVars, serviceVars
<1>1. TypeOK'
  BY DEF TypeOK
<1>2. LockInv' /\ BaseInv'
  BY DEF LockInv, BaseInv, Loaded
<1>3. ASSUME NEW x \in Readers
      PROVE  \/ store'[x] = s /\ step'[x] = where /\ seen'[x] = found
             \/ store'[x] = store[x] /\ step'[x] = step[x] /\ seen'[x] = seen[x]
  BY DEF TypeOK
<1>4. StampInv'
  BY <1>3 DEF StampInv
<1>5. StampIsHonest'
  BY <1>3 DEF StampIsHonest
<1> QED BY <1>1, <1>2, <1>4, <1>5

(* What a store that is about to be used knows.                             *)
LEMMA StoreOfHonest ==
  ASSUME ControlInv, NEW r \in Readers
  PROVE  /\ StoreOf(r) \in Store
         /\ StoreOf(r).stamp <= stamp
         /\ exists /\ StoreOf(r).stamp = stamp => StoreOf(r).control = file
<1>1. StoreOf(r) \in Store
  BY StoreOfType DEF ControlInv
<1>2. CASE r \in Transient
  BY <1>1, <1>2 DEF ControlInv, TypeOK, StampInv, StoreOf, NewStore, NoStamp
<1>3. CASE r \notin Transient
  BY <1>1, <1>3 DEF ControlInv, StampInv, StampIsHonest, StoreOf
<1> QED BY <1>1, <1>2, <1>3

LEMMA ReadStep ==
  ASSUME ControlInv, NEW r \in Readers, Read(r)
  PROVE  ControlInv'
<1> USE DEF ControlInv
<1>1. store[r] \in Store /\ seen[r] \in Nat /\ stamp \in Nat
      /\ sidecar \in Content \cup {Unreadable}
  BY DEF TypeOK
<1>2. /\ store[r].stamp <= stamp /\ seen[r] <= stamp
      /\ exists /\ store[r].stamp = stamp => store[r].control = file
  BY DEF StampInv, StampIsHonest
<1>3. CASE StatMissing(r)
  BY <1>1, <1>3, StoreOfHonest, BecomeStep DEF StatMissing, NoStamp
<1>4. CASE StatUnchanged(r)
  <2> DEFINE s == [StoreOf(r) EXCEPT !.everGood = TRUE]
  <2>1. StoreOf(r) \in Store
    BY StoreOfHonest
  <2>2. s \in Store /\ s.stamp = StoreOf(r).stamp /\ s.control = StoreOf(r).control
    BY <2>1 DEF Store
  <2>3. Become(r, s, "idle", NoStamp)
        /\ UNCHANGED <<fileVars, serviceVars, sidecar>>
    BY <1>4 DEF StatUnchanged
  <2> HIDE DEF s
  <2> QED BY <1>1, <2>2, <2>3, StoreOfHonest, BecomeStep DEF NoStamp
<1>5. CASE StatMoved(r)
  BY <1>1, <1>5, StoreOfHonest, BecomeStep DEF StatMoved
<1>6. CASE LoadGood(r)
  <2> DEFINE s == [store[r] EXCEPT !.control = file]
  <2>1. file \in Content
    BY <1>6 DEF LoadGood, TypeOK
  <2>2. s \in Store /\ s.stamp = store[r].stamp /\ s.control = file
    BY <1>1, <2>1 DEF Store
  <2>3. Become(r, s, "persist", seen[r])
        /\ UNCHANGED <<fileVars, serviceVars, sidecar>>
    BY <1>6 DEF LoadGood
  <2> HIDE DEF s
  <2> QED BY <1>1, <1>2, <2>2, <2>3, BecomeStep
<1>7. CASE LoadBad(r)
  <2>1. FallBack(store[r]) \in Store /\ FallBack(store[r]).stamp = store[r].stamp
    BY <1>1, FallBackType
  <2>2. ~(exists /\ store[r].stamp = stamp)
    BY <1>1, <1>2, <1>7, UnreadableAssumption DEF LoadBad, Store
  <2> QED BY <1>1, <1>2, <1>7, <2>1, <2>2, BecomeStep DEF LoadBad, NoStamp
<1>8. CASE Persist(r)
  <2> DEFINE s == [store[r] EXCEPT !.stamp = StampOfRead(r), !.everGood = TRUE]
  <2>1. s \in Store /\ s.stamp = seen[r] /\ s.control = store[r].control
    BY <1>1 DEF Store, StampOfRead
  <2>2. Become(r, s, "idle", NoStamp) /\ UNCHANGED <<fileVars, serviceVars>>
    BY <1>8 DEF Persist
  <2>3. sidecar' \in Content \cup {Unreadable}
    BY <1>1, <1>8 DEF Persist, Store
  <2>4. exists /\ seen[r] = stamp => store[r].control = file
    BY <1>8 DEF Persist, StampInv
  <2> HIDE DEF s
  <2> QED BY <1>1, <1>2, <2>1, <2>2, <2>3, <2>4, BecomeStep DEF NoStamp
<1> QED BY <1>3, <1>4, <1>5, <1>6, <1>7, <1>8 DEF Read

LEMMA ProxyRestartStep ==
  ASSUME ControlInv, ProxyRestart
  PROVE  ControlInv'
<1> USE DEF ControlInv, ProxyRestart, fileVars, serviceVars
<1>1. TypeOK'
  BY NewStoreType DEF TypeOK, NoStamp
<1>2. LockInv' /\ BaseInv'
  BY DEF LockInv, BaseInv, Loaded
<1>3. StampInv' /\ StampIsHonest'
  BY DEF TypeOK, StampInv, StampIsHonest, NewStore, NoStamp
<1> QED BY <1>1, <1>2, <1>3

(* Every step keeps the invariant.                                          *)
LEMMA ControlNext == ControlInv /\ [Next]_vars => ControlInv'
<1> SUFFICES ASSUME ControlInv, [Next]_vars PROVE ControlInv'
  OBVIOUS
<1>1. CASE Service
  BY <1>1, AcquireStep, SaveStep, ServiceRestartStep DEF Service
<1>2. CASE Outside
  BY <1>2, TamperStep DEF Outside
<1>3. CASE ProxyRestart
  BY <1>3, ProxyRestartStep
<1>4. CASE \E r \in Readers : Read(r)
  BY <1>4, ReadStep
<1>5. CASE UNCHANGED vars
  BY <1>5 DEF vars, fileVars, serviceVars, readerVars, ControlInv, TypeOK,
     LockInv, BaseInv, StampInv, StampIsHonest, Loaded
<1> QED BY <1>1, <1>2, <1>3, <1>4, <1>5 DEF Next

(* The inductive invariant of the control plane.                            *)
THEOREM ControlCorrect == Spec => []ControlInv
  BY ControlInit, ControlNext, PTL DEF Spec

(* Every reachable state of the control plane is well typed; the fallbacks  *)
(* of service and stores always yield settings that can be used.            *)
THEOREM ControlTypeCorrect == Spec => []TypeOK
  BY ControlCorrect, PTL DEF ControlInv

(* The stamp cache of a ControlStore never hides a write.                   *)
THEOREM StampAlwaysHonest == Spec => []StampIsHonest
  BY ControlCorrect, PTL DEF ControlInv
-----------------------------------------------------------------------------
(* The refinement.                                                          *)

(* The register speaks of the same contents and changes.                    *)
LEMMA SameContent ==
  /\ Register!Defaults = Defaults
  /\ Register!Change = Change
  /\ \A change, content : Register!Written(change, content) = Written(change, content)
  BY DEF Defaults, Register!Defaults, Change, Register!Change,
     Written, Register!Written, Apply, Register!Apply

LEMMA RegisterInit == Init => Register!Init
  BY SameContent DEF Init, Register!Init, RegisterValue, Loaded

LEMMA RegisterNext ==
  ASSUME ControlInv, Next
  PROVE  Register!Next \/ UNCHANGED <<RegisterValue, accepted>>
<1> USE DEF ControlInv
<1>1. ASSUME NEW h \in Handlers, NEW change \in Change, Acquire(h, change)
      PROVE  UNCHANGED <<RegisterValue, accepted>>
  <2>1. lock = Free /\ lock' = h /\ h # Free
    BY <1>1, ControlAssumption DEF Acquire, LockIsFree
  <2>2. pending'[h].base = Loaded
    BY <1>1 DEF Acquire, TypeOK
  <2> QED BY <1>1, <2>1, <2>2 DEF Acquire, RegisterValue
<1>2. ASSUME NEW h \in Handlers, Save(h)
      PROVE  Register!Next
  <2>1. lock = h /\ h # Free /\ pending[h] \in [change: Change, base: Content]
    BY <1>2, ControlAssumption DEF Save, LockInv, TypeOK
  <2>2. RegisterValue = pending[h].base
    BY <2>1 DEF RegisterValue
  <2>3. Written(pending[h].change, pending[h].base) # Unreadable
    BY <2>1, WrittenType, UnreadableAssumption
  <2>4. RegisterValue' = Written(pending[h].change, pending[h].base)
    BY <1>2, <2>3 DEF Save, Replace, RegisterValue, Loaded
  <2>5. accepted' = accepted + 1
    BY <1>2 DEF Save
  <2>6. Register!Write(pending[h].change)
    BY <2>2, <2>4, <2>5, SameContent DEF Register!Write
  <2> QED BY <2>1, <2>6, SameContent DEF Register!Next
<1>3. CASE ServiceRestart
  <2>1. RegisterValue' = Loaded /\ accepted' = accepted
    BY <1>3 DEF ServiceRestart, RegisterValue, Loaded, fileVars
  <2>2. CASE lock = Free
    BY <2>1, <2>2 DEF RegisterValue
  <2>3. CASE lock # Free
    <3>1. Loaded \in {RegisterValue, Defaults} \cup Edits
      BY <2>3 DEF TypeOK, BaseInv, RegisterValue
    <3> QED BY <2>1, <3>1, SameContent DEF Register!Next, Register!Tamper
  <2> QED BY <2>2, <2>3
<1>4. CASE Outside
  <2>1. /\ file' \in Edits \cup {Unreadable}
        /\ UNCHANGED <<lock, pending, accepted>>
    BY <1>4 DEF Outside, Edit, Tear, Remove, Replace, serviceVars
  <2>2. CASE lock = Free
    BY <2>1, <2>2, SameContent
    DEF RegisterValue, Loaded, Register!Next, Register!Tamper
  <2>3. CASE lock # Free
    BY <2>1, <2>3 DEF RegisterValue
  <2> QED BY <2>2, <2>3
<1>5. CASE ProxyRestart \/ \E r \in Readers : Read(r)
  <2>1. UNCHANGED <<fileVars, serviceVars>>
    BY <1>5 DEF ProxyRestart, Read, StatMissing, StatUnchanged, StatMoved,
       LoadGood, LoadBad, Persist
  <2> QED BY <2>1 DEF RegisterValue, Loaded, fileVars, serviceVars
<1> QED BY <1>1, <1>2, <1>3, <1>4, <1>5 DEF Next, Service

(* The control service implements the register: no accepted write is lost   *)
(* or half applied, whatever its threads, crashes and hand edits do.        *)
THEOREM ServiceImplementsRegister == Spec => ImplementsRegister
<1>1. ControlInv /\ [Next]_vars
      => [Register!Next]_<<RegisterValue, accepted>>
  BY RegisterNext DEF vars, fileVars, serviceVars, RegisterValue, Loaded
<1> QED BY <1>1, RegisterInit, ControlCorrect, PTL
        DEF Spec, ImplementsRegister, Register!Spec
-----------------------------------------------------------------------------
(* The reads of the lasting stores.                                         *)

Lasting == Readers \ Transient

(* A lasting store says what its last read returned until a load has        *)
(* replaced its snapshot, and then what the file said during the read.      *)
ReadInv ==
    /\ window \in [Readers -> SUBSET (Content \cup {Unreadable})]
    /\ returned \in [Readers -> Content \cup {Unreadable}]
    /\ \A r \in Lasting :
           /\ step[r] # "persist" /\ returned[r] # NoRead => store[r].control = returned[r]
           /\ step[r] = "persist" => store[r].control \in window[r]

CorruptionInv == ControlInv /\ ReadInv

LEMMA HNextIsNext == [HNext]_hvars => [Next]_vars
  BY DEF HNext, HRead, HSave, HEdit, Next, Service, Outside, hvars

(* A change of the file leaves the stores alone and only adds to windows.   *)
LEMMA ChangeKeepsReads ==
  ASSUME CorruptionInv, HChange, UNCHANGED readerVars, file' \in Content \cup {Unreadable}
  PROVE  ReadInv'
<1> USE DEF CorruptionInv, ReadInv, HChange, readerVars
<1>1. window' \in [Readers -> SUBSET (Content \cup {Unreadable})]
  OBVIOUS
<1>2. \A r \in Lasting : step[r] = "persist" => store[r].control \in window'[r]
  BY DEF Lasting
<1> QED BY <1>1, <1>2

LEMMA ReadKeepsReads ==
  ASSUME CorruptionInv, NEW r \in Readers, HRead(r)
  PROVE  ReadInv'
<1> USE DEF CorruptionInv
<1>1. /\ store \in [Readers -> Store] /\ step \in [Readers -> {"idle", "load", "persist"}]
      /\ seen \in [Readers -> Nat] /\ file \in Content \cup {Unreadable}
      /\ store' \in [Readers -> Store]
  BY ReadStep DEF ControlInv, TypeOK, HRead
<1>2. PICK s, where, found : Become(r, s, where, found)
  BY DEF HRead, Read, StatMissing, StatUnchanged, StatMoved, LoadGood, LoadBad, Persist
<1>3. \A q \in Readers \ {r} : /\ store'[q] = store[q] /\ step'[q] = step[q]
                               /\ window'[q] = window[q] /\ returned'[q] = returned[q]
  BY <1>1, <1>2 DEF Become, HRead, ReadInv
<1>4. /\ window' \in [Readers -> SUBSET (Content \cup {Unreadable})]
      /\ returned' \in [Readers -> Content \cup {Unreadable}]
  <2>1. store'[r].control \in Content
    BY <1>1 DEF Store
  <2> QED BY <1>1, <2>1 DEF HRead, ReadInv
<1>5. /\ step'[r] = "idle" => returned'[r] = store'[r].control
      /\ step'[r] # "idle" => returned'[r] = returned[r] /\ window'[r] = window[r] \cup {file}
  BY DEF HRead, ReadInv
<1>6. ASSUME r \in Lasting
      PROVE  /\ step'[r] # "persist" /\ returned'[r] # NoRead =>
                    store'[r].control = returned'[r]
             /\ step'[r] = "persist" => store'[r].control \in window'[r]
  <2>1. CASE StatMissing(r) \/ StatUnchanged(r) \/ LoadBad(r) \/ Persist(r)
    <3>1. step'[r] = "idle"
      BY <1>1, <2>1 DEF StatMissing, StatUnchanged, LoadBad, Persist, Become
    <3> QED BY <1>5, <3>1
  <2>2. CASE StatMoved(r)
    <3>1. step'[r] = "load" /\ store'[r] = store[r] /\ step[r] = "idle"
      BY <1>1, <1>6, <2>2 DEF StatMoved, Become, StoreOf, Lasting
    <3> QED BY <1>5, <1>6, <3>1 DEF ReadInv
  <2>3. CASE LoadGood(r)
    <3>1. step'[r] = "persist" /\ store'[r].control = file
      BY <1>1, <2>3 DEF LoadGood, Become, Store
    <3> QED BY <1>5, <3>1
  <2> QED BY <2>1, <2>2, <2>3 DEF HRead, Read
<1> QED BY <1>3, <1>4, <1>6 DEF ReadInv, Lasting

LEMMA CorruptionNext ==
  ASSUME CorruptionInv, [HNext]_hvars
  PROVE  CorruptionInv'
<1> USE DEF CorruptionInv
<1>1. ControlInv'
  BY HNextIsNext, ControlNext
<1>2. file' \in Content \cup {Unreadable}
  BY <1>1 DEF ControlInv, TypeOK
<1>3. CASE \E r \in Readers : HRead(r)
  BY <1>1, <1>3, ReadKeepsReads
<1>4. CASE HChange /\ UNCHANGED readerVars
  BY <1>1, <1>2, <1>4, ChangeKeepsReads
<1>5. CASE UNCHANGED <<readHistory, readerVars>>
  BY <1>1, <1>5 DEF ReadInv, readHistory, readerVars
<1>6. CASE ProxyRestart /\ returned' = [r \in Readers |-> NoRead]
           /\ window' = [r \in Readers |-> {}]
  BY <1>1, <1>6 DEF ReadInv, ProxyRestart, NoRead, Lasting
<1>7. CASE \E h \in Handlers : HSave(h)
  BY <1>4, <1>7 DEF HSave, Save
<1>8. CASE \/ \E content \in Edits : HEdit(content)
           \/ Tear /\ HChange
           \/ Remove /\ HChange
  BY <1>4, <1>8 DEF HEdit, Edit, Tear, Remove
<1>9. CASE /\ \/ \E h \in Handlers, change \in Change : Acquire(h, change)
              \/ ServiceRestart
           /\ UNCHANGED readHistory
  BY <1>5, <1>9 DEF Acquire, ServiceRestart
<1>10. CASE UNCHANGED hvars
  BY <1>5, <1>10 DEF hvars, vars, readerVars
<1> QED BY <1>3, <1>6, <1>7, <1>8, <1>9, <1>10 DEF HNext

(* While the proxy runs, a lasting store that has read that learning is off *)
(* says otherwise only after reading a file that does.                      *)
THEOREM TornFileNeverEnables == HSpec => CorruptionNeverEnables
<1>1. HInit => CorruptionInv
  BY ControlInit DEF HInit, Init, CorruptionInv, ReadInv, NoRead, Lasting
<1>2. ASSUME CorruptionInv, NEW r \in Lasting, Returns(r), store[r].everGood,
             returned[r] # NoRead, ~returned[r].learning, returned'[r].learning
      PROVE  \E content \in SeenDuring(r) \ {Unreadable} : content.learning
  <2> USE DEF CorruptionInv
  <2>1. /\ r \in Readers /\ store[r] \in Store /\ step'[r] = "idle"
        /\ store \in [Readers -> Store] /\ step \in [Readers -> {"idle", "load", "persist"}]
        /\ returned'[r] = store'[r].control
    BY <1>2 DEF ControlInv, TypeOK, Lasting, Returns, HRead, ReadInv
  <2>2. /\ step[r] # "persist" => store[r].control = returned[r]
        /\ step[r] = "persist" => store[r].control \in window[r]
    BY <1>2 DEF ReadInv
  <2>3. CASE step[r] # "persist"
    <3>1. store'[r].control = store[r].control
      <4>1. CASE StatMissing(r) \/ StatUnchanged(r)
        <5>1. store'[r] \in {store[r], [store[r] EXCEPT !.everGood = TRUE]}
          BY <1>2, <2>1, <4>1 DEF StatMissing, StatUnchanged, Become, StoreOf, Lasting
        <5> QED BY <2>1, <5>1 DEF Store
      <4>2. CASE LoadBad(r)
        BY <1>2, <2>1, <4>2 DEF LoadBad, Become, FallBack
      <4>3. CASE StatMoved(r) \/ LoadGood(r)
        BY <2>1, <4>3 DEF StatMoved, LoadGood, Become
      <4>4. CASE Persist(r)
        BY <2>3, <4>4 DEF Persist
      <4> QED BY <1>2, <4>1, <4>2, <4>3, <4>4 DEF Returns, HRead, Read
    <3> QED BY <1>2, <2>1, <2>2, <2>3, <3>1
  <2>4. CASE step[r] = "persist"
    <3>1. store'[r].control = store[r].control
      <4>1. Persist(r)
        BY <1>2, <2>4 DEF Returns, HRead, Read, StatMissing, StatUnchanged, StatMoved,
           LoadGood, LoadBad
      <4>2. store'[r] = [store[r] EXCEPT !.stamp = StampOfRead(r), !.everGood = TRUE]
        BY <2>1, <4>1 DEF Persist, Become
      <4> QED BY <2>1, <4>2 DEF Store
    <3>2. store[r].control # Unreadable
      BY <2>1, UnreadableAssumption DEF Store
    <3> QED BY <1>2, <2>1, <2>2, <2>4, <3>1, <3>2 DEF SeenDuring
  <2> QED BY <2>3, <2>4
<1>3. CorruptionInv /\ [HNext]_hvars =>
          [\A r \in Readers \ Transient :
              /\ Returns(r) /\ store[r].everGood
              /\ returned[r] # NoRead /\ ~returned[r].learning
              /\ returned'[r].learning
              => \E content \in SeenDuring(r) \ {Unreadable} : content.learning]_hvars
  BY <1>2 DEF Lasting
<1>4. CorruptionInv /\ [HNext]_hvars => CorruptionInv'
  BY CorruptionNext
<1> QED BY <1>1, <1>3, <1>4, PTL DEF HSpec, CorruptionNeverEnables
=============================================================================
