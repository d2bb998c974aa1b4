----------------------------- MODULE ControlPlane -----------------------------
(***************************************************************************)
(* control.json between its two sides: the handler threads of              *)
(* control_service.py, which load, change and replace it under one lock,   *)
(* and the ControlStores of control_store.py in the proxy, which read it   *)
(* through a cache keyed by the file's stamp, and fall back to the last    *)
(* good snapshot (in RAM, else in the sidecar .lastgood) when it is torn.  *)
(*                                                                         *)
(* A read is the stat, the load and the write of the sidecar, and the      *)
(* service may replace the file between them.  Every change of the file    *)
(* moves its (mtime, size) stamp.                                          *)
(***************************************************************************)
EXTENDS ControlContent

CONSTANTS
    Handlers,      \* threads of the control service
    Free, Idle,    \* nobody holds the lock; a handler without a request
    Readers,       \* callers that read through a ControlStore
    Transient,     \* those that make a new store per read (failure_hook._learn_on)
    PersistOutcomes, \* how the write of the sidecar ends: "written", "failed"
    Edits,         \* what may be written to control.json by hand
    MaxChanges     \* bound on the changes of control.json

ASSUME ControlAssumption ==
    /\ Free \notin Handlers
    /\ Idle \notin [change: Change, base: Content]
    /\ Transient \subseteq Readers
    /\ PersistOutcomes \subseteq {"written", "failed"}
    /\ Edits \subseteq Content
    /\ MaxChanges \in Nat

VARIABLES
    exists,     \* control.json exists
    file,       \* what it says, Unreadable when it is missing or torn
    stamp,      \* its (mtime_ns, size)
    sidecar,    \* what .lastgood says, Unreadable when it is missing
    lock,       \* _WRITE_LOCK: the handler that holds it
    pending,    \* per handler, the change and the content loaded for it
    accepted,   \* writes answered with 200
    store,      \* per reader, its ControlStore
    step,       \* per reader, where its read stands
    seen        \* per reader, the stamp its read found

serviceVars == <<lock, pending, accepted>>
fileVars == <<exists, file, stamp>>
readerVars == <<sidecar, store, step, seen>>
vars == <<fileVars, serviceVars, readerVars>>

NoStamp == 0
Store == [control: Content, stamp: Nat, everGood: BOOLEAN]
NewStore == [control |-> Defaults, stamp |-> NoStamp, everGood |-> FALSE]

TypeOK ==
    /\ exists \in BOOLEAN
    /\ file \in Content \cup {Unreadable}
    /\ stamp \in Nat
    /\ sidecar \in Content \cup {Unreadable}
    /\ lock \in Handlers \cup {Free}
    /\ pending \in [Handlers -> [change: Change, base: Content] \cup {Idle}]
    /\ accepted \in Nat
    /\ store \in [Readers -> Store]
    /\ step \in [Readers -> {"idle", "load", "persist"}]
    /\ seen \in [Readers -> Nat]

Init ==
    /\ exists = FALSE
    /\ file = Unreadable
    /\ stamp = NoStamp
    /\ sidecar = Unreadable
    /\ lock = Free
    /\ pending = [h \in Handlers |-> Idle]
    /\ accepted = 0
    /\ store = [r \in Readers |-> NewStore]
    /\ step = [r \in Readers |-> "idle"]
    /\ seen = [r \in Readers |-> NoStamp]
-----------------------------------------------------------------------------
(* The control service.                                                     *)

(* _load_control: whatever is not a JSON object reads as the defaults.       *)
LoadedWithoutFallback == file
Loaded == IF file = Unreadable THEN Defaults ELSE file

LockIgnored == TRUE
LockIsFree == lock = Free

Replace(content) ==
    /\ exists' = TRUE
    /\ file' = content
    /\ stamp' = stamp + 1

(* A handler takes the lock and loads the file for its request.             *)
Acquire(h, change) ==
    /\ pending[h] = Idle
    /\ LockIsFree
    /\ stamp < MaxChanges
    /\ lock' = h
    /\ pending' = [pending EXCEPT ![h] = [change |-> change, base |-> Loaded]]
    /\ UNCHANGED <<fileVars, accepted, readerVars>>

(* _save_control, through a temporary file and os.replace.                  *)
Save(h) ==
    /\ pending[h] # Idle
    /\ Replace(Written(pending[h].change, pending[h].base))
    /\ lock' = Free
    /\ pending' = [pending EXCEPT ![h] = Idle]
    /\ accepted' = accepted + 1
    /\ UNCHANGED readerVars

ServiceRestart ==
    /\ lock' = Free
    /\ pending' = [h \in Handlers |-> Idle]
    /\ UNCHANGED <<fileVars, accepted, readerVars>>
-----------------------------------------------------------------------------
(* Behind the service's back: the file is rewritten in place, left torn, or *)
(* removed.                                                                 *)

Edit(content) ==
    /\ stamp < MaxChanges
    /\ Replace(content)
    /\ UNCHANGED <<serviceVars, readerVars>>

Tear ==
    /\ exists
    /\ stamp < MaxChanges
    /\ Replace(Unreadable)
    /\ UNCHANGED <<serviceVars, readerVars>>

Remove ==
    /\ exists
    /\ exists' = FALSE
    /\ file' = Unreadable
    /\ UNCHANGED <<stamp, serviceVars, readerVars>>
-----------------------------------------------------------------------------
(* _refresh_control.  store, step and seen of one reader.                   *)

Become(r, s, where, found) ==
    /\ store' = [store EXCEPT ![r] = s]
    /\ step' = [step EXCEPT ![r] = where]
    /\ seen' = [seen EXCEPT ![r] = found]

StoreOf(r) == IF r \in Transient THEN NewStore ELSE store[r]

(* The stat: a missing file and an unmoved stamp end the read, and the      *)
(* snapshot in RAM stands.                                                  *)
StatMissing(r) ==
    /\ step[r] = "idle"
    /\ ~exists
    /\ Become(r, StoreOf(r), "idle", NoStamp)
    /\ UNCHANGED <<fileVars, serviceVars, sidecar>>

StatUnchanged(r) ==
    /\ step[r] = "idle"
    /\ exists
    /\ StoreOf(r).stamp = stamp
    /\ Become(r, [StoreOf(r) EXCEPT !.everGood = TRUE], "idle", NoStamp)
    /\ UNCHANGED <<fileVars, serviceVars, sidecar>>

StatMoved(r) ==
    /\ step[r] = "idle"
    /\ exists
    /\ StoreOf(r).stamp # stamp
    /\ Become(r, StoreOf(r), "load", stamp)
    /\ UNCHANGED <<fileVars, serviceVars, sidecar>>

LoadGood(r) ==
    /\ step[r] = "load"
    /\ file # Unreadable
    /\ Become(r, [store[r] EXCEPT !.control = file], "persist", seen[r])
    /\ UNCHANGED <<fileVars, serviceVars, sidecar>>

(* A torn file, or one that vanished after the stat: the snapshot in RAM if *)
(* it was ever good, else the sidecar, else defaults with learning off.     *)
FailClosed == [Defaults EXCEPT !.learning = FALSE]

FallBackToDefaults(s) == [s EXCEPT !.control = Defaults]

FallBack(s) ==
    IF s.everGood THEN s
    ELSE IF sidecar # Unreadable
         THEN [s EXCEPT !.control = sidecar, !.everGood = TRUE]
         ELSE [s EXCEPT !.control = FailClosed]

LoadBad(r) ==
    /\ step[r] = "load"
    /\ file = Unreadable
    /\ Become(r, FallBack(store[r]), "idle", NoStamp)
    /\ UNCHANGED <<fileVars, serviceVars, sidecar>>

(* _persist_lastgood, whose failures (a read-only mount, a full disk) are   *)
(* ignored; then the read is recorded, under the stamp found before it.     *)
StampNow(r) == stamp
StampOfRead(r) == seen[r]

Persist(r) ==
    /\ step[r] = "persist"
    /\ \E outcome \in PersistOutcomes :
           sidecar' = IF outcome = "written" THEN store[r].control ELSE sidecar
    /\ Become(r, [store[r] EXCEPT !.stamp = StampOfRead(r), !.everGood = TRUE],
              "idle", NoStamp)
    /\ UNCHANGED <<fileVars, serviceVars>>

(* The proxy restarts with new stores.                                      *)
ProxyRestart ==
    /\ store' = [r \in Readers |-> NewStore]
    /\ step' = [r \in Readers |-> "idle"]
    /\ seen' = [r \in Readers |-> NoStamp]
    /\ UNCHANGED <<fileVars, serviceVars, sidecar>>
-----------------------------------------------------------------------------
Service ==
    \/ \E h \in Handlers, change \in Change : Acquire(h, change)
    \/ \E h \in Handlers : Save(h)
    \/ ServiceRestart

Outside == Tear \/ Remove \/ \E content \in Edits : Edit(content)

Read(r) ==
    \/ StatMissing(r) \/ StatUnchanged(r) \/ StatMoved(r)
    \/ LoadGood(r) \/ LoadBad(r) \/ Persist(r)

Next == Service \/ Outside \/ ProxyRestart \/ \E r \in Readers : Read(r)

Spec == Init /\ [][Next]_vars
-----------------------------------------------------------------------------
(* The stamp cache never hides a write: a store that would take the file    *)
(* for unchanged holds what the file says, even when the service replaced   *)
(* it, or it was torn, removed or mended, between the stat, the load and    *)
(* the record of an earlier read.                                           *)
StampIsHonest ==
    \A r \in Readers :
        exists /\ store[r].stamp = stamp => store[r].control = file

(* The file as the register of ControlRegister: while a handler holds the   *)
(* lock, what it loaded is what its write will change.                      *)
RegisterValue == IF lock = Free THEN Loaded ELSE pending[lock].base

Register == INSTANCE ControlRegister WITH value <- RegisterValue

(* The service implements the register: no accepted write is lost or half   *)
(* applied, however its threads, crashes and hand edits interleave.         *)
ImplementsRegister == Register!Spec
=============================================================================
