---------------------------- MODULE ControlHistory ----------------------------
(***************************************************************************)
(* ControlPlane with the history of what each read could have seen, and    *)
(* what the proxy's reads of control.json return.                          *)
(***************************************************************************)
EXTENDS ControlPlane

VARIABLES
    window,      \* per reader, what the file said at some time of its read
    returned,    \* per reader, what its last read since the proxy started
                 \* returned
    wanted       \* the learning switch as last set by the operator: by a
                 \* write, by hand, or by removing the file (the defaults)

readHistory == <<window, returned, wanted>>
hvars == <<vars, readHistory>>

NoRead == Unreadable

HInit ==
    /\ Init
    /\ window = [r \in Readers |-> {}]
    /\ returned = [r \in Readers |-> NoRead]
    /\ wanted = TRUE

(* A read without a load is over with its stat; one with a load ends when   *)
(* it is idle again.                                                        *)
HRead(r) ==
    /\ Read(r)
    /\ window' = [window EXCEPT ![r] =
           IF step'[r] = "idle" THEN {} ELSE @ \cup {file}]
    /\ returned' = [returned EXCEPT ![r] =
           IF step'[r] = "idle" THEN store'[r].control ELSE @]
    /\ UNCHANGED wanted

(* A change of the file is seen by every read under way.                    *)
HChange ==
    /\ window' = [r \in Readers |->
           IF step[r] = "idle" THEN {} ELSE window[r] \cup {file'}]
    /\ UNCHANGED returned

HSave(h) ==
    /\ Save(h)
    /\ wanted' = IF pending[h].change.op = "learning"
                 THEN pending[h].change.to ELSE wanted
    /\ HChange

HEdit(content) ==
    /\ Edit(content)
    /\ wanted' = content.learning
    /\ HChange

HNext ==
    \/ \E r \in Readers : HRead(r)
    \/ \E h \in Handlers : HSave(h)
    \/ \E content \in Edits : HEdit(content)
    \/ /\ \/ \E h \in Handlers, change \in Change : Acquire(h, change)
          \/ ServiceRestart
       /\ UNCHANGED readHistory
    \/ Tear /\ HChange /\ UNCHANGED wanted
    \/ Remove /\ HChange /\ wanted' = TRUE
    \/ /\ ProxyRestart
       /\ window' = [r \in Readers |-> {}]
       /\ returned' = [r \in Readers |-> NoRead]
       /\ UNCHANGED wanted

HSpec == HInit /\ [][HNext]_hvars

(* The read of r that ends in this step, and what the file said during it.  *)
Returns(r) == HRead(r) /\ step'[r] = "idle"
SeenDuring(r) == window[r] \cup {file}
-----------------------------------------------------------------------------
(* A torn file never switches learning back on: while the proxy runs, a     *)
(* lasting store that has read that it is off says otherwise only after     *)
(* reading a file that does.                                                *)
CorruptionNeverEnables ==
    [][ \A r \in Readers \ Transient :
            /\ Returns(r) /\ store[r].everGood
            /\ returned[r] # NoRead /\ ~returned[r].learning
            /\ returned'[r].learning
            => \E content \in SeenDuring(r) \ {Unreadable} : content.learning ]_hvars
-----------------------------------------------------------------------------
(* control_store.py says that a torn file reads as the last good snapshot   *)
(* "never to defaults, because pristine defaults would silently re-enable   *)
(* learning the operator disabled": once switched off, learning is off in   *)
(* every read of a readable file.                                           *)
SwitchedOffStaysOff ==
    [][ \A r \in Readers :
            /\ Returns(r) /\ ~wanted
            /\ SeenDuring(r) = {file} /\ file # Unreadable
            => ~returned'[r].learning ]_hvars
=============================================================================
