--------------------------- MODULE ControlRegister ---------------------------
(***************************************************************************)
(* What the control service promises: the settings are one register, every *)
(* accepted write changes it in one step from the value it had, and counts *)
(* once.  Someone may also tamper with the file behind the service: then   *)
(* the register holds what was written by hand, or the defaults when that  *)
(* is nothing a reader could parse.                                        *)
(***************************************************************************)
EXTENDS ControlContent

CONSTANT Edits      \* what may be written to control.json by hand

VARIABLES value, accepted

Init == value = Defaults /\ accepted = 0

Write(change) ==
    /\ value' = Written(change, value)
    /\ accepted' = accepted + 1

Tamper ==
    /\ value' \in Edits \cup {Defaults}
    /\ UNCHANGED accepted

Next == Tamper \/ \E change \in Change : Write(change)

Spec == Init /\ [][Next]_<<value, accepted>>
=============================================================================
