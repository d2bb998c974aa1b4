---------------------------- MODULE ControlContent ----------------------------
(***************************************************************************)
(* What control.json says, and what the write endpoints of                 *)
(* control_service.py make of it.  A lease, the budget and each weight are *)
(* settings: keys that an endpoint sets or clears one at a time.           *)
(***************************************************************************)
EXTENDS Naturals

CONSTANTS
    Keys,       \* "lease", "budget_hkd" and the weights
    Values,     \* what a setting may be set to
    NoValue,    \* a setting that is null or missing
    Unreadable  \* what a missing or torn file says

Content ==
    [learning: BOOLEAN, alarmEpoch: Nat,
     settings: [Keys -> Values \cup {NoValue}], revision: Nat]

Defaults ==
    [learning |-> TRUE, alarmEpoch |-> 0,
     settings |-> [k \in Keys |-> NoValue], revision |-> 0]

ASSUME UnreadableAssumption == Unreadable \notin Content

Change ==
    [op: {"learning"}, to: BOOLEAN]
    \cup [op: {"setting"}, key: Keys, to: Values \cup {NoValue}]
    \cup [op: {"alarms"}]

Apply(change, content) ==
    CASE change.op = "learning" -> [content EXCEPT !.learning = change.to]
      [] change.op = "setting"  -> [content EXCEPT !.settings[change.key] = change.to]
      [] change.op = "alarms"   -> [content EXCEPT !.alarmEpoch = @ + 1]

(* _save_control: every accepted write counts the revision up.              *)
Written(change, content) ==
    [Apply(change, content) EXCEPT !.revision = content.revision + 1]
=============================================================================
