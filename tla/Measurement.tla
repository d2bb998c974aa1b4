----------------------------- MODULE Measurement -----------------------------
(***************************************************************************)
(* Task tags and receipts together.  The policy attaches its signals to a  *)
(* call and goes on with other requests; the receipt hook finds them there *)
(* when the answer comes, in any order, or never.  A fleet turn reads the  *)
(* totals the hook wrote.  A restart takes both memories and leaves the    *)
(* two files.                                                              *)
(*                                                                         *)
(* The history variables hold what the users meant and what was billed.    *)
(***************************************************************************)
EXTENDS UsageState

CONSTANTS
    Uses,         \* which client a chat may come from
    Unsure,       \* stands for a tag nobody can know
    MaxExchanges  \* bound on the answers and twice the requests

ASSUME UsesAssumption ==
    /\ Uses \subseteq Sessions \X Clients
    /\ Unsure \notin MaybeTag
    /\ MaxExchanges \in Nat

VARIABLES
    meant,     \* the tag of the session's work, as the user sees it
    tagged,    \* that tag, for each call by its number
    turned,    \* time of the session's last turn, of either route
    away,      \* model of an escape-hatch turn since the last fleet turn
    hatch,     \* model of the last escape-hatch turn
    lost,      \* routes that lost the session's record since the last fleet turn
    billed,    \* what the session's answers cost, ever
    counted,   \* receipts behind the present totals of their sessions
    answers    \* answers so far

tagHistory == <<meant, tagged, turned, away, hatch>>
billHistory == <<billed, counted, answers>>
vars == <<tagVars, usageVars, tagHistory, lost, billHistory>>

Init ==
    /\ TagsInit
    /\ UsageInit
    /\ meant = [s \in Sessions |-> NoTag]
    /\ tagged = [no \in 0 .. MaxRequests - 1 |-> NoTag]
    /\ turned = [s \in Sessions |-> 0]
    /\ away = [s \in Sessions |-> NoModel]
    /\ hatch = [s \in Sessions |-> NoModel]
    /\ lost = [s \in Sessions |-> {}]
    /\ billed = [s \in Sessions |-> 0]
    /\ counted = {}
    /\ answers = 0
-----------------------------------------------------------------------------
(* History of a turn.                                                       *)

(* The record of the session's last turn is there when its tag is read.     *)
Remembered(s) ==
    \/ Pruned(fleet)[s] # NoRecord /\ Pruned(fleet)[s].ts = turned[s]
    \/ own[s] # NoRecord /\ own[s].ts = turned[s]

(* A user means a tag until another mark says otherwise.  A chat that goes  *)
(* on without a mark while the record of its last turn is gone leaves the   *)
(* router without a way to know, until a mark says what the chat is about. *)
Meaning(s, mark) ==
    CASE mark \in Tags -> mark
      [] mark = Clear -> NoTag
      [] mark = Plain /\ turned[s] # 0 /\ ~Remembered(s) -> Unsure
      [] OTHER -> meant[s]

Missing(records, kept, route, s) ==
    IF records[s] # NoRecord /\ kept[s] = NoRecord THEN {route} ELSE {}
Lost(keptFleet, keptOwn) ==
    [s \in Sessions |-> lost[s] \cup Missing(fleet, keptFleet, "fleet", s)
                                \cup Missing(own, keptOwn, "own", s)]

Room(cost) == 2 * requests + answers + cost <= MaxExchanges

Taken(s, mark) ==
    /\ Room(2)
    /\ meant' = [meant EXCEPT ![s] = Meaning(s, mark)]
    /\ tagged' = [tagged EXCEPT ![requests] = Meaning(s, mark)]
    /\ turned' = [turned EXCEPT ![s] = now]
    /\ UNCHANGED billHistory
-----------------------------------------------------------------------------
Decide(s, client, model, mark) ==
    /\ FleetTurn(s, client, model, mark)
    /\ LoadView
    /\ UNCHANGED <<agg, file, stamp, log>>
    /\ Taken(s, mark)
    /\ away' = [away EXCEPT ![s] = NoModel]
    /\ lost' = [Lost(Pruned(fleet), own) EXCEPT ![s] = {}]
    /\ UNCHANGED hatch

Bypass(s, client, model, mark) ==
    /\ DirectTurn(s, client, model, mark)
    /\ Taken(s, mark)
    /\ away' = [away EXCEPT ![s] = model]
    /\ hatch' = [hatch EXCEPT ![s] = model]
    /\ lost' = Lost(fleet', own')
    /\ UNCHANGED usageVars

PassOn(s, client, model) ==
    /\ NoAskTurn(s, client, model)
    /\ Taken(s, Plain)
    /\ lost' = Lost(fleet', own')
    /\ UNCHANGED <<usageVars, away, hatch>>

Deliver(call) ==
    /\ Room(1)
    /\ answers' = answers + 1
    /\ RecordReceipt(call)
    /\ calls' = calls \ {call}
    /\ now' = now + 1
    /\ billed' = [billed EXCEPT ![call.session] = @ + Price[call.model]]
    /\ counted' = {c \in counted \cup {call} : agg'[c.session] # NoEntry}
    /\ UNCHANGED <<fleet, own, requests, tagHistory, lost>>

EndLease(pinned) ==
    /\ Sweep(pinned)
    /\ lost' = Lost(fleet', own)
    /\ UNCHANGED <<usageVars, tagHistory, billHistory>>

Restart ==
    /\ TagsRestart
    /\ UsageRestart
    /\ lost' = Lost(fleet', own')
    /\ counted' = {}
    /\ UNCHANGED <<tagHistory, billed, answers>>

Next ==
    \/ \E s \in Sessions : \E client \in {c \in Clients : <<s, c>> \in Uses} :
        \/ \E model \in FleetModels, mark \in Marks : Decide(s, client, model, mark)
        \/ \E model \in DirectModels, mark \in Marks : Bypass(s, client, model, mark)
        \/ \E model \in FleetModels : PassOn(s, client, model)
    \/ \E call \in calls : Deliver(call)
    \/ \E pinned \in SUBSET Sessions : EndLease(pinned)
    \/ Restart

Spec == Init /\ [][Next]_vars
-----------------------------------------------------------------------------
(* Every stored tag, signal and total has its type, and the history is of  *)
(* sessions, calls and models that exist.                                  *)
TypeOK ==
    /\ TagsTypeOK
    /\ UsageTypeOK
    /\ meant \in [Sessions -> MaybeTag \cup {Unsure}]
    /\ tagged \in [0 .. MaxRequests - 1 -> MaybeTag \cup {Unsure}]
    /\ turned \in [Sessions -> Nat]
    /\ away \in [Sessions -> MaybeModel]
    /\ hatch \in [Sessions -> MaybeModel]
    /\ lost \in [Sessions -> SUBSET {"fleet", "own"}]
    /\ billed \in [Sessions -> Nat]
    /\ counted \subseteq Call
    /\ answers \in Nat

(* The receipts of a session that carry the task, of one client.            *)
ReceiptsOf(s, t, c) == {r \in counted : r.session = s /\ r.client = c /\ r.task = t}

(* The spend of a task under a client is what its answers cost, however     *)
(* late and in whatever order they came in, since the session's totals     *)
(* began; and an answer counts for the task the user's chat was about when  *)
(* the call was made, whatever picker it used and over turns of either      *)
(* route, unless the chat went on without the record of its last turn.     *)
TaskSpendIsTagged ==
    /\ \A s \in Sessions, t \in Tags, c \in Clients :
           agg[s].tasks[<<t, c>>] = SumFunction([r \in ReceiptsOf(s, t, c) |-> Price[r.model]])
    /\ \A r \in counted : tagged[r.no] \in {r.task, Unsure}

(* Two of the newest receipts, of different clients, whose calls satisfy P. *)
RedoneBy(P(_)) ==
    \E i, j \in {k \in DOMAIN log : Len(log) - k < SUMMARY_LIMIT} :
        log[i].client # log[j].client /\ P(log[i].no) /\ P(log[j].no)

(* The dashboard calls a task redone when two clients worked on it among   *)
(* the newest receipts, and only then: each way up to calls of chats that   *)
(* went on without the record of their last turn.                          *)
RedoIsReal ==
    \A t \in Tags :
        LET Sure(no) == tagged[no] = t
            Possible(no) == tagged[no] \in {t, Unsure}
        IN  /\ RedoneBy(Sure) => t \in TaskRedo
            /\ t \in TaskRedo => RedoneBy(Possible)

(* No total, in RAM, in the file or in the reader's cache, exceeds what    *)
(* the session's answers cost, over restarts, evictions and failed writes. *)
SpendIsBilled ==
    \A totals \in {agg, file, cache}, s \in Sessions : totals[s].real <= billed[s]

(* A total is never more than was billed, and is the sum of its clients'   *)
(* parts, wherever it is held.                                             *)
SpendIsNeverInvented ==
    /\ SpendIsBilled
    /\ \A totals \in {agg, file, cache}, s \in Sessions :
           totals[s].real = SumFunction(totals[s].clients)

(* A fleet turn is flagged with the model of the escape-hatch turn it      *)
(* comes back from, once: never without such a turn since the last fleet   *)
(* turn unless the fleet's record was lost, and never not unless the       *)
(* annotator's was.                                                        *)
SwitchBackIsExact ==
    [][\A s \in Sessions, call \in calls' \ calls :
        LET back == call.switch_back_from
            gone == Lost(Pruned(fleet), own)[s]
        IN  call.session = s /\ fleet'[s] # NoRecord /\ fleet'[s].ts = now =>
                /\ back \in {NoModel, away[s]} \/ ("fleet" \in gone /\ back = hatch[s])
                /\ away[s] # NoModel /\ back # away[s] => "own" \in gone]_vars
=============================================================================
