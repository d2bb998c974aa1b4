----------------------------- MODULE AlarmHistory -----------------------------
(***************************************************************************)
(* RoutingPolicy with the calls whose receipts may come, and the history   *)
(* of what was billed and of what a manual clear of the kind alarm (MCP    *)
(* router_kind_alarm_clear) wiped.                                         *)
(***************************************************************************)
EXTENDS RoutingPolicy

VARIABLES
    sent,       \* the session, model and kind of every call the running proxy
                \* made; calls die with their process
    billed,     \* everything a session was ever billed by receipts
    beganAt,    \* billed when the request being served began
    wipedAt,    \* per session, billed when the policy took in the last clear
    witness     \* the sessions that took in the last clear themselves and
                \* whose record was not dropped since

alarmHistory == <<sent, billed, beganAt, wipedAt, witness>>
avars == <<vars, alarmHistory>>

AInit ==
    /\ Init
    /\ sent = {}
    /\ billed = [s \in Sessions |-> 0]
    /\ beganAt = [s \in Sessions |-> 0]
    /\ wipedAt = [s \in Sessions |-> 0]
    /\ witness = {}

ABegin(s, sig) ==
    /\ Begin(s, sig)
    /\ beganAt' = billed
    /\ witness' = {x \in witness : sessions'[x].model # NoModel}
    /\ UNCHANGED <<sent, billed, wipedAt>>

ASkipPath ==
    /\ SkipPath
    /\ witness' = {x \in witness : sessions'[x].model # NoModel}
    /\ UNCHANGED <<sent, billed, beganAt, wipedAt>>

ClearTakenIn == control.alarmEpoch > alarmEpoch

AServe ==
    /\ Serve
    /\ sent' = sent \cup {<<request.session, decision'.winner, decision'.sig.kind>>}
    /\ wipedAt' = IF ClearTakenIn THEN beganAt ELSE wipedAt
    /\ witness' = IF ClearTakenIn THEN {request.session} ELSE witness
    /\ UNCHANGED <<billed, beganAt>>

(* A receipt has the session and kind of its call, and names the model that *)
(* was billed: the chosen one, or one the proxy failed over to.             *)
Billable(s, m, k) ==
    \E chosen \in Models :
        <<s, chosen, k>> \in sent /\ (m = chosen \/ m \in FailoverModels)

AReceipt(s, m, k, bill) ==
    /\ Billable(s, m, k)
    /\ Receipt(s, m, k, bill)
    /\ billed' = [billed EXCEPT ![s] = @ + bill]
    /\ UNCHANGED <<sent, beganAt, wipedAt, witness>>

ARestart ==
    /\ Restart
    /\ sent' = {}
    /\ witness' = {}
    /\ UNCHANGED <<billed, beganAt, wipedAt>>

ANext ==
    \/ \E s \in Sessions, sig \in Signatures : ABegin(s, sig)
    \/ ASkipPath
    \/ AServe
    \/ \E s \in Sessions, m \in Models, k \in Kinds, bill \in Bills :
           AReceipt(s, m, k, bill)
    \/ ARestart
    \/ /\ \/ Tick \/ Operator \/ \E m \in FailingModels : UpstreamFailure(m)
       /\ UNCHANGED alarmHistory

ASpec == AInit /\ [][ANext]_avars

NewlyBilled(s) == billed[s] - wipedAt[s]
-----------------------------------------------------------------------------
(* In the session whose request took in the clear, the receipts alarm fires *)
(* again only for money billed since that request began, as long as the     *)
(* session's record lives.                                                  *)
AlarmNeedsNewSpend ==
    [][ AServe /\ decision'.alarm = "real" /\ request.session \in witness'
          => (NewlyBilled(decision.session))' >= KIND_ALARM_HKD ]_avars

(* The alarm of one session is never raised by the receipts of another: a   *)
(* session that was billed less than the threshold raises no receipts alarm.*)
AlarmIsPerSession ==
    [][ AServe /\ decision'.alarm = "real"
          => billed[request.session] >= KIND_ALARM_HKD ]_avars
=============================================================================
