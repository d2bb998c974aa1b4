---------------------------- MODULE RoutingHistory ----------------------------
(***************************************************************************)
(* RoutingPolicy with history variables, and the properties of its         *)
(* decisions that take several turns to violate.  The history variables    *)
(* are written after every step and never read by it.                      *)
(***************************************************************************)
EXTENDS RoutingPolicy

VARIABLES
    heldRun,      \* turns in a row a session's model was held by its pin
    sinceSwap,    \* turns since a session's last pin-swap, 0 when none
    paid,         \* estimates summed over the decisions of a session's record
    leasedBy      \* the lease that put a session on the model its pin has held
                  \* ever since, NoLease when the model came another way

history == <<heldRun, sinceSwap, paid, leasedBy>>
hvars == <<vars, history>>

PinHolds == {"pinned-grace", "pinned-loyalty"}

HInit ==
    /\ Init
    /\ heldRun = [s \in Sessions |-> 0]
    /\ sinceSwap = [s \in Sessions |-> 0]
    /\ paid = [s \in Sessions |-> 0]
    /\ leasedBy = [s \in Sessions |-> NoLease]

(* After a decision.  A session whose record was dropped starts anew.       *)
Record(s, why, cost) ==
    /\ heldRun' = [heldRun EXCEPT ![s] = IF why \in PinHolds THEN @ + 1 ELSE 0]
    /\ sinceSwap' = [sinceSwap EXCEPT ![s] =
           IF why = "pin-swap" THEN 1
           ELSE IF Live(s) /\ @ # 0 THEN @ + 1 ELSE 0]
    /\ paid' = [paid EXCEPT ![s] = (IF Live(s) THEN @ ELSE 0) + cost]
    /\ leasedBy' = [leasedBy EXCEPT ![s] =
           IF why = "lease" THEN LiveLease
           ELSE IF why \in PinHolds THEN @ ELSE NoLease]

HServe ==
    /\ Serve
    /\ Record(request.session, decision'.reason,
              EstimateCost(decision'.sig, decision'.winner))

HIdle ==
    /\ \/ \E s \in Sessions, sig \in Signatures : Begin(s, sig)
       \/ SkipPath
       \/ Surroundings
    /\ UNCHANGED history

HNext == HServe \/ HIdle

HSpec == HInit /\ [][HNext]_hvars

(* _run is synchronous: a request it has begun is decided, unless the        *)
(* process dies.                                                            *)
FairHSpec == HSpec /\ WF_hvars(HServe)

Decided == decision # NoDecision
Steered == decision.reason \in {"lease", "pinned-directive"}
-----------------------------------------------------------------------------
(* A model that cannot serve the request (an image to a text-only model, a  *)
(* prompt beyond the window) is chosen only when no fleet model outside the *)
(* failure window can, whichever of lease, directive, pin, demotion and     *)
(* fresh decision chose it.                                                 *)
GatesHold ==
    Decided /\ ~Fits(decision.sig, decision.winner) =>
        \A m \in Fleet \ decision.excluded : ~Fits(decision.sig, m)

(* A model inside its failure window serves a turn only by a live lease, by *)
(* [[use:]], or as a logged fallback: stickiness, a demotion or a swap      *)
(* never returns to it.                                                     *)
CascadeRespected ==
    Decided /\ decision.winner \in decision.excluded =>
        Steered \/ decision.fallback

(* A pin never keeps a premium model for more than PIN_PREMIUM_CEIL turns   *)
(* in a row without a fresh decision (the 44-turn kimi incident).           *)
PremiumRunBounded ==
    \A s \in Sessions :
        Live(s) /\ Premium(sessions[s].model) => heldRun[s] <= PIN_PREMIUM_CEIL

(* Once the sweep of an ended lease has run, no session still holds the      *)
(* model that lease gave it.                                                *)
SweptLeaseHoldsNoSession ==
    \A s \in Sessions : Live(s) => leasedBy[s] \notin cleanedLeases

(* Two swaps of one session are more than PIN_GRACE_TURNS turns apart: a    *)
(* swap restarts grace, so models cannot ping-pong.                         *)
SwapSpacing ==
    [][ HServe /\ decision'.reason = "pin-swap" =>
            LET s == request.session
            IN  sinceSwap[s] # 0 => sinceSwap[s] > PIN_GRACE_TURNS ]_hvars

(* Once what a session's decisions were estimated to cost reaches the cap,  *)
(* a turn without an explicit directive, [[use:]] or a live lease goes to a *)
(* model no dearer than any other that clears the kind's base bar, fits and *)
(* is not excluded.                                                         *)
CapForcesCheapest ==
    [][ HServe =>
          LET s == request.session
              turn == decision'.sig
              rivals == {m \in Fleet \ decision'.excluded :
                            Fits(turn, m) /\ Cap[m][turn.kind] >= BaseBar[turn.kind]}
          IN  /\ Live(s) /\ control.budget # 0 /\ paid[s] >= control.budget
              /\ ~Explicit(turn)
              /\ decision'.reason # "lease"
              => \A m \in rivals : Blended(decision'.winner) <= Blended(m) ]_hvars

(* Every request that is begun is decided: whatever the fleet, the gates,    *)
(* the failures and the spend guards say, some branch of the winner chain   *)
(* has a model to give.                                                     *)
EveryRequestDecided == request # NoRequest ~> request = NoRequest
=============================================================================
