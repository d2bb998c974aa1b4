------------------------------ MODULE MCFleet ------------------------------
(***************************************************************************)
(* Constants of the routing instances TLC checks.  Profiles and bars are   *)
(* rows of PROFILES and BASE_BAR: a text-only flash, a vision flash and    *)
(* two premium models, one of them without vision.                         *)
(***************************************************************************)
EXTENDS Selection, TLC

CONSTANTS qwen, glm, kimi, glmPro, first, second, third

MCModels == {qwen, glm, kimi, glmPro}
MCVision == (qwen :> FALSE @@ glm :> TRUE @@ kimi :> TRUE @@ glmPro :> FALSE)
MCWindow == (qwen :> 262 @@ glm :> 200 @@ kimi :> 262 @@ glmPro :> 200)
MCCostIn == (qwen :> 120 @@ glm :> 100 @@ kimi :> 770 @@ glmPro :> 1130)
MCCostOut == (qwen :> 380 @@ glm :> 340 @@ kimi :> 3220 @@ glmPro :> 3540)
MCLatency == (qwen :> 0 @@ glm :> 0 @@ kimi :> 1 @@ glmPro :> 1)

MCKinds == {"debug", "agentic"}
MCBaseBar == [debug |-> 750, agentic |-> 650]
MCCap ==
    (qwen :> [debug |-> 580, agentic |-> 600] @@
     glm :> [debug |-> 550, agentic |-> 680] @@
     kimi :> [debug |-> 900, agentic |-> 900] @@
     glmPro :> [debug |-> 860, agentic |-> 880])

MCWholeFleet == MCModels
MCSmallFleet == {qwen, glm, kimi}
MCAsks == {"a", "b"}
-----------------------------------------------------------------------------
(* Requests of an agent loop re-sending a 130k-token thread.                *)
Turn ==
    [kind |-> "agentic", tokens |-> 130, askTokens |-> 100, image |-> FALSE,
     fanout |-> TRUE, stall |-> FALSE, importance |-> 1, directives |-> {},
     use |-> NoModel, ask |-> "a"]

DebugTurn == [Turn EXCEPT !.kind = "debug"]
HighTurn == [Turn EXCEPT !.importance = 2]
ImageTurn == [Turn EXCEPT !.image = TRUE]
LowTurn == [Turn EXCEPT !.importance = 0]
HugeTurn == [Turn EXCEPT !.tokens = 210]
StallTurn == [Turn EXCEPT !.stall = TRUE]
EscalateTurn == [HighTurn EXCEPT !.directives = {"escalate"}]
UseTurn == [Turn EXCEPT !.directives = {"use"}, !.use = kimi]

ImageTurns == {ImageTurn}
DearTurns == {Turn, HighTurn}
PinTurns == {Turn, HighTurn, LowTurn, StallTurn, DebugTurn}
GuardTurns == {ImageTurn, UseTurn, HighTurn, EscalateTurn}
LeaseTurns == {Turn, HugeTurn, UseTurn}
OneTurn == {Turn}
AlarmTurns == {HighTurn, DebugTurn}
LiveTurns == {ImageTurn, HugeTurn}

NoLearning ==
    {[trust |-> [k \in Kinds |-> [m \in Models |-> 0]],
      bias |-> [k \in Kinds |-> 0], laya |-> 0]}
(* A learned bar bias of +0.10 and persisted distrust of kimi.              *)
SomeLearning ==
    NoLearning \cup
    {[trust |-> [k \in Kinds |-> [m \in Models |-> IF m = kimi THEN -150 ELSE 0]],
      bias |-> [k \in Kinds |-> 100], laya |-> 45]}
(* The operator makes cost no object, and puts it back.                     *)
UsualCost == [cost |-> 35, trust |-> 30, headroom |-> 10, latency |-> 10]
CostSwings == {UsualCost, [UsualCost EXCEPT !.cost = 0]}
=============================================================================
