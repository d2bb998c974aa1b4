------------------------------ MODULE MCLearning ------------------------------
(* LearningHistory with small sets, for TLC.                                *)
EXTENDS LearningHistory

CONSTANTS here, glm, kimi

Fix == "fix the parser"
Fresh == "name a colour"

MCAsks == {Fix, Fresh}
Repeats == {<<Fix, Fix>>}
ParserMentioned == {<<Fix, "parser">>}

Asking(ask, escalate) == [ask |-> ask, kind |-> "debug", escalate |-> escalate]
MCRequests == {Asking(Fix, FALSE), Asking(Fresh, TRUE)}
Escalating == {Asking(Fix, TRUE)}
Repeating == {Asking(Fix, FALSE)}

Call(enabled, reset) == [enabled |-> enabled, reset |-> reset]
MCToolCalls ==
    {Call(FALSE, NoArg), Call(TRUE, "all"), Call(NoArg, "all")}
ResetAll == {Call(NoArg, "all")}
MCIntents == {[id |-> 1, scope |-> "all"]}

NoIntents == {}
=============================================================================
