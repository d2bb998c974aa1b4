---------------------------- MODULE MCMeasurement ----------------------------
EXTENDS Measurement, TLC

CONSTANTS chat1, chat2, aider, cursor, glm, mimo

MCPrice == (glm :> 2) @@ (mimo :> 1)
MCUses == {<<chat1, aider>>, <<chat2, cursor>>}

(* The chats are alike, each with its client.                               *)
Symmetric ==
    {p \in Permutations({chat1, chat2, aider, cursor}) :
        {<<p[use[1]], p[use[2]]>> : use \in MCUses} = MCUses}
=============================================================================
