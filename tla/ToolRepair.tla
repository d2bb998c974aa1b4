------------------------------ MODULE ToolRepair ------------------------------
(***************************************************************************)
(* The pre-call hook of tool_repair.py.  Clients compact their history and *)
(* so lose, repeat or reorder tool calls and tool results; the hook        *)
(* rewrites the message list to the strictest upstream contract.           *)
(*                                                                         *)
(* A message is a user or assistant text, an assistant block of calls, or  *)
(* a tool result.  `no` is what the client meant: the serial of a call, or *)
(* of the call a result answers; the code never reads it.  Ids are         *)
(* numbers: i stands for "call_repair_i", NoId for a missing or empty id.  *)
(* Fresh ids are handed out in the order of the list, where the code goes  *)
(* id by id.                                                               *)
(***************************************************************************)
EXTENDS Integers, FiniteSets, Sequences, SequencesExt

CONSTANTS
    ClientIds,     \* ids the client may give its calls
    MaxBlock,      \* bound on the calls of one assistant block
    MaxMessages,   \* bound on the length of the client's list
    MaxTurns,      \* bound on the blocks and texts of a conversation
    MaxFaults,     \* bound on the messages dropped or moved by the client
    MaxRequests    \* bound on the requests repaired

NoId == 0
Fabricated == 0

ASSUME RepairAssumption ==
    /\ ClientIds \subseteq Nat
    /\ MaxBlock \in Nat \ {0}
    /\ {MaxMessages, MaxTurns, MaxFaults, MaxRequests} \subseteq Nat

VARIABLES
    messages,   \* the list the client sends
    calls,      \* the calls made so far: their ids, by serial
    turns, faults,
    forwarded,  \* data["messages"] as the hook passed it on, <<>> before that
    REPAIRS     \* the counters of the hook

clientVars == <<messages, calls, turns, faults>>
vars == <<clientVars, forwarded, REPAIRS>>

Call == [id: Nat, no: Nat]
Message == [role: {"user", "assistant", "tool"}, tool_calls: Seq(Call), id: Nat, no: Nat]

Text(role) == [role |-> role, tool_calls |-> <<>>, id |-> NoId, no |-> Fabricated]
Block(block) == [Text("assistant") EXCEPT !.tool_calls = block]
Result(id, no) == [Text("tool") EXCEPT !.id = id, !.no = no]
-----------------------------------------------------------------------------
(* repair_messages.  A slot is a call, by message and position, or a tool   *)
(* result, which comes after all the calls.                                 *)

CallSlots(list) ==
    {s \in (DOMAIN list) \X (1..MaxBlock) : s[2] \in DOMAIN list[s[1]].tool_calls}
ResultSlots(list) ==
    {<<Len(list) + i, 0>> : i \in {j \in DOMAIN list : list[j].role = "tool"}}
CallAt(list, s) == list[s[1]].tool_calls[s[2]]
ResultAt(list, s) == list[s[1] - Len(list)]
Orig(list, s) == IF s \in CallSlots(list) THEN CallAt(list, s).id ELSE ResultAt(list, s).id

Before(s, t) == s[1] < t[1] \/ (s[1] = t[1] /\ s[2] < t[2])

(* How many slots of the same sort and id come before this one.             *)
Rank(list, slots, s) ==
    Cardinality({t \in slots : Before(t, s) /\ Orig(list, t) = Orig(list, s)})

(* Calls and results pair one to one by id, by position when it repeats.    *)
MatchFirstOfId(list, calling, answering, call, result) ==
    /\ Orig(list, call) = Orig(list, result) /\ Orig(list, call) # NoId
    /\ Rank(list, answering, result) = 0
Match(list, calling, answering, call, result) ==
    /\ Orig(list, call) = Orig(list, result) /\ Orig(list, call) # NoId
    /\ Rank(list, calling, call) = Rank(list, answering, result)

Pairs(list) ==
    LET calling == CallSlots(list)
        answering == ResultSlots(list)
    IN  {pair \in calling \X answering : Match(list, calling, answering, pair[1], pair[2])}

Unanswered(list, pairs) == CallSlots(list) \ {pair[1] : pair \in pairs}
Orphans(list, pairs) == ResultSlots(list) \ {pair[2] : pair \in pairs}

(* The first call of an id keeps it, and so does the first orphan of an id  *)
(* no call claims; every other slot gets an id nothing in the list uses.    *)
RenamedCalls(list) ==
    LET calling == CallSlots(list)
    IN  {c \in calling : Orig(list, c) = NoId \/ Rank(list, calling, c) > 0}
NoneRenamed(list, orphans) == {}
RenamedOrphans(list, orphans) ==
    {r \in orphans :
        \/ Orig(list, r) = NoId \/ Rank(list, orphans, r) > 0
        \/ \E c \in CallSlots(list) : Orig(list, c) = Orig(list, r)}

Used(list) == {Orig(list, s) : s \in CallSlots(list) \cup ResultSlots(list)}

FreshIgnoringUsed(used, n) == n
Fresh(used, n) ==
    CHOOSE i \in 1..(n + Cardinality(used)) :
        i \notin used /\ Cardinality((1..i) \ used) = n

(* canon of every call and orphan.                                          *)
Names(list, pairs) ==
    LET orphans == Orphans(list, pairs)
        renamed == RenamedCalls(list) \cup RenamedOrphans(list, orphans)
        used == Used(list)
    IN  [s \in CallSlots(list) \cup orphans |->
            IF s \in renamed
            THEN Fresh(used, 1 + Cardinality({t \in renamed : Before(t, s)}))
            ELSE Orig(list, s)]

(* A block is emitted with its answers, in call order; an answer leaves its *)
(* place; an orphan keeps it, behind a stub declaration.                    *)
AnswerOfBlock(list, pairs, name, c) ==
    IF c \in Unanswered(list, pairs) THEN Result(name[c], Fabricated)
    ELSE [ResultAt(list, (CHOOSE pair \in pairs : pair[1][1] = c[1])[2]) EXCEPT !.id = name[c]]
AnswerTo(list, pairs, name, c) ==
    IF c \in Unanswered(list, pairs) THEN Result(name[c], Fabricated)
    ELSE [ResultAt(list, (CHOOSE pair \in pairs : pair[1] = c)[2]) EXCEPT !.id = name[c]]

BlockAt(list, pairs, name, i) ==
    LET n == Len(list[i].tool_calls)
    IN  <<Block([p \in 1..n |-> [list[i].tool_calls[p] EXCEPT !.id = name[<<i, p>>]]])>>
        \o [p \in 1..n |-> AnswerTo(list, pairs, name, <<i, p>>)]

StubAt(list, name, i) ==
    LET id == name[<<Len(list) + i, 0>>]
    IN  <<Block(<<[id |-> id, no |-> Fabricated]>>), [list[i] EXCEPT !.id = id]>>

Emitted(list, pairs, name, i) ==
    IF <<Len(list) + i, 0>> \in DOMAIN name THEN StubAt(list, name, i)
    ELSE IF list[i].role = "tool" THEN <<>>
    ELSE IF list[i].tool_calls # <<>> THEN BlockAt(list, pairs, name, i)
    ELSE <<list[i]>>

Repaired(list) ==
    LET pairs == Pairs(list)
        name == Names(list, pairs)
    IN  FlattenSeq([i \in DOMAIN list |-> Emitted(list, pairs, name, i)])

(* The counts of a repair: a renamed call takes its answer with it.  They   *)
(* are all zero when the list is returned untouched.                        *)
Counts(list, final) ==
    LET pairs == Pairs(list)
        unanswered == Unanswered(list, pairs)
        orphans == Orphans(list, pairs)
        moved == IF final # list THEN 1 ELSE 0
    IN  [declared |-> Cardinality(orphans),
         answered |-> Cardinality(unanswered),
         renamed |-> Cardinality(RenamedCalls(list))
                     + Cardinality(RenamedCalls(list) \ unanswered)
                     + Cardinality(RenamedOrphans(list, orphans)),
         moved |-> moved,
         requests |-> moved]

NoCounts == [declared |-> 0, answered |-> 0, renamed |-> 0, moved |-> 0, requests |-> 0]
-----------------------------------------------------------------------------
Init ==
    /\ messages = <<>> /\ calls = <<>> /\ turns = 0 /\ faults = 0
    /\ forwarded = <<>>
    /\ REPAIRS = NoCounts

(* The client, outside src/: its conversation grows, and its compaction     *)
(* drops, repeats or moves messages.                                        *)
Going == REPAIRS.requests < MaxRequests
Room == Going /\ Len(messages) < MaxMessages

Speak ==
    /\ Room /\ turns < MaxTurns
    /\ messages' = Append(messages, Text("user"))
    /\ turns' = turns + 1
    /\ forwarded' = <<>>
    /\ UNCHANGED <<calls, faults, REPAIRS>>

Declare(ids) ==
    /\ Room /\ turns < MaxTurns
    /\ messages' = Append(messages,
           Block([p \in DOMAIN ids |-> [id |-> ids[p], no |-> Len(calls) + p]]))
    /\ calls' = calls \o ids
    /\ turns' = turns + 1
    /\ forwarded' = <<>>
    /\ UNCHANGED <<faults, REPAIRS>>

(* A call is answered, once or, after a retry, once more.                   *)
Answer(n) ==
    /\ Room
    /\ \A i \in DOMAIN messages : messages[i].role = "tool" => messages[i].no # n
    /\ messages' = Append(messages, Result(calls[n], n))
    /\ forwarded' = <<>>
    /\ UNCHANGED <<calls, turns, faults, REPAIRS>>

Faulty(list) ==
    /\ Going /\ faults < MaxFaults
    /\ messages' = list
    /\ faults' = faults + 1
    /\ forwarded' = <<>>
    /\ UNCHANGED <<calls, turns, REPAIRS>>

Compact(i) == Faulty(RemoveAt(messages, i))
Reorder(i) ==
    /\ i + 1 \in DOMAIN messages
    /\ Faulty([messages EXCEPT ![i] = messages[i + 1], ![i + 1] = messages[i]])
Repeat(i) ==
    /\ Room
    /\ messages[i].role = "tool"
    /\ Faulty(InsertAt(messages, i, messages[i]))

(* async_pre_call_hook and record_repair.                                   *)
PreCall ==
    /\ Going
    /\ messages # <<>>
    /\ forwarded' = Repaired(messages)
    /\ LET counts == Counts(messages, forwarded')
       IN  REPAIRS' = [c \in DOMAIN REPAIRS |-> REPAIRS[c] + counts[c]]
    /\ UNCHANGED clientVars

Next ==
    \/ Speak
    \/ \E n \in 1..MaxBlock, ids \in [1..MaxBlock -> ClientIds \cup {NoId}] :
           Declare(SubSeq(ids, 1, n))
    \/ \E n \in DOMAIN calls : Answer(n)
    \/ \E i \in DOMAIN messages : Compact(i) \/ Reorder(i) \/ Repeat(i)
    \/ PreCall

Spec == Init /\ [][Next]_vars
-----------------------------------------------------------------------------
(* What the upstream validators demand (the probe matrix of tool_repair.py) *)
(* of every list the hook forwards: each block of calls is followed at once *)
(* by one result per call, in call order, every id is declared once, and no *)
(* result stands anywhere else.                                             *)
IdOfCall(list, i, p) == list[i].tool_calls[p].id

Strict(list) ==
    /\ \A i \in DOMAIN list : \A p \in DOMAIN list[i].tool_calls :
        /\ IdOfCall(list, i, p) # NoId
        /\ i + p \in DOMAIN list
        /\ list[i + p].role = "tool"
        /\ list[i + p].id = IdOfCall(list, i, p)
        /\ \A j \in DOMAIN list : \A q \in DOMAIN list[j].tool_calls :
               IdOfCall(list, j, q) = IdOfCall(list, i, p) => <<j, q>> = <<i, p>>
    /\ Cardinality({i \in DOMAIN list : list[i].role = "tool"})
           = Cardinality(CallSlots(list))

StrictContract == Strict(forwarded)

(* A list that meets the contract is forwarded untouched, so what the hook  *)
(* forwards is a fixed point of the repair (a client that keeps the         *)
(* repaired transcript is not repaired again).                              *)
RepairedOnce ==
    Repaired(forwarded) = forwarded

(* Nothing the client sent is lost, doubled or reordered: the texts and     *)
(* blocks keep their order, and the results are the client's own, each as   *)
(* often as it was sent; whatever else is there is marked as fabricated.    *)
RealAt(list) ==
    {i \in DOMAIN list :
        /\ list[i].role # "tool"
        /\ list[i].tool_calls # <<>> => list[i].tool_calls[1].no # Fabricated}
Spoken(list) ==
    {<<Cardinality({j \in RealAt(list) : j < i}), list[i].role,
       [p \in DOMAIN list[i].tool_calls |-> list[i].tool_calls[p].no]>> : i \in RealAt(list)}
ResultsFor(list, n) ==
    Cardinality({i \in DOMAIN list : list[i].role = "tool" /\ list[i].no = n})

NothingLost ==
    forwarded # <<>> =>
        /\ Spoken(forwarded) = Spoken(messages)
        /\ \A n \in DOMAIN calls : ResultsFor(forwarded, n) = ResultsFor(messages, n)

(* No call is given another call's result, and none that has its result in  *)
(* the client's list is given a placeholder, however the client dropped,    *)
(* moved or repeated messages, as long as it gave every call its own id.    *)
OwnIds ==
    \A n, m \in DOMAIN calls : calls[n] # NoId /\ (calls[n] = calls[m] => n = m)

AnswersAreTrue ==
    OwnIds =>
        \A i \in DOMAIN forwarded : \A p \in DOMAIN forwarded[i].tool_calls :
            LET n == forwarded[i].tool_calls[p].no
                m == forwarded[i + p].no
            IN  n # Fabricated =>
                    m = IF ResultsFor(messages, n) > 0 THEN n ELSE Fabricated
=============================================================================
