------------------------------ MODULE UsageState ------------------------------
(***************************************************************************)
(* Receipts: usage_state.py, as the hook of usage_hook.py calls it.  A     *)
(* receipt goes to the log and to the totals of its session, under one     *)
(* lock; the totals are kept in RAM, pruned, and written over the file     *)
(* usage_state.json, which the policy reads through a cache keyed by the   *)
(* file's stamp and the dashboard's summary does not read at all: it reads *)
(* the log.  Money is counted in whole units; every write of the file      *)
(* moves its stamp.                                                        *)
(***************************************************************************)
EXTENDS TaskTags, FiniteSetsExt, Sequences

CONSTANTS
    Price,                     \* what a call of the model is billed, 0 when unpriced
    USAGE_STATE_TTL, USAGE_STATE_MAX_SESSIONS,
    SUMMARY_LIMIT              \* how many receipts usage_summary looks at

ASSUME UsageAssumption ==
    /\ Price \in [Models -> Nat]
    /\ IsFiniteSet(Clients)
    /\ {USAGE_STATE_TTL, SUMMARY_LIMIT} \subseteq Nat
    /\ USAGE_STATE_MAX_SESSIONS \in Nat \ {0}

Entry == [ts : Nat, real : Nat, clients : [Clients -> Nat], tasks : [Tags \X Clients -> Nat]]
NoEntry == [ts |-> 0, real |-> 0, clients |-> [c \in Clients |-> 0],
            tasks |-> [tc \in Tags \X Clients |-> 0]]
Totals == [Sessions -> Entry]
NoTotals == [s \in Sessions |-> NoEntry]

VARIABLES
    agg,          \* _AGG; the ts of an entry is 0 when there is none
    file,         \* what usage_state.json says
    stamp,        \* its (mtime_ns, size), 0 while it does not exist
    cache,        \* _READ_CACHE
    read_stamp,   \* _READ_STAMP
    log           \* routing_usage.jsonl, the receipts in the order of their lines

usageVars == <<agg, file, stamp, cache, read_stamp, log>>

UsageTypeOK ==
    /\ agg \in Totals
    /\ file \in Totals
    /\ stamp \in Nat
    /\ cache \in Totals
    /\ read_stamp \in Nat
    /\ log \in Seq(Call)

UsageInit ==
    /\ agg = NoTotals
    /\ file = NoTotals
    /\ stamp = 0
    /\ cache = NoTotals
    /\ read_stamp = 0
    /\ log = <<>>
-----------------------------------------------------------------------------
(* Writer.                                                                  *)

Billed(totals) == {s \in Sessions : totals[s].ts # 0}

(* _prune_locked: entries that are too old, then the oldest above the cap.  *)
Young(totals) == {s \in Billed(totals) : now - totals[s].ts <= USAGE_STATE_TTL}
PrunedTotals(totals) ==
    [s \in Sessions |->
        IF /\ s \in Young(totals)
           /\ Cardinality({o \in Young(totals) : totals[o].ts > totals[s].ts})
                  < USAGE_STATE_MAX_SESSIONS
        THEN totals[s] ELSE NoEntry]

(* extract_receipt_parts: task, session and client were attached to the     *)
(* call when it was made.                                                   *)
TaskNow(call) == Sticky(fleet, call.session)
TaskAtCall(call) == call.task
Receipt(call) == [call EXCEPT !.task = TaskAtCall(call)]

Charged(entry, call) ==
    LET real == Price[call.model]
        task == TaskAtCall(call)
    IN  [ts |-> now,
         real |-> entry.real + real,
         clients |-> [entry.clients EXCEPT ![call.client] = @ + real],
         tasks |-> IF task = NoTag THEN entry.tasks
                   ELSE [entry.tasks EXCEPT ![<<task, call.client>>] = @ + real]]

(* _flush_locked replaces the file; a failure is swallowed.                 *)
AddedToFile(totals) ==
    [s \in Sessions |-> [totals[s] EXCEPT !.real = @ + file[s].real]]
FlushOver(totals) == totals
FlushTotals ==
    /\ file' = FlushOver(agg')
    /\ stamp' = stamp + 1
FailToFlush == UNCHANGED <<file, stamp>>

(* _append_receipt_locked puts a log that has grown too long aside first;   *)
(* a failure is swallowed and the receipt is in no file.                    *)
AppendReceipt(receipt) == log' = Append(log, receipt)
RotateLog(receipt) == log # <<>> /\ log' \in {<<receipt>>, <<>>}
LoseReceipt == UNCHANGED log

RecordReceipt(call) ==
    /\ agg' = PrunedTotals([agg EXCEPT ![call.session] = Charged(@, call)])
    /\ \E mislogged, unwritten \in {0, 1} :
           /\ \/ mislogged = 0 /\ AppendReceipt(Receipt(call))
              \/ mislogged = 1 /\ (RotateLog(Receipt(call)) \/ LoseReceipt)
           /\ IF unwritten = 0 THEN FlushTotals ELSE FailToFlush
           /\ Disturbances(mislogged + unwritten)
    /\ UNCHANGED <<cache, read_stamp>>
-----------------------------------------------------------------------------
(* Readers.                                                                 *)

(* load_view: a new stamp, a new reading.                                   *)
LoadView ==
    /\ cache' = IF stamp # 0 /\ stamp # read_stamp THEN file ELSE cache
    /\ read_stamp' = IF stamp # 0 THEN stamp ELSE read_stamp

UsageRestart ==
    /\ agg' = NoTotals
    /\ cache' = NoTotals
    /\ read_stamp' = 0
    /\ UNCHANGED <<file, stamp, log>>

(* tail_usage: the newest receipts.                                         *)
TailUsage(limit) ==
    IF Len(log) <= limit THEN log ELSE SubSeq(log, Len(log) - limit + 1, Len(log))

(* usage_summary of the control service, over those: a task that two        *)
(* clients worked on.                                                       *)
TaskRedo ==
    LET records == TailUsage(SUMMARY_LIMIT)
        clients(task) ==
            {records[i].client : i \in {j \in DOMAIN records : records[j].task = task}}
    IN  {task \in Tags : Cardinality(clients(task)) >= 2}
=============================================================================
