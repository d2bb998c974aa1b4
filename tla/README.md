# Verification of the cursor-auto LLM router

This directory holds TLA+ specifications of the router, the TLC configurations
that check them on small instances, and TLAPS proofs of what matters most for
every value of the constants. The program is a LiteLLM proxy with a routing
policy (`src/routing_policy.py`) that picks a model for each turn of a coding
agent, a control service that lets an operator steer it, and several hooks that
count spend, count failures and learn.

## 1. The system

| Part | State it keeps | Operations | What makes it correct |
|---|---|---|---|
| Selection core: `decide`, `_normalize`, `_blended_cost`, `_estimate_cost_hkd` | none | gates, bar, utility, argmax | a model that cannot serve a turn is not chosen; the order of candidates is total up to ties |
| Routing policy: `PolicyState`, `CursorAutoPolicy._run` | sessions (model, kind, turns, spend, ...), trust, last lease, swept leases, kind alarms, alarm epoch, usage baselines | one request, prune, lease sweep, demotion, feedback, winner chain | pins end when they should; failed models are avoided; spend guards bind; the store is bounded |
| Signature detection | none | `build_signature` and its regular expressions | (text classification) |
| Task tags, switch-back flags | the sessions of the policy and `_TAG_ONLY_SESSIONS`, pruned apart | one update per request of either route | a receipt carries the tag its user meant; a switch-back is flagged once |
| Control service: `control_service.py` | `control.json` under `_WRITE_LOCK` | set and clear lease, budget, weights, learning, alarms; reset of learned tables | no accepted write is lost or half applied |
| Control store: `control_store.py` | last stamp, last good snapshot, sidecar `.lastgood` | `_refresh_control`, `_refresh_learned` and typed reads | a reader never takes an old file for the present one; corruption never switches learning on |
| Usage accounting: `usage_hook.py`, `usage_state.py` | aggregate in RAM, `usage_state.json` | receipt, flush, `load_view` | one session's spend never accuses another |
| Failure hook: `failure_hook.py` | counters and newest failure per model in RAM | `record_failure`, `last_failure_ts` | inert while learning is off |
| Learner: `learning.py`, `extractor.py` | evidence tables in RAM, `learned.json`, reset intents, queue | poll verdicts, apply, flush, reset | evidence is applied once; a reset is not undone |
| Laya scorer: `laya_scorer.py` | queue, cache | submit, score | a score never delays a turn |
| Tool-call repair: `tool_repair.py` | counters | repair of a message list | every call has a result, every result a call |
| MCP server: `mcp_server.py` | none | tool calls to control service requests | each tool does what it says |
| Dashboard, deployment, probes | none | views, containers | not part of the logic |

**How they interact.** `_run` is synchronous, so requests never interleave with
one another. What does run beside a request: the control service (another
process) replaces `control.json`; LiteLLM calls the synchronous usage and
failure callbacks from threads; time passes. `_run` reads `control.json` several
times: once for the lease that drives the expiry sweep, and again later for the
lease, budget, weights and switches that drive the choice. Receipts reach the
policy through `usage_state.json`. The policy keeps everything else in RAM, so a
proxy restart loses sessions, trust, alarms, failures and the receipt writer's
aggregate, while the files stay.

**Hard behaviours.** The order of the winner chain (a pin is taken before the
spend guards are looked at); model exclusion before the capability gates; leases
that end or are replaced between two reads; an alarm clear that one session's
request takes in for all; a file replaced between a reader's `stat` and `open`;
torn files; restarts that lose half of a pair of related counters. PROJECT.json
lists each of them as a hazard at the line where it bites.

## 2. The modules

| Module | Models | Extends or composes |
|---|---|---|
| `Selection` | the pure core: gates, bar, utility, argmax, demotion pool, cost estimate | |
| `RoutingPolicy` | `PolicyState` and `_run`, with the clock, the operator, failures, receipts and restarts around it | `Selection` |
| `RoutingHistory` | history variables and the safety and liveness properties of decisions | `RoutingPolicy` |
| `AlarmHistory` | the calls whose receipts may come, what was billed and cleared, and the properties of the kind alarms | `RoutingPolicy` |
| `Induction` | induction over numbers and finite sets with a set in the place of the predicate; what follows for largest members, sums and powers of two | TLAPS and its library |
| `RoutingProofs`, `LeaseProofs`, `AlarmProofs` | inductive invariants and theorems of `RoutingHistory` and `AlarmHistory` | the history modules, `Induction` |
| `ControlContent` | what `control.json` says and what a write makes of it | |
| `ControlRegister` | the abstract specification: one atomic register | `ControlContent` |
| `ControlPlane` | lock, load, replace; stat, load, persist; tears, removal, crashes | `ControlContent`; INSTANCE of `ControlRegister` |
| `ControlHistory` | what reads return and what the operator asked for | `ControlPlane` |
| `ControlProofs` | inductive invariants, the refinement, what a torn file cannot do | `ControlHistory`, TLAPS |
| `Learning` | the `Learner`, the hooks that feed it, `learned.json`, the service that resets it, the tool that asks for a reset | |
| `LearningHistory` | what was really observed, and the properties of the tables | `Learning` |
| `LearningProofs` | inductive invariants and theorems of the tables | `LearningHistory`, `Induction` |
| `TaskTags` | the two maps of sticky tags and the switch-back flag | |
| `UsageState` | receipts: totals in RAM, the file, the policy's cache, the log | `TaskTags` |
| `Measurement` | tags and receipts composed: calls under way, late answers, restarts, and what the users meant | `UsageState` |
| `MeasurementProofs` | inductive invariant and theorems of tags, flags and totals | `Measurement`, `Induction` |
| `ToolRepair` | the pre-call hook over a client that builds and damages its message list | |
| `ToolRepairProofs` | what the hook forwards, for lists of any length | `ToolRepair`, `Induction` |
| `MCFleet`, `MCRouting`, `MCAlarms`, `MCControl`, `MCLearning`, `MCMeasurement`, `MCRepair` | constants of the instances TLC checks | |

### The policy

One request is two steps. `Begin` prunes, reads the lease, sweeps the sessions
of an ended lease and reads the receipts view. `Serve` starts at the second
lease read and runs to the logged decision. Any step of the surroundings may
come between. `Serve` is a disjunction with one action per outcome of the winner
chain: `ServeLease`, `ServeDirective`, `ServeGrace`, `ServeLoyal`, `ServeSwap`,
`ServeUnscored`, `ServeDemoted`, `ServeFresh`; each ends in `Commit`, which does all writes
of `PolicyState` that `_run` makes: trust feedback, session record, alarm charge,
epoch and baseline. `SkipPath` is a request that bypasses the policy and still prunes.
The surroundings are `Tick`, the operator's seven writes, `UpstreamFailure`,
`Receipt` and `Restart`.

Abstractions, and why they are harmless:

- A request is a record of the fields `build_signature` returns; texts are not
  modelled. A `[[use:x]]` directive is the profile `x` resolves to.
- Numbers are integers in fixed units (header of `Selection`). Three divisions
  round down, where the code keeps floats; a tie in this arithmetic may be broken
  either way when prices tie too, as the order of the fleet decides in the code.
- The clock counts coarse ticks, so several steps share a time and the order
  in which prune evicts records of one tick is free. A lease is told from
  another by a serial number, where the code compares the float deadline.
- The reads of `control.json` after the second lease read are one snapshot. The
  code reads the file again for budget, weights and switches, so a write that lands
  there can be split over one decision; that interleaving is not modelled.
- `POLICY_LEARN=0` in the environment switches learning off for good; the model
  is of a proxy that runs without it.
- A receipt is of any call the running proxy made, also long after the policy dropped the
  session's record. It names the model that was billed: the chosen one, or a member of
  `FailoverModels` when the proxy failed over. `AlarmHistory` keeps the calls (`sent`);
  `RoutingPolicy` by itself admits any receipt, and the other runs have none. The totals here are per model
  and kind and never age; ageing, the cap and the file are in `UsageState`.
- A request without a session key is not a member of `Sessions`.
- The tuning constants are parameters: the runs scale them down, the
  theorems hold for all values.

### The control plane

A handler's `Acquire` takes `_WRITE_LOCK` and loads the file, `Save` changes,
counts the revision, replaces and releases. Between the two the service may
crash (`ServiceRestart`) and someone may edit, tear or remove the file. A reader
goes through `StatMissing`, `StatUnchanged` or `StatMoved`, then `LoadGood` or
`LoadBad`, then `Persist`, and the file may change between any two. A transient
reader (`failure_hook._learn_on`) makes a new store for each read.

Abstractions: every change of the file moves its (mtime, size) stamp; a write
sets one setting at a time; a well-formed file carries a boolean learning flag;
rejected requests (400) do not reach the file and are not modelled; a write
counts as accepted when the replace is done; the sidecar is read in the step
that finds the file torn. The value of the
register is the file (unreadable counts as the defaults), or, while a handler
holds the lock, what that handler loaded. A hand edit made during a write is
therefore lost with the replace, or becomes visible when the service dies before
it; the register allows tampering only to a value of `Edits` or to the defaults,
so no service action can hide behind it.

### Learning

A fleet request is one step, `Turn`: verdict on the previous turn of its session
(re-ask, escalation, clean), evidence, record, enqueue, poll of the switch
and the intent, flush. A direct request, `DirectTurn`, is judged against the session
the policy served last. One step is right because the proxy's event loop runs the handler
whole. `FlushPoll` is the minute timer, `ExtractPoll` drains a batch of the queue, which
is either dropped or stored; `Forget` is the policy's pruning of a session; `Crash` takes
the RAM and leaves the two files. `SetLearning` and `ResetLearned` are the service, reached by
`RouterLearning`, the MCP tool with both arguments. The service is a process of its own and its
reset of `learned.json` is a read and a later replace (`ResetLearned`,
`ResetDone`), so a flush may land between the two. `Intent` puts a reset intent into
`control.json`, by hand: no code writes one.

Abstractions: time is counted in half-lives, so `Tick` ages every row by one and makes
whatever is queued stale; values are in hundredths; the three tables are one function of
their keys, with `NoRow` for a missing row. What `is_reask` and `topical_overlap`
make of two texts is the relations `Reasks` and `Continues`, and `Mentions` says which
ask contains which phrase. Several proxy processes on one file, the collision of their temporary
names, phrase labels (read by nothing) and malformed files are left out.

### Measurement

`Decide` is a fleet turn with an ask, `PassOn` a fleet turn in which no ask is found, `Bypass` a
turn of an escape-hatch model; each attaches its signals to a call. `Deliver` is
the receipt of one call, in any order; a call without one is an answer that
failed. `RecordReceipt` appends to the log (or rotates it first, or fails to and loses the
receipt), charges the totals, prunes them and writes the file (or fails to); a fleet turn reads the
file through the stamp cache. The log is a sequence, of which the dashboard's `usage_summary` reads the newest
`SUMMARY_LIMIT` receipts (`TailUsage`, `TaskRedo`). `EndLease` sweeps any set of sessions, `Restart` takes
the maps, totals, cache and calls under way, and leaves the file and the log.

What a user means does not follow the code: a tag holds until another mark. Only when a chat
goes on without a mark and the record of its last turn is gone can nobody know it; its tag is then `Unsure`
until the next mark, and the properties allow such a call either way.

Abstractions: each request has a time of its own, so the order of two records of one
chat is their order in time; money is in whole units; every write of the file moves its
stamp; a chat belongs to one client; a line torn in the log is a lost receipt. Token arithmetic, latency, and several
processes writing one file are left out.

### Tool-call repair

The client's list is a sequence of texts, blocks of calls and results. It grows by
`Speak`, `Declare` and `Answer`, and is damaged by `Compact`, `Reorder` and `Repeat`;
`PreCall` forwards `Repaired(messages)` and counts. `Repaired` is declarative
where the code is a chain of passes: pairs of slots (`Pairs`, the k-th call of an id
with its k-th result), names (`Names`), and what is emitted in the
place of each message (`Emitted`). Ids are numbers, `i` being `call_repair_i`, so that a
client may echo an id the hook made. `no`, the call a client means, is never read
by the repair; it is what the properties compare. The kill switch and the fail-open
path forward the list untouched and are left out.

## 3. The runs

Every instance uses rows of `PROFILES` and `BASE_BAR` (module `MCFleet`): a text-only
flash model, a vision flash model and a premium vision model, and in
`RoutingPins` a second premium model, so that an image, a long prompt, a bar and a price each
tell two models apart. Turns re-send a 130k-token thread, which makes a premium
turn cost about 780 milli-HKD and puts caps and alarms in reach of two turns. Scaled constants:
session age 1 tick, failure window 1 tick, alarm age 1 tick, grace 1 turn,
premium ceiling 2 turns, execution demotion after 2 turns.

| Run | Bounds | Properties | Shows |
|---|---|---|---|
| `RoutingPins` | 1 session, 4 models, 6 requests, cost weight to zero and back | `TypeOK`, `PremiumRunBounded`, `SwapSpacing` | pins, loyalty, swaps, premium ceiling, demotion over a long session; 6 turns pass grace and the ceiling and leave room for two swaps |
| `RoutingFailures` | 1 session, 3 requests, 2 ticks | `GatesHold`, `CascadeRespected`, `CapForcesCheapest` | the gates after failed models were removed, failures, learning on and off, budget set and cleared, runaway volume, the estimate alarm; 2 ticks let failures, alarms and sessions age out |
| `RoutingLeases` | 1 session, 4 requests, 2 ticks, 2 leases | `GatesHold`, `SweptLeaseHoldsNoSession` | the gates on a leased model; leases set, replaced, cleared and expired between the two lease reads and between requests |
| `RoutingLiveness` | 1 session, 2 requests, all models fail | `EveryRequestDecided` | some branch of the winner chain always has a model to give, also over restarts |
| `AlarmReceipts` | 3 sessions over a cap of 1, 3 requests, 1 clear, restarts, failover receipts | `SessionsBounded`, `AlarmNeedsNewSpend`, `AlarmIsPerSession` | when receipts may accuse a model, and the size of the session store |
| `ControlFile` | 2 handlers, a lasting and a transient reader, 2 changes of the file | `TypeOK`, `StampIsHonest`, `ImplementsRegister`, `CorruptionNeverEnables` | lost updates, stale caches, torn files, crashes on both sides |
| `Learning` | 1 session, 2 models, 1 kind, 1 phrase, 3 requests, 2 disturbances | `TypeOK`, `InfluenceIsEarned`, `ContributionsBounded`, `EvidenceIsKept`, `IntentEventuallyApplied` | what the tables may hold after crashes, failed writes, half-lives and resets in any order; a reset intent is applied |
| `Measurement` | 2 chats, 1 tag, 4 requests with 1 answer or 3 with 3, 1 disturbance, stores of one, a window of 2 receipts | `TypeOK`, `TaskSpendIsTagged`, `RedoIsReal`, `SpendIsNeverInvented`, `SwitchBackIsExact` | tags, totals, flags and the dashboard's redone tasks when receipts are late, reordered or lost and either map loses a record |
| `ToolRepair` | 4 messages, 2 turns of up to 2 calls, 2 faults, 1 request, ids `{1, 101}` and the missing one | `StrictContract`, `RepairedOnce`, `NothingLost`, `AnswersAreTrue` | what the upstreams are sent, whatever compaction did |

With two changes of the file, one can land between a reader's `stat` and its load and
another between the load and the record, or each handler can write once; the proofs
of `StampIsHonest` and `ImplementsRegister` have no such bound. One session suffices
where a property speaks of a single session, because a decision reads and writes only its
own session's record; `trust`, which sessions share, enters only the order of candidates. `AlarmReceipts` runs
under the symmetry of its sessions, which nothing but their records tells apart, and without the clock to stay small; ageing of alarms is in `RoutingFailures`.

In `Learning` the gates are 2 (1 for phrases) and the contribution and table caps are 1, so three requests pass a
gate, exceed a cap and crowd a table; two disturbances let a reset
meet a crash or a failed write, or a crash meet a half-life. One session suffices because
sessions share only the tables and `last_session`, and what a second could do to the tables, the
turns of one after `Forget` do; the theorems of `LearningProofs` have no such bound. In `Measurement` the caps of one make every second chat evict the first; `MaxExchanges` counts
answers and twice the requests, and its 9 are three requests with an answer each, or four with one: a pair of receipts comes in
either order, from one chat or two, and a third pushes one of a pair out of the dashboard's window of two; four requests leave
room for an escape-hatch turn, the way back, and a turn without an ask before the next fleet turn, which
must not be flagged again. One disturbance is one of: a sweep, a restart, a mishap of the log, a failed write; a
receipt that meets two (a full disk) is beyond the run. The theorems of `MeasurementProofs` have no such bound. The symmetry
swaps the chats with their clients; no definition tells them apart. In `ToolRepair` four
messages hold two blocks with their results, and two faults drop one and move or repeat
another; id 1 is one the hook may hand out itself, and a block may use an id twice.

Deadlock is not checked: the number of requests or changes is bounded, and the
router may idle.

**Fairness.** `RoutingLiveness` assumes weak fairness of `HServe`: a begun
`_run` is a synchronous function without a lock or a wait, so it continues
unless the process dies, and a restart discards the request. `Learning` assumes weak fairness of
`HFlushPoll` for `IntentEventuallyApplied`: `_flush_poll` sleeps a minute and
polls, in a loop that catches every exception, as long as the process runs. No other
run assumes any.

**Runs that refute a sentence of the repository.** Each checks one claim that the code
does not meet; PROJECT.json quotes the line.

| Run | Claim | What the code does |
|---|---|---|
| `ControlClaim` | a torn file never re-enables learning | the service reads it as defaults, and its next write saves them |
| `ResetStartsOver` | a reset deletes `learned.json` so learning starts over | the learner holds the tables in RAM and its next flush writes them back |
| `LearnedBarRises` | learning raises the bar of kinds found under-served | escalations add a negative weight to the kind's offset, so its bar sinks |

Divergences met without a run, code against text:

- README.md:22-23 says an image turn never reaches a text-only model. Failed models are
  removed before the gates (routing_policy.py:1970), and when every vision model has failed
  the gates are relaxed to a text-only one (1375-1382). `GatesHold` says what does hold.
- A replaced lease is never swept: the sweep needs a moment without any lease
  (routing_policy.py:1502-1504 against 1514), and its sessions keep the model by stickiness.
- Under a kind alarm same-kind turns go to the cheapest capable model, says mcp_server.py:210-213;
  the pin branches (routing_policy.py:1860, 1875, 1885) come before the alarm's (1915).
- A clear takes the baseline of the receipts only for the session whose request sees it
  first (routing_policy.py:1766 against 1772); and a cleared estimate is stamped with the new
  epoch by the next charge (1764-1765 against 2032).
- A switch-back is flagged "exactly once", says routing_policy.py:2222, but the time of the last flag is
  in the fleet's record: when eviction, age or the lease sweep drops that record, the next fleet turn is flagged again
  (2243). `SwitchBackIsExact` excuses it.
- Both routes "must see one tag" (2202-2204), the newer record's. When the newer record is dropped, the older one of the
  other map is read (2208), and a tag that was replaced or cleared comes back. `TaskSpendIsTagged` excuses such calls.
- A direct request is judged against the session served last, also when it comes from another
  chat, where routing_policy.py:2259-2260 calls new chats "invisible by construction" (2283).
- Persisted trust still moves decisions while learning is switched off in `control.json`
  (routing_policy.py:1236 against 1243).
- A call of `router_learning` with both arguments sends both (mcp_server.py:263), and the service
  acts on the switch only.
- Asks are "max 10 minutes old, then drop" (learning.py:29-30), but age is looked at only
  when another is queued.
- `extract_and_store` calls `asyncio.run` inside the running loop (learning.py:729), so every
  batch is dropped.
- docker-compose.yml:77 mounts the logs read-only for the service, which makes its resets of
  `learned.json` fail in that deployment.
- `[[cheap]]` lowers the bar but does not pick the cheapest model (README table of
  directives); the lease sweep drops the session's spend, so a reached cap starts
  over; a `control.json` that is removed keeps the last snapshot in RAM, where
  `control_store.py` says it reads as defaults.

`CorruptionNeverEnables` is about a lasting store while the proxy runs. Across a restart
the store trusts the sidecar, which may be older than what was read last: its
write may have failed, or another store's older read may have been written after it.

## 4. The proofs

Every invariant and action property of the passing runs is also a theorem, for all
values of the constants. The assumptions on the constants are the named `ASSUME`s of the
specification modules: above all that the sets of models, kinds, phrases, sessions and clients are
finite, that some fleet and some learned table exist, that sentinels are not
values, and that caps, windows and prices are natural numbers. The bounds of the runs are
natural numbers of any size.

**`Induction`.** The library's induction theorems take a predicate as a parameter, which the
provers cannot instantiate. This module proves, from well-foundedness, the same
principles for a set of numbers (`NumberInduction`) and a set of subsets (`SubsetInduction`), and with
them what the specifications' data need: a finite nonempty set has a largest
member under a function (`LargestExists`), the recursive functions behind sums and powers of
two exist, and a sum changes by what its terms change.

**`RoutingProofs`.**

1. `RoutingInv` is inductive: `TypeOK`, a request is one of the environment's,
   and a session with a model has a kind (without it, the feedback and the alarm charge
   could index trust by a null kind). `TypeCorrect` follows: trust stays in its band
   whatever the order of penalties and rewards.
2. `HistoryInv` adds, per session: while its record lives, the length of its pinned run is
   less than its turn count, a premium run is at most the ceiling, the turns
   since a swap are the turn count, and the sum of its estimates is the record's spend;
   when it is dropped, it is the empty record. These bridge what the code
   stores and what the properties say: `turns` counts since a swap or a new record, while
   `PremiumRunBounded` and `SwapSpacing` count held turns, and `CapForcesCheapest`
   counts money.
3. `ServeCommits` reduces the eight winner branches to one commit of a fleet model;
   each decision property is then proved branch by branch.
4. `ServeIsAChoice` splits a served request into what the winner chain picks (`Choice`) and
   its commit. `ChoiceAlwaysExists` shows that the chain never runs out of
   candidates: the gates relax to a nonempty pool, `_normalize` never divides by zero (a range
   of zero is answered before the division), and the argmax and the cheapest
   member of a nonempty finite pool exist. This is all of `EveryRequestDecided` but fairness.

Theorems: `TypeCorrect`, `HistoryCorrect`, `GatesAlwaysHold`, `CascadeAlwaysRespected`,
`PremiumRunAlwaysBounded`, `SwapsAreSpaced`, `CapAlwaysForcesCheapest`, `ChoiceAlwaysExists`.

**`LeaseProofs`** builds on the invariants of `RoutingProofs`. `SizeInv`: pruning at `Begin`
leaves at most `SESSION_CAP` records and `Serve` adds at most one. `LeaseInv`: serials only
grow, a lease that was swept is the present one only if it has run out, and a
live session put on a model by a lease is still on that model; so a sweep by model finds
it. Theorems: `SessionsAlwaysBounded`, `SweptLeaseNeverHolds`.

**`AlarmProofs`**: `BillInv` bounds the totals, and the view a request took of them, by what
was billed, also over restarts that empty the totals; `WitnessInv` says that for the session
that took in the last clear, totals grow past the baseline by no more than was billed
since. Theorems: `AlarmAlwaysPerSession`, `AlarmAlwaysNeedsNewSpend`.

**`ControlProofs`**: `ControlInv` is inductive. Besides types it says that exactly the lock
holder has a pending change; that what it loaded is what the file says, or someone
tampered with the file since; and that no reader knows a stamp of the future, and a
snapshot about to be recorded under the present stamp is the present file.
The last part is why recording the stamp of the `stat`, and not that of the load, is
safe: a replace between the two only makes the reader look again. `ReadInv` adds that between
reads a lasting store holds what its last read returned, and from load to record
something the file said during that read.
Theorems: `ControlCorrect`, `ControlTypeCorrect`, `StampAlwaysHonest`,
`ServiceImplementsRegister` (the refinement, with the mapping `RegisterValue`) and `TornFileNeverEnables`.

**`LearningProofs`** has two invariants. `LearningInv` says that the tables in RAM, in the file, in
the store's snapshot and in the service's hands are tables; that none of them counts more than was
observed (all four, because any may become the file, and the file becomes RAM); and
that what a session contributed is what its budget counters say, which outlive the session's
record. `InfluenceAlwaysEarned` needs one more fact, that the gate of a row is its base times a
power of two (`Twofold`) and so never below the base.
`KeptInv` adds the types of the rest (`OthersOK`) and what links an applied intent to
the file (`AppliedInv`): an id is known as applied only if it is the last applied of its tables, or
`control.json` has moved on. `consumed` are the ids the living learner knows,
`settled` the ones a restart would find in the file; before the learner is built the two agree. That
last clause is the one found by proving: a reset begun by the service
before the process has served its first request still decides what the learner will load.
Theorems: `LearningCorrect`, `KeptCorrect`, `LearningTypeCorrect`, `EvidenceAlwaysEarned`,
`InfluenceAlwaysEarned`, `ContributionsAlwaysBounded`, `EvidenceAlwaysKept`.

**`MeasurementProofs`**: `MeasurementInv` is `TypeOK` with `TraceInv` (a record written at the time of
the chat's last turn carries the tag its user means, if anybody can know it, and no record is newer), `AwayInv` (the order of the two
records tells the route of the last turn, unless one was lost), `CallInv` (a call and a receipt have the tag
meant when the call was made, if anybody can know it), `NumberInv` (calls are numbered apart, and an answered one is no longer under
way, so a receipt adds a new term to the sums), `SpendIsBilled`, `PartsInv` (a total, in RAM, file or
cache, is the sum of its clients' parts) and `TaskSpendInv` (the total of a
task and a client is the sum of the receipts that carry them). `RedoOfNewest` says what `TaskRedo` finds, as
positions of the log's newest receipts, where it can be compared with what was meant. The sums over clients and receipts
are handled by the lemmas of `Induction`: a receipt changes one term, pruning sets all to zero.
Theorems: `MeasurementCorrect`, `MeasurementTypeCorrect`, `RedoAlwaysReal`, `SwitchBackAlwaysExact`,
`SpendNeverInvented`, `TaskSpendAlwaysTagged`.

**`ToolRepairProofs`** is about lists of any length. Its state invariant, `RepairInv`, is short: the client's
list is `Sound` (a call or result carries the id its call was made with, no call is declared
twice), and what was forwarded is `Repaired(messages)`. The work is in the operator:

1. The concatenation of emissions has a layout (`IsLayout`): where each part starts, and that the
   parts cover the result without overlap. It is unique, so a guessed layout that fits is the one.
2. Each emission is a block with its answers, a stub call with its orphaned
   result, a text, or nothing; and the names of calls differ (ranks of an id differ, and fresh
   names are fresh). From these follows the strict contract.
3. Pairing by rank matches a result with the call it answers when every call has an id of its own.
4. Every result the client sent lands on exactly one place (`Lands`), a bijection from which
   `NothingLost` follows by counting; texts and blocks keep their order by the count of those before them.
5. On a strict list each result is paired with the call it follows, nothing is renamed, and each
   block's emission starts where the block stood (`StartsRight`), so the list is a fixed point.

Theorems: `ForwardsStrictLists`, `AnswersAlwaysTrue`, `NothingEverLost`, `RepairIsIdempotent`.

**Only model-checked:** `EveryRequestDecided` and `IntentEventuallyApplied`. Both are liveness
under fairness, which the prover does not handle (it has no rule for `ENABLED`). The three runs that
refute a sentence of the repository are counterexamples and need no proof.

## 5. Not modelled, and the plan

- Signature detection, dashboard, deployment and HTTP routing: text, views and I/O without
  state that a property would be about.
- `LayaScorer`: its score reaches a decision only through the utility, where `Selection` has
  it; the thread with its queue and unbounded cache is left out, and so is the
  transport of the MCP server.
- The HTTP call of the extractor and the validation of its answer: a batch is stored or dropped.
- Several processes writing `usage_state.json` or `learned.json` at once: the
  deployment runs one proxy.

What would come next: a composition of `ControlPlane` with `RoutingPolicy`, so that the
policy's later reads of `control.json` are separate reads through the store, with a theorem
that carries the decision properties over to it; and the Laya scorer's queue and cache.
