# Verification of solana-streamer

TLA+ modules, TLC configurations and TLAPS proofs for the Rust library in
`src/src/` (paths below are relative to `src/src/streaming/` unless they begin
with `src/`). The library subscribes to a Yellowstone gRPC endpoint or to a
ShredStream proxy, parses the transactions, account updates and block metadata
it receives into typed events, and hands the events to a user's callback.

- [1. The system](#1-the-system)
- [2. Modules and the code they model](#2-modules-and-the-code-they-model)
- [3. Runs](#3-runs)
- [4. Fairness](#4-fairness)
- [5. Proofs](#5-proofs)
- [6. Findings](#6-findings)
- [7. Assumptions, and what is not modelled](#7-assumptions-and-what-is-not-modelled)
- [8. Plan](#8-plan)

## 1. The system

A client owns the shared state of its subscription and one `EventProcessor`. A
subscription adds a tokio task that reads the stream, a clone of the processor
with the user's callback, two operating-system threads that drain the
processor's queues, and a task that prints metrics.

| Component | State | Operations | Interacts with |
|---|---|---|---|
| `YellowstoneGrpc` (`yellowstone_grpc.rs`) | `active_subscription` (atomic flag), `subscription_handle`, `control_tx` (mutexes), `current_request` (read-write lock) | `subscribe_events_immediate`, `update_subscription`, `stop` | spawns the stream task, which it can only abort; sends it updates on a channel of 100; clones the processor |
| `SubscriptionHandle` (`common/subscription.rs`) | join handles of the stream and metrics tasks | `stop` (abort), `join` | taken out of the client by `stop` |
| `EventProcessor` (`common/event_processor.rs`) | two lock-free queues, two pending counters, a shutdown flag, all shared by its clones; a callback per clone | `process_*_with_metrics`, processing threads, spawned tasks, `stop_processing` | called by stream tasks, calls the parsers and the callback |
| `ShredStreamGrpc` (`shred_stream.rs`, `shred/`) | `subscription_handle` | `shredstream_subscribe` (stops the previous subscription first), `stop` | a new processor for every subscription |
| `MetricsManager` (`common/metrics.rs`) | a window, counters and a rate for each event type; minimum, maximum and their time stamps; total and drop counters | `record_*`, the 500 ms background task, `get_metrics` | written by every processing thread, task and callback |
| `GlobalState` (`event_parser/core/global_state.rs`) | a concurrent map of developer addresses by slot, a counter of its keys, a generation | `add_*` (with `maybe_cleanup`), `is_*`, `get_*`, `clear_all_data` | written and read by `process_event` on every parsing thread, process-wide |
| Parsing core (`event_parser/core/traits.rs`, `macros.rs`, `factory.rs`, `protocols/mutil`) | tables of parsers by discriminator; a cache of account keys | instruction and inner-instruction dispatch, `process_event` | protocol parsers, swap data, `GlobalState` |
| Protocol parsers (`event_parser/protocols/*`) | none | decode one instruction, inner instruction or account each | called through the tables |
| Swap data and filters (`event_parser/common/`) | none | infer the amounts of a swap from the transfers that follow; event filters | parsing core, request building |
| Requests, connection, configuration (`grpc/`, `common/config.rs`) | none after construction | build the filters of a subscription | the client |
| `subscribe_system` (`yellowstone_sub_system.rs`) | one detached task | decode system transfers | the connection only |

What is hard about it, and where it bites (`PROJECT.json` lists each hazard at
its line):

- **Interleaving of lock-free steps.** A message is pushed before it is counted
  and counted off after it is popped (`event_processor.rs:136`, `:373`);
  admission reads the counter in one step and changes it in another; several
  subscriptions share the queue.
- **Check, then a long way to act.** `subscribe` claims a flag at its beginning
  and saves its handle at its end, with a connection in between, while `stop`
  and `update_subscription` do their work one lock at a time.
- **Partial failure.** A panic in a parser or a callback ends a processing
  thread or leaks a permit; a failed connection leaves the flag set.
- **Asynchronous cancellation.** `abort` takes effect at the next await.
- **One transaction, many instructions.** Keys appended for one instruction stay
  for the next (`traits.rs:259`), a panic in one loses the events of those after
  it, and the log of an instruction is searched for in a whole group (`:898`).
- **Two places that must agree.** A filter of event kinds decides both what the
  server is asked for and which parsers there are; a parser's guard and its
  reads are written separately, for 36 parsers.
- **Several atomics that belong together.** An extreme value and its time stamp,
  a window's count and its start, a slot and its count are read and written one
  after the other, while other threads do the same.
- **Data told apart by place.** The transfers of a trade are those that follow it
  and run between its accounts; nothing names the instruction that made them.
- **Bounds.** Permits, the batch of slots that a cleanup removes, counters that
  wrap below zero, times compared by the bits of a float.

What makes each component correct: the processor neither loses nor duplicates a
message, keeps the backlog bounded and a stream's order under Block, drops only
under load, and always gets on; the client runs one stream at a time, can always
stop it, and knows what the server applies; the developer table stays bounded,
counts its keys, and never forgets the newest slot; parsing gives an event for
each instruction a parser accepts, with the keys, log, amounts and marks that belong
to it; a subscription's callback gets exactly the kinds it asked for; the metrics
count each event in one window and forget no extreme value before its time.

## 2. Modules and the code they model

| Module | What it is |
|---|---|
| `BoundedDelivery` | Abstract specification: what a processor promises for every message (admitted, refused or forgotten once; delivered at most once; a bounded number in the system; refused only under load). |
| `EventProcessor` | The processor with its stream tasks, threads and spawned tasks. Implements `BoundedDelivery`. |
| `MCEventProcessor` | Instances for TLC. |
| `EventProcessorProofs` | Its theorems: the counter, the bound and the order; where each message is, and the refinement. |
| `YellowstoneClient` | The client's calls and the stream task's control side. |
| `MCYellowstoneClient`, `YellowstoneClientProofs` | Instances and theorems. |
| `GlobalState` | The developer table. |
| `MCGlobalState`, `GlobalStateProofs` | Instances and theorems. |
| `ShredClient`, `MCShredClient`, `ShredClientProofs` | The calls of the shred client and what each subscription leaves running. |
| `MetricsBase` | The threads and the clock of the next two. |
| `EventWindows`, `EventWindowsProofs` | Counters and rates by windows: recording threads, the background task, a reader. |
| `ProcessingTimes`, `ProcessingTimesProofs` | Minimum, maximum and average of the processing times. |
| `MCMetrics` | Instances of both, one after the other. |
| `ProtocolParsers` | Tables: for each instruction parser, log and account parser its discriminator, guards and reads; when a log decodes. Used by the next three. |
| `SwapData` | What a trade moved, read off the transfers that follow it. Used by the next. |
| `TransactionParsing`, `MCTransactionParsing` | Tasks that parse transactions concurrently: the step that `EventProcessor` takes as one. |
| `TransactionParsingProofs` | Its theorems, and those about the tables of parsers. |
| `EventSelection`, `MCEventSelection` | Filters, requests and callbacks across subscribe, update and stop. |
| `EventSelectionProofs` | Theorems about requests, messages and discriminators. |

`PROJECT.json` maps each definition to the lines it stands for.

### EventProcessor

`queue`, `pending` and `shutdown` are the three shared atomics or lock-free
structures of the processor. Each subscription in `Subs` has a stream task
(`stream`: where it is between two atomic operations), a processing thread
(`worker`, `held`) and a callback (`calls`, the messages it has been given so
far). Under Drop each admitted message has a task (`task`). A message is
`<<s, n>>`, the n-th item of the stream of s.

Every atomic operation of the code is an action: `BlockLoad` (the load and the
test), `BlockRetry` (back from `yield_now`), `BlockPush`, `BlockCount`;
`DropLoad`, `DropSpawn` (count and spawn), `TaskProcess`, `TaskRelease`;
`WorkerCheck` (the shutdown flag), `WorkerPop` or `WorkerFindsNothing`,
`WorkerUncount`, `WorkerProcess`. `pending` wraps modulo `W`, as a `usize` does.
`Poison` says which message makes which clone's parser or callback panic
(`TaskPanics`, `WorkerPanics`). `Start` is
`set_protocols_and_event_type_filter` on the clone of a new subscription;
`BlockAborted` is the abort of a stream task that waits at `yield_now`, and
`StreamEnds` the end, failure or abort of one that waits for its next item.

A thread runs the clone it was started with. Since the queue is shared, the
thread of an old subscription may process a new subscription's message with the
old callback: `calls[t]` may hold messages of any stream, and the properties
below do not pretend otherwise.

The code is the same line for line for the shred lane, which has a queue, a
counter and a thread of its own.

### YellowstoneClient

`active`, `handle`, `control` and `request` are the four shared fields. `pc`
says where each caller is; each action ends at an await or at a shared access:
`Claim` (the compare-and-exchange), `Connect` or `ConnectFails`, `SetRequest`,
`SetControl`, `SpawnStream`, `SaveHandle`; `StopTake`, `StopControl`,
`StopRequest`, `StopActive`, with `lock` held from the first to the last as
`handle_guard` is; `UpdateSender`, `UpdateRead`, `UpdateSend`, `UpdateWrite`.
`task` is the stream task of each subscription ("aborting" between the abort and
the await at which it lands), `monitor` its metrics task, `channel` the control
channel and `server` what the server applies. A request is abstracted to the
subscription it was made for and the caller whose filters it carries: this is
what tells a stale request from a fresh one.

Two history variables say when a guarantee is off: `raced`, once a `stop` has
finished while a subscription was being set up, and `crossed`, once an update has
overlapped another update or a `stop`.

### GlobalState

`slot_data` (the keys of the map), `slot_count` and `generation` are the fields.
An add is `LoadCount`, then perhaps a cleanup (`LoadGen`, `CasWins` or
`CasLoses`, `Collect` once for each shard, `Choose`, `Remove` and `Subtract` once
for each victim), then `Entry`, which holds the lock of the slot's shard. A clear
goes shard by shard (`ClearShard`) and then resets the counters. `overlapped` and
`cleared` are history variables: `overlapped` is set when a cleanup or a clear
begins while another is under way, or when a clear meets a slot that was not there.

### ShredClient

`handle` is the one shared field. A call of `shredstream_subscribe` is `Call`,
`StopFirst` (its own call of `stop`), `Prepare` (which spawns the metrics task and,
in a new `EventProcessor`, the processing threads), `Connect` or `ConnectFails`, and
`SaveHandle`; its caller may drop the future while it connects (the same as a
failure) or while it waits for the lock (`DroppedUnsaved`). No lock is held
from one step to the next. Of each subscription's processor the module keeps the
backlog (`Enqueue`, `Process`), because that is what is left when its stream has
been stopped. `overlapped` says that two calls have been setting up at once,
`abandoned` which subscriptions' calls failed or were dropped.

### EventWindows and ProcessingTimes

Both are parts of `common/metrics.rs`. They share threads and a clock and nothing
else: every update of one is followed by one of the other, in no order that matters
to either, so each has a module of its own, and a behaviour of `MCMetrics` takes the
steps of one of them (`part`). Every atomic operation is an action; the local code after
it belongs to it.

In `EventWindows` a thread adds to `processed` and then to `inWindow`; the background
task (`closer`) loads the start and the count of a window, stores the rate, resets
the count and then the start; a `reader` loads the start and then the count. `oldest`,
`closed` and `late` are history.

In `ProcessingTimes` a thread goes through `update`: for the minimum and then for the
maximum it loads the value, checks the time stamp, perhaps resets both, and tries its
exchange until the value is no worse than its own; then it adds to the sums. A
time is the number that the bits of its `f64` are: non-negative ones in order, then
`Infinity`, then the negative ones; `Value` is the time the bits stand for. The code
compares bits (`Beats`), the properties compare values. `seen` holds the times recorded
since the last reset of an extreme value and not overtaken by it, `last` when the value
was recorded, `crossed` whether updates of it overlapped.

### SwapData

`Side` gives, for each trade, where among its keys the mints, the user's accounts and
the pool's vaults are; `IsTransfer`, `Source`, `Destination` read a token or system
transfer by its first byte, the code's six cases of who pays whom are `PaysIn` and
`PaysOut`; `Followers` are the places up to the first instruction of another program;
`SwapOf` goes over them with `NotedUntil`, which notes each transfer until `Complete`.

### ProtocolParsers

A parser is a record. `data` and `accounts` are what its length guard asks for,
`bytes` and `keys` what its body then indexes, `text` whether it reads strings
with `?` or by slicing. `Outcome` puts them together: "none" where the code
returns `None`, "panic" where it indexes out of range, else "event". Reads that
end in `?` are part of `data`. A log has the size it is cut to and the bytes its
fields take; borsh fails unless it consumes the slice, so `Decodes` compares the
two. For two logs with strings this means that the strings must have one exact
length.

### TransactionParsing

A task (a processing thread or a spawned task) takes a transaction (`Begin`),
walks its outer and then its inner instructions (`cursor` in `Walk`), resolves
each with an account vector (`vec`, which keeps what was padded) and has the
parsers whose discriminator fits make something of it (`Parse`, or `ParsePanics`,
which ends the task). Each result is completed with the first log that decodes,
given its swap data, priced, and marked by the developer table (`Merge`: everything
between the parser and the callback) and handed over (`Callback`). Tasks interleave
between these steps: this is where a launch and a trade of it meet. The order of the
results of one instruction is open, since the tables are hash maps.

A transaction is a record of keys, instructions and groups of inner instructions;
`full` tells those of blocks from those of shreds, which have neither lookup
tables nor inner instructions. An instruction has a program index, first bytes,
length, accounts, and what the properties need of its payload: the people it
names, the layouts its bytes are a value of (`spells`), and, for a log, the
instruction that left it (`of`, which the code cannot see and only `LogIsOwn`,
`LogWhenAlone` and `SwapIsOwn` use). A transfer carries an amount and, for
`SwapIsOwn` only, its role and the mint it moves. `IndexRange` is the number of values
of a `u8`, and `AsI8` what an `i8` makes of a place in a group.

A log decodes for a parser (`LogDecodes`) if its bytes are a value of the parser's layout
(`LayoutFits`) and, on Bonk, whose parser looks at it, if it names the direction of
the event's trade (`RightDirection`). The filter of kinds takes parsers out of the `Table` and
leaves the programs of their protocols (`Programs`), whose instructions then still pad.

### EventSelection

A message is its class and the kinds of events a parser could make of it; `request`
is what the server was last asked for, `subs` the protocol list and filter of each
subscription, `queue` the queue all of them share. `Subscribe`,
`UpdateSubscription` and `Stop` are the calls of one caller, one after the other
(their interleaving is in `YellowstoneClient`); `Process(w)` is the thread of the
w-th subscription.

## 3. Runs

| Run | Instance | What it shows |
|---|---|---|
| `processor_block` | 2 subscriptions, 2 messages each, Block, 1 permit, 1 poisoned message | `ExactlyOnePlace`: a received message is always in exactly one place. `PendingAccurate`: the counter is off by exactly the operations in flight. `BacklogBounded`: at most `Permits + subscriptions - 1` queued. `StreamOrderKept`. `ImplementsContract`: refinement of `BoundedDelivery`. `EverythingSettles`: a transient wrap of the counter blocks nobody for good. |
| `processor_drop` | the same under Drop | `ExactlyOnePlace`, `ImplementsContract`, `DropOnlyUnderLoad`; `IInv`, the invariant of the proof, holds the counter and the bound |
| `processor_panic` | 1 subscription, 2 messages, the first poisoned | violation of `BlockLosesNothing` (finding 1) |
| `client` | 2 callers, 2 subscriptions, 2 updates | `SingleUnlessRaced`, `Stoppable`, `UpdatesSettle`, `EveryCallReturns`; `StopIsFinal`: when a `stop` returns that no set-up has overlapped, nothing is left of any subscription, also after a failed connection or an ended stream, and the client is as good as new; `IInv` is the invariant of the proof |
| `developers` | 3 threads, 4 slots in 2 shards, limit 2, batch 2, 2 cleanups, 1 clear | `CountExact`, `NewestKept`; `IInv` is the invariant of the proof |
| `transactions` | 2 tasks, any 2 of 10 transactions (`Batch`) | `KeysAreNamed`, `NothingMissed` (compared with what is there to be found, said without the walk), `LogWhenAlone`, `DevMarksExact`, `SwapIsOwn`, `PanicOnlyUnderGuarded`; `IInv` is the invariant of the proof |
| `transactions_logs` | the same, 1 transaction | violation of `LogIsOwn` (finding 2) |
| `selection` | 2 subscriptions (`MaxSubs`), 2 messages (`MaxReceived`), 3 protocol lists, 6 filters | `WantedIsAsked`, `OwnExact`, and `OneKindEach` of the tables each subscribe builds |
| `selection_stopped` | the same | violation of `CallbackIsOwn` (finding 3) |
| `metrics` | 2 threads. Windows: 2 kinds, a window of 2, 4 ticks, 2 events of each kind. Times: {1, 2, 4} with 4 negative, 2 ticks (`MaxTimesTime`), stale after 1, 3 records (`MaxUpdates`) | `WindowsAddUp`: no event is in two windows, and one in none was added while its window was being closed. `LiveRateNotOverstated`: what a reader divides by a window's age was added in that window. `ExtremesExact`: the minimum is the least of the times that are not negative, the maximum the greatest unless one is negative, which then shows instead; no race loses a time. `FreshKept`: nothing is forgotten before its time unless updates overlap. `AverageInRange`. `IInv` and `TimesInv` are the invariants of the proofs |
| `metrics_negative` | the same | violation of `NoTimeBeyond` (finding 4) |
| `shred` | 3 callers, 2 subscriptions, 2 messages each, 1 permit | `OneWithinReach`: one stream at a time, and nothing runs that `stop` cannot reach, unless calls overlap, fail or are dropped. `StoppedFallsSilent`: what was queued is still delivered after `stop`, and then nothing. `IInv` is the invariant of the proof |

The bounds are small and reach the interesting cases. One permit and two streams
overshoot, wait, drop and wrap the counter; the second message meets the state
the first one left. `W = 8` is far above any backlog of the instance, so that a
counter below zero shows as a large one, as with a `usize`. Two callers
interleave any two calls, and two subscriptions give a second subscribe after a
stop, a failure or a race; a third caller or subscription repeats these. Two
updates can cross. Four slots with a limit of two trigger overlapping cleanups,
and two shards let slots come and go between the parts of a collection. A third
thread can clear while two clean up, and a third caller of the shred client can
stop while two subscribe.

Three records are enough for two updates to overlap and a third to find what they
left; two ticks with an age of one let a value go stale while an update is under way,
and four ticks with windows of two close a window twice. Amounts of events are one
each: every caller of the code records one.

The ten transactions bring the hard cases together: a launch whose log corrects
the creator, trades of the developer and of a stranger through a lookup table, a
route with two trades in one group, a route there and back through one pool with a
token that takes a fee, a purchase and a swap with their transfers, a purchase and a sale
on Bonk in one group with the logs of both, a sale whose own log does not decode
beside a log of a purchase, shreds whose indices run past the keys by one and by more
and whose keys are padded for a program that has no parser left, and a buy that is an
account short. Two of them at once are
enough for a launch to race a trade. The protocol lists cover all six protocols
and one of them twice, the filters each class alone, none and all.

Deadlock is checked for the client and the developer table. The processor may
stop for good (all streams ended, all threads told to exit), so
`CHECK_DEADLOCK FALSE` is set there and progress is stated by `EverythingSettles`.
`TransactionParsing`, `EventSelection`, `MCMetrics` and `ShredClient` end when the batch
is parsed or the bounds are reached.

Every property of a passing run has a mutant in `PROJECT.json`: the operator just
before the definition it replaces, a plausible slip in the code that the property
catches.

## 4. Fairness

`EventProcessor`: weak fairness of each stream task's progress with the message
in hand, of each processing thread and of each spawned task: the operating system
schedules threads, tokio schedules runnable tasks. Nothing makes a stream yield an
item, a user subscribe or stop. `EverythingSettles` assumes further that
`stop_processing` is not the last word and that no thread has panicked.

`YellowstoneClient`: weak fairness of each caller's pending call (a future the
user awaits is polled on; connecting has a timeout) and strong fairness of taking
the handle's lock: tokio's mutex queues its waiters in order, so a waiter gets the
lock even when others take it again and again.

`ShredClient`: weak fairness of each processing thread and of an abort's landing.
Nothing makes a connection succeed, a stream yield or a caller go on.

The other modules state safety only.

## 5. Proofs

All theorems hold for every value of the constants that satisfies the named
assumptions of the module (finitely many subscriptions, callers, threads and
slots; a counter wide enough for permits and in-flight operations; a batch no
larger than the limit).

**`EventProcessorProofs`** — `TypeCorrect`, `Invariance`, `PendingIsAccurate`,
`BacklogIsBounded`. `BacklogBounded` is not inductive: a stream that has read a
small counter may push later, when others have pushed. The invariant adds
`AdmissionBounded`, which counts as occupied the place set aside for each stream
past its test (`Deciding`) and for each message popped but not yet counted off
(`Taken`), and `PendingAccurate`, which says that the counter is what those steps
leave. Admission reads `pending < Permits`; by `PendingAccurate` the occupied
places other than those of the other streams are then below `Permits`, hence
`Permits + subscriptions - 1` in all. The wrap-around cannot fool this: a wrapped
counter is at least `Permits` by `WidthAssumption`. Most of the proof is counting:
each action moves one element between finite sets (`CardMove` and the lemmas after
it).

`OrderIsKept` is about Block only: under Drop a task of its own runs for each message,
in any order. `OrderInv` says that the queue is in order (`QueueOrder`), that what a
thread holds precedes what is queued (`HeldOrder`), that what a callback got precedes
both (`CallsOrder`), and that all of these are behind the message the stream task has
in hand; only then is a pushed message the youngest of its stream everywhere.

`PlaceInvariance`, `NothingLostOrDoubled`, `RefusedUnderLoad` and `Implementation`
say where a message is. `At(m)` is the set of places a message is at. `PlaceInv`
says that it has one element for a received message and none for another (`Single`),
that a message is in its place once (`Once`), and that threads, tasks and the two
strategies keep to their own parts (`Tidy`): no task under Block, an empty queue
under Drop, a thread with a message exactly while it works on one. Each action moves
one message from one place to another (`Moves`) or none (`Stays`). The number of
copies of a message then is the size of `At(m)`. The refinement mapping
depends on the place and on who has died or been cancelled (`Fate`), so each action
is the step of the contract it should be: a push or a spawn admits, for
`AdmissionBounded` has set room aside; a refusal finds `Permits` tasks at work, for under
Drop the counter is exactly their number (`DropCounts`); a pop or a release leaves; a
callback delivers; a panic loses; an abort forgets.

**`YellowstoneClientProofs`** — `Invariance`, `SingleStream`, `StreamsWithinReach`.
The invariant (`Ownership`, `LockDiscipline`) makes the flag a lock: as long as no
stop has finished during a set-up, whoever sets up owns it, a saved handle keeps
it, and `stop` resets it only after it has emptied the handle, holding the
handle's lock throughout, so that nobody saves a handle in between.
`StopLeavesNothing` needs in addition what `stop` has cleared by each of its steps
(`StopLeaves`), which stream task and metrics task belong together (`Wired`) and that
the control channel is the running subscription's (`ControlFollows`).
`UpdatesAlwaysSettle`: while no two updates overlap (`UpdatesAlone`), the request that
an update has sent and not yet written is the last of the channel
(`OwnRequestSent`, `LastRequest`), and otherwise the saved request is
(`RequestFollows`), so once the channel is empty the server applies the saved request.

**`GlobalStateProofs`** — `Invariance`, `NewestIsKept`. The invariant
`VictimsOutdated` says that something newer than each slot chosen for removal is
in the map. It survives concurrent removals because a removed slot is itself a
victim, so something newer still takes over as the witness. `CountIsExact`: the
counter lags behind the map by the removals still to be counted. It needs
`OneAtATime` (until they overlap, cleanups and clears take turns) and `NothingLost`
(what a cleanup has found and chosen is still in the map when it comes to remove it,
and a clear leaves nothing in the shards it has visited); the rest is counting.

**`EventWindowsProofs`** — `WindowsAlwaysAddUp`, `LiveRateHonest`. `LoadedIsThere`:
only the background task lowers the count, so what it has loaded is still there when
it resets. `StartsInOrder`: the count is reset before the start is moved, so between
the two the window looks older than it is, never younger; a reader that loads the
start first errs on the same side.

**`ProcessingTimesProofs`** — `ExtremesAreExact`, `FreshIsKept`, `AverageIsInRange`.
`LoadedCovered`: by its bits, an
extreme value only improves between resets, so a thread that finds itself no better
than what it loaded is no better than what is there. `BitsCover` then holds: an extreme
value is one of the times it has to cover, and none of them beats it by its bits. What
this means for the times themselves is `ExtremesExact`: bits up to infinity are in the
order of what they stand for, and the negative ones are above them all, never below the
minimum (`ShortestNotNegative`) and always beyond the maximum. `StampFollows` and `ResetIsDue`
carry the time of the value to the thread that decides on the reset, as long as
updates of one value do not overlap (`Alone`).
`AverageIsInRange`: a thread past an extreme value is covered by it (`CoversPast`), so
each time it adds to the sum is between the two; the sum has as many summands as there
are counted events and threads between the two sums (`InRange`).

**`ShredClientProofs`** — `OneIsWithinReach`, from `Exclusive`: one call at a time sets
up and there is no handle meanwhile, because it has taken the one there was.

**`EventSelectionProofs`** — `RequestCoversFilter`: `WantedIsAsked` is inductive
once the subscriptions are known to be a sequence; an update asks for every
transaction and account and keeps the block metas, so it never asks for less than
the filter wants.
`OwnIsExact` (`ExactInv`): every message that waits or has been processed answers what
its subscription asked the server for, and the kinds of accounts, of block metas and
of instructions are apart, so a filter applied to the kinds found gives exactly the
kinds wanted. It assumes of the lists and updates what the code's types give
(`ListsAssumption`, `UpdatesAssumption`).

`TypeCorrect` (`NumbersOK`): messages are numbered as they come; those that wait have
the last numbers, in order, and the others have been processed, each once, whichever
thread took them. Queued and processed together are then the received ones.
`OneKindForEach`: `DiscriminatorsTell` compares the discriminators of each program's
table pair by pair, those of instructions and those of accounts; adding up tables and
leaving out kinds keeps the parsers apart.

**`TransactionParsingProofs`** — `Invariance`, `TypeCorrect`, `NothingIsMissed`,
`KeysOfEvents`, `DevMarksAreExact`, `PanicOnlyThere`, `AloneLogIsOwn`, `SwapsAreOwn`,
`OnlyUnderGuardedPanic`. For any number of tasks, any transactions that a block or a
shred can hold, any protocols and any filter of kinds. The inductive invariant `IInv` stands
in `TransactionParsing` and is checked by the run `transactions`:

- `WalkOK`: where in its walk a task can be, by what it is doing.
- `VectorOK`: the vector is the transaction's keys and then default keys, and never
  reaches `IndexRange`. So the cast of its length to a `u8` cuts nothing off, and
  `ValidIndices` lets in exactly the indices below the length; the keys named are then
  as many as the indices (`KeysOfEvents`). A padded key is the system program's, which
  no parser handles, so an index into the padding never finds a parser, and the program
  of an instruction is the one `Resolved` says.
- `OneEventEach`: two parsers of one program never fit one instruction
  (`OneGiven`, from the listed bytes by `DiscriminatorsTell`), so a task has one
  result to deliver and none is left over; what it is about to hand over is `Genuine`,
  made of an instruction in its walk, by a parser for it, with the keys it names, the
  first log that decodes and, of a trade with a pool, the swap data of its group as
  resolved with the transaction's own keys: padding changes nothing there
  (`SwapSame`), since the inner instructions name no key that is not in it, and the place
  in the group comes through the casts unharmed (`SkippedIs`), since a group is shorter
  than half of a `u8`'s range.
- `DevsOK`: whom the developer table has was announced by an event handed over *or
  about to be*, and conversely. It has to range over both: a launch is in the table
  from `Merge` on and delivered only with `Callback`, and a trade that another task
  merges between the two is marked by it. `DevMarksExact` follows for what is handed
  over.
- `SentOK`: what a task has sent, as far as its accounts are there, is what was to be
  found in the part it has walked. At the end of the walk this is
  `NothingMissed`; where a panic has ended it, a prefix. That a transaction with a
  wanted inner instruction but no wanted key at all is skipped by `HasProgram` loses
  nothing, because the program of an instruction is one of the keys.
- `PanicOnlyUnderGuarded`. An inner instruction's program index is used unchecked; the
  runtime has run that program, so it is in range (`Wellformed`). What is left is a
  parser's guard: every parser but nine satisfies `Guarded` (its guard covers its
  reads), and a guarded parser never panics, whatever the lengths
  (`OnlyUnderGuardedPanic`).

`AloneLogIsOwn` has a hypothesis, `LogsAreLeft`: where a log that decodes as a parser's
is in the group of an instruction for that parser, one of them was left by the
instruction itself. The run's transactions satisfy it (`MCTransactionParsing` assumes
it, so TLC evaluates it). The code cannot do without it: of two launches in one group,
the first with strings of a length its log does not decode with, the first is completed
with the log of the second, which is then the only one that decodes. On Bonk a log of
the other direction is not one that decodes: beside it the own log of a trade is still
alone, and without one the event keeps what the instruction says.

`SwapsAreOwn` has one too, `TransfersAreMade`: the transfers of an instruction of a pool
come after it and move a nonzero amount between the accounts it names, as these
accounts say; and a transfer that follows it directly and is not its own moves
none between them. TLC evaluates it likewise. How each program orders its transfers is
left open, as is whether the parser can read them. What is proved is what the loop does
with them: it stops before the next instruction of another program and so takes nothing
of a later trade; it is over only when both sides are told, so a transfer it does not look
at any more is never the only one of its side; no later transfer takes away what an
earlier one told. `SeenOK` says so of every place of the loop, `SeenGoesOn` is the step,
and `SeenInTheEnd` the induction. The code cannot do without the hypothesis either:
zero stands for "not known", and a transfer a router makes between the same accounts
right after the trade, with no other program in between, would be taken for the trade's.

`Kept` (the elements of a sequence that are in a set) and `FlattenSeq` are recursive, and
the library's induction theorems cannot be instantiated. `SetInduction` states induction
for a set of numbers instead of a predicate, and follows from the finite-set theorems: if
a number were missing, adding one would map the finite part below it one to one into
itself and never reach zero. `KeptNext`, `KeptAt` and `FlatDefined` then follow for
sequences of any length.

Only the liveness properties (`EverythingSettles`, `EveryCallReturns`,
`StoppedFallsSilent`) are model-checked and not proved: fairness is outside the prover's
reach. Every invariant and every action property that a passing run checks has a theorem.

## 6. Findings

1. `processor_panic`: `src/README.md:93` says that Block "ensures no data loss".
   A panic in a parser or in the user's callback unwinds out of `block_on`
   (`event_processor.rs:375`) and ends the only processing thread; the rest of the
   queue is never processed.
2. `transactions_logs`: each parser's configuration names the discriminator of its
   log (`protocols/pumpswap/parser.rs:48`:
   "inner_instruction_discriminator: discriminators::SELL_EVENT"), and nothing ever
   compares it: the first inner instruction of the group that decodes is merged
   (`traits.rs:801`, `:898`). In a route a sale is completed with the log of the
   purchase before it, whose 385 bytes also decode as a sale's 352.
3. `selection_stopped`: `stop` is documented as "停止当前订阅", stop the current
   subscription (`yellowstone_grpc.rs:139`), and as a clean shutdown
   (`src/README.md:31`). It leaves the processing thread (`event_processor.rs:364`),
   which after the next subscribe takes that subscription's messages and hands them
   to the stopped one's callback.

4. `metrics_negative`: "If current time is less than min value, update min value and
   timestamp" (`common/metrics.rs:152`; `:182` says the same of the maximum). Times are
   compared by the bits of an `f64` read as a `u64`. A negative time has its highest bit
   set: it never becomes the minimum, and as the maximum it hides every positive time
   until the next reset. Times can be negative, because the time of receipt is
   the wall clock's (`grpc/types.rs:109`, `shred_stream.rs:63`) and is subtracted from a
   monotonic clock that was set by it once (`event_parser/core/traits.rs:59`).
   `ExtremesExact` says what the code does keep.

Seen while modelling and stated here without a run of their own:

- `src/README.md:568` promises "One active subscription per client instance". `stop`
  resets the flag (`yellowstone_grpc.rs:147`) even while a `subscribe` is between its
  claim and its handle; a second one is let in. `SingleUnlessRaced` says that nothing
  else breaks the promise.
- A failed connection returns early (`yellowstone_grpc.rs:210`) with the flag still
  set. Every later `subscribe` answers "Already subscribed", and an update answers "No
  active subscription to update". `stop` gets out of it, as `StopIsFinal` says. A stream
  that ends by itself leaves the same.
- "Use CAS to ensure only one thread performs cleanup" (`global_state.rs:45`): a thread
  that loads the generation after another has bumped it wins its own exchange. The
  counter may then lag behind the map (`CountExact` excludes it by `overlapped`);
  `NewestKept` holds all the same.
- The rate of a window without events is not stored as zero (`metrics.rs:400`): what is
  shown as the last window's result (`metrics.rs:370`) may be of a window long past.
- "Minimum within 10s" (`metrics.rs:554`) is the minimum since the last reset, and a
  reset comes only with an update more than ten seconds after the last improvement.
- `set_enable_metrics` changes the configuration and not the manager that was built
  from it.
- Nine parsers read more accounts or data than their guards ask for (`UnderGuarded`;
  with exactly 13 accounts a PumpFun buy panics, and by finding 1 that ends the
  thread); accounts are padded up to the largest index instead of past it, so that an
  instruction is skipped or kept depending on the one before; a PumpFun launch log
  decodes only if its strings take exactly 77 bytes; a Bonk platform account hardly
  ever decodes; an update drops the filter of kinds from the request, which costs
  traffic and no events.
- A transfer with a fee (first byte 26) is passed over, so the swap data of a trade in
  such a token has one side only. The inner index is cast to an `i8` (`traits.rs:922`),
  but a trace holds at most 64 instructions, so it does not wrap.

## 7. Assumptions, and what is not modelled

- Relaxed atomics are modelled as sequentially consistent. In the processor each
  property relates a counter to a queue through a history of operations on each;
  weaker orders would only widen the windows that are already there between a push and
  its count. In `EventWindows` the order of the two stores of a reset and of the two
  loads of a reader carries `LiveRateNotOverstated`: on hardware that reorders relaxed
  stores or loads (not x86-64) the code does not ask for it, and the property is only
  as good as that order. The wall clock is taken not to run backwards.
- A message's parsing and callbacks are one step: they touch no state of the
  processor but the user's callback, and a panic in them is `Poison`. They return
  no error: every path through `parse_transaction` ends in `Ok` or a panic. What
  happens inside that step is `TransactionParsing`.
- Of a transaction `TransactionParsing` assumes (`TxsAssumption`, `Wellformed`) what
  the chain guarantees: fewer keys than a `u8` has values (the runtime locks at most
  128 accounts, a packet holds 38 keys); inner instructions only in one that was
  executed, which then has at most 64 instructions (each group fewer than an `i8` can
  count), each group with an index of its own and each index of a program or an account
  among the keys. `KeysAssumption`: the default key is the
  system program's, and no protocol has that. `RangeAssumption`: an index has at least
  two values. `NoneAssumption`: having no swap data is not some swap data. Shreds are
  bound by the first alone; their indices may name any key.
- In `TransactionParsing` an event's times are left out, the developer table is one set
  per platform without eviction, and the
  account cache, which is refilled under its lock for every instruction, is the
  vector it returns.
- In `SwapData` a transfer has all the bytes and accounts that its first byte calls for:
  blocks hold executed transactions (`failed: Some(false)`, `grpc/subscription.rs:125`),
  so the slices and indices taken are in range; shreds have no inner instructions.
- In `ShredClient` the strategy is Block; the second thread of each subscription finds
  an empty queue for ever. The metrics are enabled.
- In `EventSelection` the strategy is Block. Which accounts a filter names is
  abstracted to whether it names any. An account message holds a whole account;
  too short ones are turned away before anything is read.
- A PumpFun buy's key vector and the like are compared by position; the fields
  they go to are data.
- One configuration for a client's life (`update_config` needs exclusive access).
- `enable_metrics` is taken as TRUE in `YellowstoneClient` (with FALSE there is no
  metrics task to stop).
- The clients' metrics tasks are those that a subscription starts. A user may start one
  more (`shred/connection.rs:89`), whose handle nobody keeps: it is not in `ShredClient`,
  `stop` does not end it, and `OneWithinReach` does not speak of it.
- `CountExact` says nothing once cleanups or clears have overlapped, where the counter
  may be wrong for good; `DevMarksExact` knows no eviction.
- A call that is refused changes nothing and is a stuttering step.
- The control channel (capacity 100) is never full within `MaxUpdates`; a
  `subscribe` future is not dropped by its caller half way.
- In `GlobalState` the slot of an add is chosen at its `Entry`, before which it
  plays no part; `clear_all_data` is called at most once.
- Not modelled: generated bindings and examples; constants, constructors, TLS and
  connection set-up, which change no state after construction; logging and printing;
  `subscribe_system`, one task that shares nothing with the rest; the decoding of
  layouts field by field and the vectorised copies, which are data; the counters of
  processed and dropped messages, which are only added to.

## 8. Plan

Done, in order of importance: the processor with its abstract specification, the
client, the developer table, the parsing of transactions with the tables of parsers
and the swap data, the selection of events, the shred client, the metrics; each with
its invariants proved.

Left:

1. Client and processor composed across a resubscription: pings and updates while a
   message waits for room, old threads beside new ones.
