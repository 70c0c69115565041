--------------------------- MODULE EventProcessor ---------------------------
(***************************************************************************)
(* The gRPC lane of the event processor                                    *)
(* (streaming/common/event_processor.rs): stream tasks hand messages over  *)
(* under a Block or a Drop backpressure strategy, processing threads and   *)
(* spawned tasks run the parsers and the user's callbacks.                 *)
(*                                                                         *)
(* YellowstoneGrpc owns one EventProcessor and clones it for every         *)
(* subscription. The clones share the queue, the pending counter and the   *)
(* shutdown flag; each has a callback, a stream task and a processing      *)
(* thread of its own, all three named here by the subscription. The stream *)
(* task of a stopped subscription is aborted asynchronously, so streams of *)
(* two subscriptions may overlap.                                          *)
(*                                                                         *)
(* Every atomic operation of the code (a load, a fetch_add, a fetch_sub, a *)
(* push, a pop) is a step of its own; the purely local code after it       *)
(* belongs to that step.                                                   *)
(***************************************************************************)
EXTENDS Integers, Sequences, FiniteSets

CONSTANTS
  Subs,         \* the subscriptions made on one client
  MaxMsgs,      \* how many messages each stream yields (bounds the model)
  Strategy,     \* "Block" or "Drop"
  Permits,      \* BackpressureConfig::permits
  W,            \* the pending counter is a usize: it wraps modulo W
  Poison,       \* <<s, m>>: the parser or the callback of s panics on message m
  NoMsg         \* no message

Msg == Subs \X (1..MaxMsgs)

ASSUME SubsAssumption == Subs # {} /\ IsFiniteSet(Subs)
ASSUME MaxMsgsAssumption == MaxMsgs \in Nat
ASSUME StrategyAssumption == Strategy \in {"Block", "Drop"}
ASSUME PermitsAssumption == Permits \in Nat
ASSUME WidthAssumption == W \in Nat /\ Permits + Cardinality(Subs) <= W
ASSUME PoisonAssumption == Poison \subseteq Subs \X Msg
ASSUME NoMsgAssumption == NoMsg \notin Msg

VARIABLES
  queue,        \* grpc_queue
  pending,      \* grpc_pending_count
  shutdown,     \* processing_shutdown
  stream,       \* where each subscription's stream task is
  seen,         \* how many messages each stream has yielded
  worker,       \* where each subscription's processing thread is
  held,         \* the message each processing thread has popped
  task,         \* where the task spawned for each message is (Drop)
  dropped,      \* the messages increment_dropped_events has counted
  calls         \* what each subscription's callback has been given so far

vars == <<queue, pending, shutdown, stream, seen, worker, held, task, dropped, calls>>
shared == <<queue, pending, shutdown>>
streams == <<stream, seen, dropped>>
workers == <<worker, held>>

StreamState ==
  {"off", "recv", "load", "yield", "push", "count", "admit", "ended", "cancelled"}
WorkerState == {"off", "check", "pop", "sub", "run", "exited", "panicked"}
TaskState == {"none", "run", "release", "done", "panicked"}

TypeOK ==
  /\ queue \in Seq(Msg)
  /\ pending \in 0..(W - 1)
  /\ shutdown \in BOOLEAN
  /\ stream \in [Subs -> StreamState]
  /\ seen \in [Subs -> 0..MaxMsgs]
  /\ worker \in [Subs -> WorkerState]
  /\ held \in [Subs -> Msg \cup {NoMsg}]
  /\ task \in [Msg -> TaskState]
  /\ dropped \in SUBSET Msg
  /\ calls \in [Subs -> Seq(Msg)]

Init ==
  /\ queue = <<>>
  /\ pending = 0
  /\ shutdown = FALSE
  /\ stream = [s \in Subs |-> "off"]
  /\ seen = [s \in Subs |-> 0]
  /\ worker = [s \in Subs |-> "off"]
  /\ held = [s \in Subs |-> NoMsg]
  /\ task = [m \in Msg |-> "none"]
  /\ dropped = {}
  /\ calls = [s \in Subs |-> <<>>]

-----------------------------------------------------------------------------
(* The pending counter: fetch_add and fetch_sub wrap around. *)

Incremented == IF pending = W - 1 THEN 0 ELSE pending + 1
Decremented == IF pending = 0 THEN W - 1 ELSE pending - 1

StreamGoes(s, from, to) ==
  /\ stream[s] = from
  /\ stream' = [stream EXCEPT ![s] = to]

WorkerGoes(t, from, to) ==
  /\ worker[t] = from
  /\ worker' = [worker EXCEPT ![t] = to]

TaskGoes(m, from, to) ==
  /\ task[m] = from
  /\ task' = [task EXCEPT ![m] = to]

\* The message that the stream task of s has in hand.
Current(s) == <<s, seen[s]>>

\* The clone of subscription s processes message m to the end: its parser finds
\* the events in it and its callback gets them.
InvokeCallback(s, m) == calls' = [calls EXCEPT ![s] = Append(@, m)]

-----------------------------------------------------------------------------
(* A subscription begins, its stream yields messages and ends. *)

\* set_protocols_and_event_type_filter on a fresh clone: the shutdown flag is
\* reset and a processing thread is spawned; the stream task follows.
Start(s) ==
  /\ StreamGoes(s, "off", "recv")
  /\ WorkerGoes(s, "off", "check")
  /\ shutdown' = FALSE
  /\ UNCHANGED <<queue, pending, seen, held, task, dropped, calls>>

Receive(s) ==
  /\ seen[s] < MaxMsgs
  /\ StreamGoes(s, "recv", "load")
  /\ seen' = [seen EXCEPT ![s] = @ + 1]
  /\ UNCHANGED <<shared, workers, task, dropped, calls>>

\* The stream closes or fails, or the task is aborted while it waits for an item.
StreamEnds(s) ==
  /\ StreamGoes(s, "recv", "ended")
  /\ UNCHANGED <<shared, seen, workers, task, dropped, calls>>

-----------------------------------------------------------------------------
(* Block: wait for room, then push, then count. *)

\* Mutant of BlockLoad: one message too many is let in.
BlockLoadAtMost(s) ==
  /\ Strategy = "Block"
  /\ StreamGoes(s, "load", IF pending <= Permits THEN "push" ELSE "yield")
  /\ UNCHANGED <<shared, seen, workers, task, dropped, calls>>

BlockLoad(s) ==
  /\ Strategy = "Block"
  /\ StreamGoes(s, "load", IF pending < Permits THEN "push" ELSE "yield")
  /\ UNCHANGED <<shared, seen, workers, task, dropped, calls>>

\* Mutant of BlockRetry: the message is given up after one attempt.
BlockGivesUp(s) ==
  /\ StreamGoes(s, "yield", "recv")
  /\ UNCHANGED <<shared, seen, workers, task, dropped, calls>>

BlockRetry(s) ==
  /\ StreamGoes(s, "yield", "load")
  /\ UNCHANGED <<shared, seen, workers, task, dropped, calls>>

\* yield_now is an await: an abort takes effect there and the message is gone.
BlockAborted(s) ==
  /\ StreamGoes(s, "yield", "cancelled")
  /\ UNCHANGED <<shared, seen, workers, task, dropped, calls>>

BlockPush(s) ==
  /\ StreamGoes(s, "push", "count")
  /\ queue' = Append(queue, Current(s))
  /\ UNCHANGED <<pending, shutdown, seen, workers, task, dropped, calls>>

BlockCount(s) ==
  /\ StreamGoes(s, "count", "recv")
  /\ pending' = Incremented
  /\ UNCHANGED <<queue, shutdown, seen, workers, task, dropped, calls>>

-----------------------------------------------------------------------------
(* Drop: refuse the message, or count it and spawn a task for it. *)

\* Mutants of DropLoad: one message too many is let in; a message is refused
\* while there is still room; a refused message goes on to be spawned.
DropLoadAtMost(s) ==
  /\ Strategy = "Drop"
  /\ \/ /\ pending <= Permits
        /\ StreamGoes(s, "load", "admit")
        /\ UNCHANGED dropped
     \/ /\ pending > Permits
        /\ StreamGoes(s, "load", "recv")
        /\ dropped' = dropped \cup {Current(s)}
  /\ UNCHANGED <<shared, seen, workers, task, calls>>

DropLoadEarly(s) ==
  /\ Strategy = "Drop"
  /\ \/ /\ pending + 1 < Permits
        /\ StreamGoes(s, "load", "admit")
        /\ UNCHANGED dropped
     \/ /\ pending + 1 >= Permits
        /\ StreamGoes(s, "load", "recv")
        /\ dropped' = dropped \cup {Current(s)}
  /\ UNCHANGED <<shared, seen, workers, task, calls>>

DropLoadFallsThrough(s) ==
  /\ Strategy = "Drop"
  /\ StreamGoes(s, "load", "admit")
  /\ dropped' = IF pending < Permits THEN dropped ELSE dropped \cup {Current(s)}
  /\ UNCHANGED <<shared, seen, workers, task, calls>>

DropLoad(s) ==
  /\ Strategy = "Drop"
  /\ \/ /\ pending < Permits
        /\ StreamGoes(s, "load", "admit")
        /\ UNCHANGED dropped
     \/ /\ pending >= Permits
        /\ StreamGoes(s, "load", "recv")
        /\ dropped' = dropped \cup {Current(s)}
  /\ UNCHANGED <<shared, seen, workers, task, calls>>

DropSpawn(s) ==
  /\ StreamGoes(s, "admit", "recv")
  /\ pending' = Incremented
  /\ TaskGoes(Current(s), "none", "run")
  /\ UNCHANGED <<queue, shutdown, seen, workers, dropped, calls>>

TaskProcess(m) ==
  /\ <<m[1], m>> \notin Poison
  /\ TaskGoes(m, "run", "release")
  /\ InvokeCallback(m[1], m)
  /\ UNCHANGED <<shared, streams, workers>>

\* The task dies; nothing gives its permit back.
TaskPanics(m) ==
  /\ <<m[1], m>> \in Poison
  /\ TaskGoes(m, "run", "panicked")
  /\ UNCHANGED <<shared, streams, workers, calls>>

\* Mutant of TaskRelease: the permit is not given back.
TaskKeepsPermit(m) ==
  /\ TaskGoes(m, "release", "done")
  /\ UNCHANGED <<shared, streams, workers, calls>>

TaskRelease(m) ==
  /\ TaskGoes(m, "release", "done")
  /\ pending' = Decremented
  /\ UNCHANGED <<queue, shutdown, streams, workers, calls>>

-----------------------------------------------------------------------------
(* A processing thread: test the flag, pop, uncount, process. *)

WorkerCheck(t) ==
  /\ WorkerGoes(t, "check", IF shutdown THEN "exited" ELSE "pop")
  /\ UNCHANGED <<shared, streams, held, task, calls>>

WorkerFindsNothing(t) ==
  /\ queue = <<>>
  /\ WorkerGoes(t, "pop", "check")
  /\ UNCHANGED <<shared, streams, held, task, calls>>

\* Mutants of WorkerPop: the newest message first; the message stays queued.
WorkerPopNewest(t) ==
  /\ queue # <<>>
  /\ WorkerGoes(t, "pop", "sub")
  /\ held' = [held EXCEPT ![t] = queue[Len(queue)]]
  /\ queue' = SubSeq(queue, 1, Len(queue) - 1)
  /\ UNCHANGED <<pending, shutdown, streams, task, calls>>

WorkerPeek(t) ==
  /\ queue # <<>>
  /\ WorkerGoes(t, "pop", "sub")
  /\ held' = [held EXCEPT ![t] = Head(queue)]
  /\ UNCHANGED <<shared, streams, task, calls>>

WorkerPop(t) ==
  /\ queue # <<>>
  /\ WorkerGoes(t, "pop", "sub")
  /\ held' = [held EXCEPT ![t] = Head(queue)]
  /\ queue' = Tail(queue)
  /\ UNCHANGED <<pending, shutdown, streams, task, calls>>

\* Mutant of WorkerUncount: the counter is left alone.
WorkerSkipsUncount(t) ==
  /\ WorkerGoes(t, "sub", "run")
  /\ UNCHANGED <<shared, streams, held, task, calls>>

WorkerUncount(t) ==
  /\ WorkerGoes(t, "sub", "run")
  /\ pending' = Decremented
  /\ UNCHANGED <<queue, shutdown, streams, held, task, calls>>

\* The thread runs the clone it was spawned with: its own callback, whichever
\* subscription's stream queued the message.
WorkerProcess(t) ==
  /\ <<t, held[t]>> \notin Poison
  /\ WorkerGoes(t, "run", "check")
  /\ InvokeCallback(t, held[t])
  /\ held' = [held EXCEPT ![t] = NoMsg]
  /\ UNCHANGED <<shared, streams, task>>

\* A panic unwinds out of block_on and ends the thread.
WorkerPanics(t) ==
  /\ <<t, held[t]>> \in Poison
  /\ WorkerGoes(t, "run", "panicked")
  /\ UNCHANGED <<shared, streams, held, task, calls>>

StopProcessing ==
  /\ ~shutdown
  /\ shutdown' = TRUE
  /\ UNCHANGED <<queue, pending, streams, workers, task, calls>>

-----------------------------------------------------------------------------
Offer(s) ==
  BlockLoad(s) \/ BlockRetry(s) \/ BlockPush(s) \/ BlockCount(s)
    \/ DropLoad(s) \/ DropSpawn(s)

Stream(s) == Start(s) \/ Receive(s) \/ StreamEnds(s) \/ BlockAborted(s) \/ Offer(s)

Worker(t) ==
  WorkerCheck(t) \/ WorkerFindsNothing(t) \/ WorkerPop(t) \/ WorkerUncount(t)
    \/ WorkerProcess(t) \/ WorkerPanics(t)

Task(m) == TaskProcess(m) \/ TaskPanics(m) \/ TaskRelease(m)

Next ==
  \/ \E s \in Subs : Stream(s) \/ Worker(s)
  \/ \E m \in Msg : Task(m)
  \/ StopProcessing

Spec == Init /\ [][Next]_vars

\* Operating system threads and runnable tokio tasks are scheduled eventually;
\* nothing makes a stream yield, a user subscribe or a user stop.
Fairness ==
  /\ \A s \in Subs : WF_vars(Offer(s)) /\ WF_vars(Worker(s))
  /\ \A m \in Msg : WF_vars(Task(m))

FairSpec == Spec /\ Fairness
-----------------------------------------------------------------------------
(* Where a message can be. *)

\* Read from the stream and still in the stream task's hands, or gone with it.
InHand(s) == stream[s] \in {"load", "yield", "push", "admit", "cancelled"}

Deciding == {s \in Subs : stream[s] \in {"push", "admit"}}
Uncounted == {s \in Subs : stream[s] = "count"}
Taken == {t \in Subs : worker[t] = "sub"}
Busy == {m \in Msg : task[m] \in {"run", "release", "panicked"}}
Processed(m) == \E t \in Subs : \E i \in DOMAIN calls[t] : calls[t][i] = m
Died(m) == task[m] = "panicked" \/ \E t \in Subs : worker[t] = "panicked" /\ held[t] = m

Received(m) == m[2] <= seen[m[1]]

\* How many times m is somewhere.
Copies(m) ==
  Cardinality({i \in DOMAIN queue : queue[i] = m})
    + Cardinality({t \in Subs : held[t] = m})
    + Cardinality({p \in UNION {{t} \X DOMAIN calls[t] : t \in Subs} : calls[p[1]][p[2]] = m})
    + Cardinality({s \in Subs : InHand(s) /\ Current(s) = m})
    + (IF m \in dropped THEN 1 ELSE 0)
    + (IF task[m] \in {"run", "panicked"} THEN 1 ELSE 0)

-----------------------------------------------------------------------------
(* Safety. *)

\* A message is never lost or duplicated between the stream and the callback:
\* once received it is in exactly one place (a task's hands, the queue, a
\* callback's past, the drop counter, ...), before that in none.
ExactlyOnePlace ==
  \A m \in Msg : Copies(m) = IF Received(m) THEN 1 ELSE 0

\* The counter that replaces SegQueue::len() is read while producers have
\* pushed without counting and threads have popped without uncounting. It is
\* off by exactly those, and below zero it shows as a huge usize.
Backlog ==
  Len(queue) + Cardinality(Taken) + Cardinality(Busy) - Cardinality(Uncounted)

Wrapped(n) == IF n < 0 THEN n + W ELSE n

PendingAccurate == pending = Wrapped(Backlog)

\* Check-then-act admission overshoots by at most one message for each other
\* stream: with a single stream the backlog never exceeds permits.
Capacity == Permits + Cardinality(Subs) - 1

BacklogBounded == Len(queue) + Cardinality(Busy) <= Capacity

\* The inductive invariant behind both. A stream task past its load has room set
\* aside for it (Deciding), a popped message still occupies the counter (Taken).
AdmissionBounded ==
  Len(queue) + Cardinality(Taken) + Cardinality(Busy) + Cardinality(Deciding)
    <= Capacity

InHandReceived ==
  /\ \A s \in Subs : stream[s] \notin {"off", "recv", "ended"} => seen[s] >= 1
  /\ \A t \in Subs : worker[t] \in {"sub", "run", "panicked"} => held[t] \in Msg

IInv == TypeOK /\ InHandReceived /\ PendingAccurate /\ AdmissionBounded

\* Block keeps order: the messages of one stream that one thread processes
\* reach its callback in the order in which the stream yielded them.
StreamOrderKept ==
  \A t \in Subs : \A i, j \in DOMAIN calls[t] :
    i < j /\ calls[t][i][1] = calls[t][j][1] => calls[t][i][2] < calls[t][j][2]

\* Drop drops only under load: whenever a message is dropped, at least permits
\* spawned tasks are unfinished (or have died with their permit).
DropOnlyUnderLoad ==
  [][dropped' # dropped => Cardinality(Busy) >= Permits]_vars

-----------------------------------------------------------------------------
(* Liveness. *)

Settled(m) ==
  \/ Processed(m)
  \/ Died(m)
  \/ m \in dropped
  \/ stream[m[1]] = "cancelled" /\ m = Current(m[1])

NoThreadDied == \A t \in Subs : worker[t] # "panicked"

\* As long as stop_processing is not the last word and no processing thread
\* dies, every received message is processed, dropped or cancelled in the end:
\* a transient underflow of the counter never blocks a stream for good.
EverythingSettles ==
  []<>~shutdown /\ []NoThreadDied => \A m \in Msg : Received(m) ~> Settled(m)

\* "Backpressure Strategy: Block - ensures no data loss" (README.md): with the
\* Block strategy, as long as processing is not stopped, every received message
\* reaches a callback, unless its subscription is stopped or the message itself
\* makes the parser or the callback panic.
BlockLosesNothing ==
  []<>~shutdown => \A m \in Msg :
    Received(m) ~> \/ Processed(m)
                   \/ stream[m[1]] = "cancelled"
                   \/ Subs \X {m} \cap Poison # {}

-----------------------------------------------------------------------------
(* What the processor implements. *)

holding == {queue[i] : i \in DOMAIN queue} \cup Busy

outcome == [m \in Msg |->
  CASE Processed(m) -> "delivered"
    [] m \in dropped -> "refused"
    [] Died(m) \/ (stream[m[1]] = "cancelled" /\ m = Current(m[1])) -> "lost"
    [] \/ \E i \in DOMAIN queue : queue[i] = m
       \/ task[m] = "run"
       \/ \E t \in Subs : held[t] = m /\ worker[t] # "panicked" -> "admitted"
    [] OTHER -> "new"]

Contract == INSTANCE BoundedDelivery WITH MayRefuse <- Strategy = "Drop"

\* The processor implements BoundedDelivery: bounded admission, at most one
\* delivery, no refusal while there is room.
ImplementsContract == Contract!Spec
=============================================================================
