----------------------------- MODULE ShredClient -----------------------------
(***************************************************************************)
(* The life of a subscription of the ShredStream client                    *)
(* (streaming/shred_stream.rs, streaming/shred/connection.rs,              *)
(* streaming/common/subscription.rs): shredstream_subscribe and stop,      *)
(* called concurrently on one client or on its clones.                     *)
(*                                                                         *)
(* Every call of subscribe first stops the subscription it finds, then     *)
(* builds an EventProcessor of its own, connects, and saves a handle. The  *)
(* handle's mutex is never held across an await, so each critical section  *)
(* is one step; nothing protects the time between two of them.             *)
(*                                                                         *)
(* Of the processor of a subscription only its backlog is kept here: the   *)
(* EventProcessor module models the rest (Block strategy; the shred lane   *)
(* repeats the code of the gRPC lane on counters of its own).              *)
(***************************************************************************)
EXTENDS Integers, FiniteSets

CONSTANTS
  Callers,      \* the tasks that call the client
  Subs,         \* one for every call of subscribe
  Permits,      \* BackpressureConfig::permits
  MaxMsgs,      \* how many transactions each stream yields (bounds the model)
  NoSub

ASSUME FiniteAssumption == IsFiniteSet(Callers) /\ IsFiniteSet(Subs)
ASSUME PermitsAssumption == Permits \in Nat /\ MaxMsgs \in Nat
ASSUME NoSubAssumption == NoSub \notin Subs

VARIABLES
  handle,       \* subscription_handle: whose tasks it can abort
  pc,           \* where each caller is in subscribe
  mine,         \* the subscription that each caller sets up
  task,         \* the stream task of each subscription
  monitor,      \* its metrics task
  thread,       \* its processing thread
  backlog,      \* the transactions in its queue
  seen,         \* how many its stream has yielded
  overlapped,   \* history: a subscribe has begun during the set-up of another one
  abandoned     \* history: the subscriptions whose call failed or was dropped

tasks == <<task, monitor, thread>>
work == <<backlog, seen>>
history == <<overlapped, abandoned>>
vars == <<handle, pc, mine, tasks, work, history>>

TypeOK ==
  /\ handle \in Subs \cup {NoSub}
  /\ pc \in [Callers -> {"idle", "stop", "prepare", "connect", "save"}]
  /\ mine \in [Callers -> Subs \cup {NoSub}]
  /\ task \in [Subs -> {"none", "connecting", "running", "aborting", "ended"}]
  /\ monitor \in [Subs -> {"none", "running", "aborted"}]
  /\ thread \in [Subs -> {"none", "running"}]
  /\ backlog \in [Subs -> 0..MaxMsgs]
  /\ seen \in [Subs -> 0..MaxMsgs]
  /\ overlapped \in BOOLEAN
  /\ abandoned \in SUBSET Subs

Init ==
  /\ handle = NoSub
  /\ pc = [c \in Callers |-> "idle"]
  /\ mine = [c \in Callers |-> NoSub]
  /\ task = [s \in Subs |-> "none"]
  /\ monitor = [s \in Subs |-> "none"]
  /\ thread = [s \in Subs |-> "none"]
  /\ backlog = [s \in Subs |-> 0]
  /\ seen = [s \in Subs |-> 0]
  /\ overlapped = FALSE
  /\ abandoned = {}

Goes(c, from, to) ==
  /\ pc[c] = from
  /\ pc' = [pc EXCEPT ![c] = to]

SettingUp(c) == pc[c] \in {"prepare", "connect", "save"}

-----------------------------------------------------------------------------
(* stop *)

\* Mutant of TakeHandle: the metrics task is forgotten.
TakeStreamOnly ==
  /\ handle' = NoSub
  /\ task' = [s \in Subs |-> IF s = handle /\ task[s] = "running" THEN "aborting" ELSE task[s]]
  /\ UNCHANGED <<monitor, thread>>

\* SubscriptionHandle::stop aborts both tasks; the processing thread is not told.
TakeHandle ==
  /\ handle' = NoSub
  /\ task' = [s \in Subs |-> IF s = handle /\ task[s] = "running" THEN "aborting" ELSE task[s]]
  /\ monitor' = [s \in Subs |-> IF s = handle THEN "aborted" ELSE monitor[s]]
  /\ UNCHANGED thread

Stop(c) ==
  /\ pc[c] = "idle"
  /\ TakeHandle
  /\ UNCHANGED <<pc, mine, work, history>>

-----------------------------------------------------------------------------
(* shredstream_subscribe *)

Call(c) ==
  /\ Goes(c, "idle", "stop")
  /\ UNCHANGED <<handle, mine, tasks, work, history>>

\* Mutant of StopFirst: nothing is stopped.
StopsNothing(c) ==
  /\ Goes(c, "stop", "prepare")
  /\ overlapped' = (overlapped \/ \E d \in Callers : SettingUp(d))
  /\ UNCHANGED <<handle, mine, tasks, work, abandoned>>

StopFirst(c) ==
  /\ Goes(c, "stop", "prepare")
  /\ TakeHandle
  /\ overlapped' = (overlapped \/ \E d \in Callers : SettingUp(d))
  /\ UNCHANGED <<mine, work, abandoned>>

\* The metrics task and the processing thread are spawned before the connection.
Prepare(c, s) ==
  /\ task[s] = "none"
  /\ Goes(c, "prepare", "connect")
  /\ mine' = [mine EXCEPT ![c] = s]
  /\ task' = [task EXCEPT ![s] = "connecting"]
  /\ monitor' = [monitor EXCEPT ![s] = "running"]
  /\ thread' = [thread EXCEPT ![s] = "running"]
  /\ UNCHANGED <<handle, work, history>>

Connect(c) ==
  /\ Goes(c, "connect", "save")
  /\ task' = [task EXCEPT ![mine[c]] = "running"]
  /\ UNCHANGED <<handle, mine, monitor, thread, work, history>>

Returns(c, from) ==
  /\ Goes(c, from, "idle")
  /\ mine' = [mine EXCEPT ![c] = NoSub]

\* The early return of `?`, or the caller drops the future while it connects: the
\* metrics task and the processing thread go on.
ConnectFails(c) ==
  /\ Returns(c, "connect")
  /\ task' = [task EXCEPT ![mine[c]] = "ended"]
  /\ abandoned' = abandoned \cup {mine[c]}
  /\ UNCHANGED <<handle, monitor, thread, work, overlapped>>

\* The caller drops the future while it waits for the lock: the stream goes on.
DroppedUnsaved(c) ==
  /\ Returns(c, "save")
  /\ abandoned' = abandoned \cup {mine[c]}
  /\ UNCHANGED <<handle, tasks, work, overlapped>>

\* A handle that is there is dropped: its tasks are detached, not aborted.
SaveHandle(c) ==
  /\ handle' = mine[c]
  /\ Returns(c, "save")
  /\ UNCHANGED <<tasks, work, history>>

-----------------------------------------------------------------------------
(* The stream task and the processing thread of a subscription. *)

\* A transaction of an entry is queued if the backlog leaves room.
Enqueue(s) ==
  /\ task[s] \in {"running", "aborting"}
  /\ seen[s] < MaxMsgs
  /\ backlog[s] < Permits
  /\ seen' = [seen EXCEPT ![s] = @ + 1]
  /\ backlog' = [backlog EXCEPT ![s] = @ + 1]
  /\ UNCHANGED <<handle, pc, mine, tasks, history>>

StreamEnds(s) ==
  /\ task[s] = "running"
  /\ task' = [task EXCEPT ![s] = "ended"]
  /\ UNCHANGED <<handle, pc, mine, monitor, thread, work, history>>

AbortLands(s) ==
  /\ task[s] = "aborting"
  /\ task' = [task EXCEPT ![s] = "ended"]
  /\ UNCHANGED <<handle, pc, mine, monitor, thread, work, history>>

\* Mutant of Process: the thread stops with the stream.
ProcessWhileRunning(s) ==
  /\ thread[s] = "running"
  /\ task[s] = "running"
  /\ backlog[s] > 0
  /\ backlog' = [backlog EXCEPT ![s] = @ - 1]
  /\ UNCHANGED <<handle, pc, mine, tasks, seen, history>>

\* The thread goes on until the queue is empty, and then polls it for ever.
Process(s) ==
  /\ thread[s] = "running"
  /\ backlog[s] > 0
  /\ backlog' = [backlog EXCEPT ![s] = @ - 1]
  /\ UNCHANGED <<handle, pc, mine, tasks, seen, history>>

-----------------------------------------------------------------------------
Subscribe(c) ==
  \/ StopFirst(c)
  \/ \E s \in Subs : Prepare(c, s)
  \/ Connect(c) \/ ConnectFails(c) \/ SaveHandle(c) \/ DroppedUnsaved(c)

Next ==
  \/ \E c \in Callers : Call(c) \/ Stop(c) \/ Subscribe(c)
  \/ \E s \in Subs : Enqueue(s) \/ StreamEnds(s) \/ AbortLands(s) \/ Process(s)

Spec == Init /\ [][Next]_vars

\* The processing threads run, and an aborted task is dropped at its next await.
\* Nothing makes a connection succeed, a stream yield or a caller call.
Fairness == \A s \in Subs : WF_vars(AbortLands(s)) /\ WF_vars(Process(s))

FairSpec == Spec /\ Fairness

-----------------------------------------------------------------------------
(* Safety. *)

Running == {s \in Subs : task[s] = "running"}

\* Subscription mine[c] is being set up by c.
Holding(c) == pc[c] \in {"connect", "save"}

\* Someone can still stop s: the handle can, or will be able to once it is saved.
WithinReach(s) == handle = s \/ \E c \in Callers : Holding(c) /\ mine[c] = s

\* "If there is an active subscription, stop it first": two streams are never alive
\* at once, and no stream or metrics task runs on that stop cannot reach, unless
\* two calls of subscribe have overlapped, or a call failed or was dropped.
OneWithinReach ==
  ~overlapped =>
    /\ \A s, t \in Running \ abandoned : s = t
    /\ \A s \in Subs \ abandoned :
         task[s] = "running" \/ monitor[s] = "running" => WithinReach(s)

\* The inductive invariant behind it: one call at a time sets up a subscription, and
\* there is no handle meanwhile.
Exclusive ==
  ~overlapped =>
    /\ \A c, d \in Callers : SettingUp(c) /\ SettingUp(d) => c = d
    /\ \A c \in Callers : SettingUp(c) => handle = NoSub

LocalState ==
  /\ \A c \in Callers :
       /\ Holding(c) => mine[c] \in Subs /\ task[mine[c]] # "none"
       /\ pc[c] = "connect" => task[mine[c]] = "connecting"
  /\ \A c, d \in Callers : Holding(c) /\ Holding(d) /\ mine[c] = mine[d] => c = d
  /\ \A s \in Subs : backlog[s] <= seen[s] /\ (task[s] = "none" => monitor[s] = "none")
  /\ handle # NoSub => task[handle] # "none"

IInv == TypeOK /\ Exclusive /\ LocalState /\ OneWithinReach

-----------------------------------------------------------------------------
(* Liveness. *)

\* A subscription that was stopped falls silent: the transactions it had queued are
\* still given to its callback after stop has returned, but in the end none is left.
StoppedFallsSilent ==
  \A s \in Subs : task[s] = "aborting" ~> [](backlog[s] = 0)
=============================================================================
