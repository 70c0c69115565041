-------------------------- MODULE YellowstoneClient --------------------------
(***************************************************************************)
(* The life of a subscription of the Yellowstone gRPC client               *)
(* (streaming/yellowstone_grpc.rs, streaming/common/subscription.rs):      *)
(* subscribe_events_immediate, update_subscription and stop, called        *)
(* concurrently on one client or on its clones, which share all state.     *)
(*                                                                         *)
(* The shared fields are an atomic flag, two mutexes and a read-write      *)
(* lock; each is updated by itself and calls interleave at every await.    *)
(* Only stop keeps a lock across awaits, that of subscription_handle; every*)
(* other critical section has no await in it and is one step here.         *)
(*                                                                         *)
(* A request is abstracted to the subscription it was first made for       *)
(* (which determines its commitment and blocks_meta) and the caller whose  *)
(* update chose its transaction and account filters (NoCaller: the filters *)
(* are the subscription's own).                                            *)
(***************************************************************************)
EXTENDS Integers, Sequences, FiniteSets

CONSTANTS
  Callers,      \* the tasks that call the client
  Subs,         \* one for every call of subscribe that gets past the flag
  MaxUpdates,   \* how many updates are begun (bounds the model)
  NoCaller, NoSub, NoRequest

Request == [base : Subs, filter : Callers \cup {NoCaller}]

ASSUME FiniteAssumption == IsFiniteSet(Callers) /\ IsFiniteSet(Subs)
ASSUME MaxUpdatesAssumption == MaxUpdates \in Nat
ASSUME NothingAssumption ==
  NoCaller \notin Callers /\ NoSub \notin Subs /\ NoRequest \notin Request

VARIABLES
  active,       \* active_subscription
  lock,         \* who holds the mutex of subscription_handle across an await
  handle,       \* subscription_handle: whose tasks it can abort
  control,      \* control_tx: whose stream task receives what is sent
  request,      \* current_request
  pc,           \* where each caller is
  mine,         \* the subscription each caller sets up, or whose sender it cloned
  draft,        \* the request that each caller's update has prepared
  task,         \* the stream task of each subscription
  monitor,      \* the metrics task of each subscription
  channel,      \* the updates waiting in each control channel
  server,       \* the request the server applies to each stream
  updates,      \* how many updates have been begun
  raced,        \* history: a stop has finished during the set-up of a subscription
  crossed       \* history: an update has overlapped another one or a stop

shared == <<active, lock, handle, control, request>>
local == <<mine, draft>>
tasks == <<task, monitor>>
wire == <<channel, server>>
history == <<raced, crossed>>
vars == <<shared, pc, local, tasks, wire, updates, history>>

SetUp == {"connect", "setRequest", "setControl", "spawn", "save"}
Stopping == {"stopTake", "stopControl", "stopRequest", "stopActive"}
Updating == {"updateRead", "updateSend", "updateWrite"}

TypeOK ==
  /\ active \in BOOLEAN
  /\ lock \in Callers \cup {NoCaller}
  /\ handle \in Subs \cup {NoSub}
  /\ control \in Subs \cup {NoSub}
  /\ request \in Request \cup {NoRequest}
  /\ pc \in [Callers -> {"idle"} \cup SetUp \cup Stopping \cup Updating]
  /\ mine \in [Callers -> Subs \cup {NoSub}]
  /\ draft \in [Callers -> Request \cup {NoRequest}]
  /\ task \in [Subs -> {"none", "claimed", "running", "aborting", "ended"}]
  /\ monitor \in [Subs -> {"none", "running", "aborted"}]
  /\ channel \in [Subs -> Seq(Request)]
  /\ server \in [Subs -> Request \cup {NoRequest}]
  /\ updates \in 0..MaxUpdates
  /\ raced \in BOOLEAN
  /\ crossed \in BOOLEAN

Init ==
  /\ active = FALSE
  /\ lock = NoCaller
  /\ handle = NoSub
  /\ control = NoSub
  /\ request = NoRequest
  /\ pc = [c \in Callers |-> "idle"]
  /\ mine = [c \in Callers |-> NoSub]
  /\ draft = [c \in Callers |-> NoRequest]
  /\ task = [s \in Subs |-> "none"]
  /\ monitor = [s \in Subs |-> "none"]
  /\ channel = [s \in Subs |-> <<>>]
  /\ server = [s \in Subs |-> NoRequest]
  /\ updates = 0
  /\ raced = FALSE
  /\ crossed = FALSE

Goes(c, from, to) ==
  /\ pc[c] = from
  /\ pc' = [pc EXCEPT ![c] = to]

\* The call of c returns, with a result or with an error.
Returns(c, from) ==
  /\ Goes(c, from, "idle")
  /\ mine' = [mine EXCEPT ![c] = NoSub]
  /\ draft' = [draft EXCEPT ![c] = NoRequest]

\* The request a subscription begins with.
OwnRequest(s) == [base |-> s, filter |-> NoCaller]

SettingUp(c) == pc[c] \in SetUp
InUpdate(c) == pc[c] \in Updating

-----------------------------------------------------------------------------
(* subscribe_events_immediate *)

\* Mutant of Claim: the flag is set whatever it was.
ClaimBlindly(c, s) ==
  /\ task[s] = "none"
  /\ active' = TRUE
  /\ Goes(c, "idle", "connect")
  /\ mine' = [mine EXCEPT ![c] = s]
  /\ task' = [task EXCEPT ![s] = "claimed"]
  /\ monitor' = [monitor EXCEPT ![s] = "running"]
  /\ UNCHANGED <<lock, handle, control, request, draft, wire, updates, history>>

\* The compare-and-exchange succeeds; the metrics task is spawned. A call that
\* finds the flag set returns an error and changes nothing.
Claim(c, s) ==
  /\ ~active
  /\ task[s] = "none"
  /\ active' = TRUE
  /\ Goes(c, "idle", "connect")
  /\ mine' = [mine EXCEPT ![c] = s]
  /\ task' = [task EXCEPT ![s] = "claimed"]
  /\ monitor' = [monitor EXCEPT ![s] = "running"]
  /\ UNCHANGED <<lock, handle, control, request, draft, wire, updates, history>>

\* The request goes out with the connection.
Connect(c) ==
  /\ Goes(c, "connect", "setRequest")
  /\ server' = [server EXCEPT ![mine[c]] = OwnRequest(mine[c])]
  /\ UNCHANGED <<shared, local, tasks, channel, updates, history>>

\* The early return of `?`: the flag stays set and the metrics task goes on.
ConnectFails(c) ==
  /\ Returns(c, "connect")
  /\ task' = [task EXCEPT ![mine[c]] = "ended"]
  /\ UNCHANGED <<shared, monitor, wire, updates, history>>

SetRequest(c) ==
  /\ Goes(c, "setRequest", "setControl")
  /\ request' = OwnRequest(mine[c])
  /\ UNCHANGED <<active, lock, handle, control, local, tasks, wire, updates, history>>

SetControl(c) ==
  /\ Goes(c, "setControl", "spawn")
  /\ control' = mine[c]
  /\ UNCHANGED <<active, lock, handle, request, local, tasks, wire, updates, history>>

SpawnStream(c) ==
  /\ Goes(c, "spawn", "save")
  /\ task' = [task EXCEPT ![mine[c]] = "running"]
  /\ UNCHANGED <<shared, local, monitor, wire, updates, history>>

\* The handle saved before is dropped: its tasks are detached, not aborted.
SaveHandle(c) ==
  /\ lock = NoCaller
  /\ handle' = mine[c]
  /\ Returns(c, "save")
  /\ UNCHANGED <<active, lock, control, request, tasks, wire, updates, history>>

-----------------------------------------------------------------------------
(* stop *)

StopCall(c) ==
  /\ Goes(c, "idle", "stopTake")
  /\ UNCHANGED <<shared, local, tasks, wire, updates, history>>

\* Mutants of Aborted: only the metrics task is aborted, or only the stream task.
AbortedMonitorOnly(s) ==
  /\ monitor' = [monitor EXCEPT ![s] = "aborted"]
  /\ UNCHANGED task

AbortedStreamOnly(s) ==
  /\ task' = [task EXCEPT ![s] = IF @ = "running" THEN "aborting" ELSE @]
  /\ UNCHANGED monitor

\* SubscriptionHandle::stop aborts the stream task and the metrics task.
Aborted(s) ==
  /\ task' = [task EXCEPT ![s] = IF @ = "running" THEN "aborting" ELSE @]
  /\ monitor' = [monitor EXCEPT ![s] = "aborted"]

StopTake(c) ==
  /\ lock = NoCaller
  /\ lock' = c
  /\ Goes(c, "stopTake", "stopControl")
  /\ IF handle = NoSub THEN UNCHANGED tasks ELSE Aborted(handle)
  /\ handle' = NoSub
  /\ UNCHANGED <<active, control, request, local, wire, updates, history>>

\* Mutant of StopControl: the sender stays behind, for the next update to use.
StopKeepsControl(c) ==
  /\ Goes(c, "stopControl", "stopRequest")
  /\ crossed' = (crossed \/ \E d \in Callers : InUpdate(d))
  /\ UNCHANGED <<shared, local, tasks, wire, updates, raced>>

StopControl(c) ==
  /\ Goes(c, "stopControl", "stopRequest")
  /\ control' = NoSub
  /\ crossed' = (crossed \/ \E d \in Callers : InUpdate(d))
  /\ UNCHANGED <<active, lock, handle, request, local, tasks, wire, updates, raced>>

StopRequest(c) ==
  /\ Goes(c, "stopRequest", "stopActive")
  /\ request' = NoRequest
  /\ UNCHANGED <<active, lock, handle, control, local, tasks, wire, updates, history>>

\* Mutant of StopActive: the lock is never released.
StopKeepsLock(c) ==
  /\ Returns(c, "stopActive")
  /\ active' = FALSE
  /\ raced' = (raced \/ \E d \in Callers : SettingUp(d))
  /\ UNCHANGED <<lock, handle, control, request, tasks, wire, updates, crossed>>

StopActive(c) ==
  /\ Returns(c, "stopActive")
  /\ active' = FALSE
  /\ lock' = NoCaller
  /\ raced' = (raced \/ \E d \in Callers : SettingUp(d))
  /\ UNCHANGED <<handle, control, request, tasks, wire, updates, crossed>>

-----------------------------------------------------------------------------
(* update_subscription *)

\* Under the lock of control_tx: the flag is tested and the sender is cloned. A
\* call that finds no flag or no sender returns an error and changes nothing.
UpdateSender(c) ==
  /\ active
  /\ control # NoSub
  /\ updates < MaxUpdates
  /\ updates' = updates + 1
  /\ Goes(c, "idle", "updateRead")
  /\ mine' = [mine EXCEPT ![c] = control]
  /\ crossed' = (crossed \/ \E d \in Callers : InUpdate(d))
  /\ UNCHANGED <<shared, draft, tasks, wire, raced>>

\* Both filters are replaced in a copy of the current request.
UpdateRead(c) ==
  /\ request # NoRequest
  /\ Goes(c, "updateRead", "updateSend")
  /\ draft' = [draft EXCEPT ![c] = [request EXCEPT !.filter = c]]
  /\ UNCHANGED <<shared, mine, tasks, wire, updates, history>>

UpdateFindsNone(c) ==
  /\ request = NoRequest
  /\ Returns(c, "updateRead")
  /\ UNCHANGED <<shared, tasks, wire, updates, history>>

UpdateSend(c) ==
  /\ Goes(c, "updateSend", "updateWrite")
  /\ task[mine[c]] # "ended"
  /\ channel' = [channel EXCEPT ![mine[c]] = Append(@, draft[c])]
  /\ UNCHANGED <<shared, local, tasks, server, updates, history>>

\* The receiver went with the stream task.
UpdateSendFails(c) ==
  /\ Returns(c, "updateSend")
  /\ task[mine[c]] = "ended"
  /\ UNCHANGED <<shared, tasks, wire, updates, history>>

\* Mutant of UpdateWrite: current_request is left alone.
UpdateForgetsRequest(c) ==
  /\ Returns(c, "updateWrite")
  /\ UNCHANGED <<shared, tasks, wire, updates, history>>

UpdateWrite(c) ==
  /\ request' = draft[c]
  /\ Returns(c, "updateWrite")
  /\ UNCHANGED <<active, lock, handle, control, tasks, wire, updates, history>>

-----------------------------------------------------------------------------
(* The stream task. *)

Alive(s) == task[s] \in {"running", "aborting"}

Forward(s) ==
  /\ Alive(s)
  /\ channel[s] # <<>>
  /\ server' = [server EXCEPT ![s] = Head(channel[s])]
  /\ channel' = [channel EXCEPT ![s] = Tail(@)]
  /\ UNCHANGED <<shared, pc, local, tasks, updates, history>>

\* The stream closes or fails, or an update cannot be sent to the server. The
\* flag stays set.
StreamEnds(s) ==
  /\ task[s] = "running"
  /\ task' = [task EXCEPT ![s] = "ended"]
  /\ channel' = [channel EXCEPT ![s] = <<>>]
  /\ UNCHANGED <<shared, pc, local, monitor, server, updates, history>>

AbortLands(s) ==
  /\ task[s] = "aborting"
  /\ task' = [task EXCEPT ![s] = "ended"]
  /\ channel' = [channel EXCEPT ![s] = <<>>]
  /\ UNCHANGED <<shared, pc, local, monitor, server, updates, history>>

-----------------------------------------------------------------------------
Subscribe(c) ==
  Connect(c) \/ ConnectFails(c) \/ SetRequest(c) \/ SetControl(c) \/ SpawnStream(c)
    \/ SaveHandle(c)

Stop(c) == StopTake(c) \/ StopControl(c) \/ StopRequest(c) \/ StopActive(c)

Update(c) ==
  UpdateRead(c) \/ UpdateFindsNone(c) \/ UpdateSend(c) \/ UpdateSendFails(c)
    \/ UpdateWrite(c)

Call(c) ==
  (\E s \in Subs : Claim(c, s)) \/ StopCall(c) \/ UpdateSender(c)

StreamTask(s) == Forward(s) \/ StreamEnds(s) \/ AbortLands(s)

Next ==
  \/ \E c \in Callers : Call(c) \/ Subscribe(c) \/ Stop(c) \/ Update(c)
  \/ \E s \in Subs : StreamTask(s)

Spec == Init /\ [][Next]_vars

\* A call is polled on and connecting has a timeout. The mutex queues its waiters
\* in order, so each gets it even if others come back for it again and again
\* (strong fairness). Nothing makes a stream end or a user call.
Fairness ==
  \A c \in Callers :
    /\ WF_vars(Subscribe(c) \/ Stop(c) \/ Update(c))
    /\ SF_vars(SaveHandle(c) \/ StopTake(c))

FairSpec == Spec /\ Fairness

-----------------------------------------------------------------------------
(* Safety. *)

Running == {s \in Subs : task[s] = "running"}

\* "One active subscription per client instance" (README.md): never two stream
\* tasks that nobody has asked to end.
SingleSubscription == \A s, t \in Running : s = t

\* It holds as long as no stop finishes while a subscription is being set up.
SingleUnlessRaced == ~raced => SingleSubscription

\* A running stream is within reach of stop, or its subscribe call is about to
\* put it there: none runs on that nobody can ever abort.
WithinReach ==
  \A s \in Running : handle = s \/ \E c \in Callers : pc[c] = "save" /\ mine[c] = s

Stoppable == ~raced => WithinReach

\* The inductive invariant behind both: whoever sets up a subscription owns the
\* flag, a saved handle keeps it, and stop resets it only after it has emptied the
\* handle under the lock.
Ownership ==
  /\ \A c \in Callers : SettingUp(c) => active
  /\ \A c, d \in Callers : SettingUp(c) /\ SettingUp(d) => c = d
  /\ handle # NoSub => active /\ \A c \in Callers : ~SettingUp(c)
  /\ WithinReach

LockDiscipline ==
  /\ \A c \in Callers :
       lock = c <=> pc[c] \in {"stopControl", "stopRequest", "stopActive"}
  /\ lock # NoCaller => handle = NoSub

LocalState ==
  \A c \in Callers :
    /\ SettingUp(c) \/ InUpdate(c) => mine[c] \in Subs
    /\ pc[c] \in {"updateSend", "updateWrite"} => draft[c] \in Request

\* What stop has taken away so far is back only if a subscription on its way has put
\* it there, which then waits for the lock that stop holds.
StopLeaves ==
  \A c \in Callers :
    /\ pc[c] \in {"stopRequest", "stopActive"} =>
         (control # NoSub \/ (~crossed /\ \E d \in Callers : InUpdate(d))
            => \E d \in Callers : pc[d] \in {"spawn", "save"})
    /\ pc[c] = "stopActive" /\ ~crossed /\ request # NoRequest =>
         \E d \in Callers : pc[d] \in {"setControl", "spawn", "save"}

\* What the subscriptions that are not connected yet have of the wire, and which
\* metrics tasks stop can reach.
Wired ==
  /\ \A s \in Subs : task[s] = "none" => channel[s] = <<>> /\ server[s] = NoRequest
  /\ \A c \in Callers :
       /\ pc[c] \in {"connect", "setRequest", "setControl", "spawn"} => task[mine[c]] = "claimed"
       /\ pc[c] = "save" \/ InUpdate(c) => task[mine[c]] # "none"
       /\ pc[c] = "connect" => server[mine[c]] = NoRequest
  /\ control # NoSub => task[control] # "none"
  /\ \A s \in Subs : task[s] = "aborting" => monitor[s] = "aborted"
  /\ \A s \in Subs : monitor[s] = "running" /\ server[s] # NoRequest =>
       handle = s \/ \E c \in Callers : SettingUp(c) /\ mine[c] = s

\* Nobody can update before a subscription has stored its sender.
ControlFollows ==
  ~active \/ (\E c \in Callers : pc[c] \in {"connect", "setRequest", "setControl"}) =>
    control = NoSub

\* One update at a time, of the stream that the sender in control_tx belongs to.
UpdatesAlone ==
  /\ \A c, d \in Callers : InUpdate(c) /\ InUpdate(d) => c = d
  /\ \A c \in Callers : InUpdate(c) => control = mine[c]

\* The request that the server applies once all updates sent have arrived.
LastRequest(s) == IF channel[s] = <<>> THEN server[s] ELSE channel[s][Len(channel[s])]

\* current_request is that request, or is about to be; before the sender is stored
\* the server knows no other.
RequestFollows ==
  (\A c \in Callers : pc[c] \notin {"stopRequest", "stopActive"}) =>
    /\ \A c \in Callers : pc[c] = "setControl" => request = OwnRequest(mine[c])
    /\ control # NoSub /\ task[control] \in {"claimed", "running"} =>
         /\ (\A c \in Callers : pc[c] # "updateWrite") => request = LastRequest(control)
         /\ \A c \in Callers : pc[c] = "updateWrite" => draft[c] = LastRequest(control)

OwnRequestSent ==
  \A c \in Callers :
    /\ pc[c] \in {"connect", "setRequest", "setControl"} => channel[mine[c]] = <<>>
    /\ pc[c] \in {"setRequest", "setControl"} => server[mine[c]] = OwnRequest(mine[c])

IInv ==
  /\ TypeOK /\ LocalState /\ LockDiscipline /\ StopLeaves
  /\ (~raced => Ownership /\ Wired /\ ControlFollows)
  /\ (~raced /\ ~crossed => UpdatesAlone /\ OwnRequestSent /\ RequestFollows)

\* When stop returns, also after a failed connection or a stream that has ended by
\* itself, every stream has been told to end, the metrics task of every subscription
\* that ever connected is gone and nothing refers to one any more: the client is as
\* good as new, unless an update that overlapped the stop has put its request back.
StopIsFinal ==
  [][\A c \in Callers :
       pc[c] = "stopActive" /\ pc'[c] = "idle" /\ ~raced' =>
         /\ ~active' /\ handle' = NoSub /\ control' = NoSub
         /\ ~crossed' => request' = NoRequest
         /\ \A s \in Subs :
              /\ task'[s] # "running"
              /\ monitor'[s] = "running" => server'[s] = NoRequest]_vars

\* When updates have neither overlapped each other nor a stop and no call is
\* changing it, current_request is what the server applies: the next update starts from
\* the truth.
UpdatesSettle ==
  ~raced /\ ~crossed /\ lock = NoCaller /\ (\A c \in Callers : ~InUpdate(c)) =>
    \A s \in Running : control = s /\ channel[s] = <<>> => request = server[s]

-----------------------------------------------------------------------------
(* Liveness. *)

\* No call hangs: stop holds one lock while it waits for two others, and a
\* subscribe call waits for the lock stop holds.
EveryCallReturns == \A c \in Callers : pc[c] # "idle" ~> pc[c] = "idle"
=============================================================================
