------------------------ MODULE EventProcessorProofs ------------------------
(***************************************************************************)
(* Proofs about EventProcessor, for any number of subscriptions and        *)
(* messages, both strategies and every value of permits: the counter that  *)
(* stands in for the queue's length is exact up to the steps in flight     *)
(* (PendingAccurate), check-then-act admission overshoots permits by at    *)
(* most one message for each other stream (BacklogBounded), no message is  *)
(* lost or doubled on its way (ExactlyOnePlace), and all of this is what   *)
(* BoundedDelivery promises (ImplementsContract).                          *)
(***************************************************************************)
EXTENDS EventProcessor, FiniteSetTheorems, TLAPS

-----------------------------------------------------------------------------
(* Counting. *)

\* Two finite sets that differ at most in x differ by one in size exactly when
\* one of them has x and the other has not.
LEMMA CardMove ==
  ASSUME NEW S, NEW T, NEW x, IsFiniteSet(S), T \ {x} = S \ {x}
  PROVE  /\ IsFiniteSet(T)
         /\ x \in S <=> x \in T => Cardinality(T) = Cardinality(S)
         /\ x \notin S /\ x \in T => Cardinality(T) = Cardinality(S) + 1
         /\ x \in S /\ x \notin T => Cardinality(T) = Cardinality(S) - 1
<1>1. CASE x \in S <=> x \in T
  <2>1. T = S
    BY <1>1
  <2>2. QED
    BY <1>1, <2>1
<1>2. CASE x \notin S /\ x \in T
  <2>1. T = S \cup {x}
    BY <1>2
  <2>2. QED
    BY <1>2, <2>1, FS_AddElement
<1>3. CASE x \in S /\ x \notin T
  <2>1. T = S \ {x}
    BY <1>3
  <2>2. QED
    BY <1>3, <2>1, FS_RemoveElement
<1>4. QED
  BY <1>1, <1>2, <1>3

\* The sets that the invariant counts are finite.
LEMMA Finiteness ==
  /\ Cardinality(Subs) \in Nat \ {0}
  /\ IsFiniteSet(Taken) /\ Cardinality(Taken) \in Nat
  /\ IsFiniteSet(Deciding) /\ Cardinality(Deciding) \in Nat
  /\ IsFiniteSet(Uncounted) /\ Cardinality(Uncounted) \in Nat
  /\ IsFiniteSet(Busy) /\ Cardinality(Busy) \in Nat
  /\ Cardinality(Uncounted) <= Cardinality(Subs)
<1>1. IsFiniteSet(Subs) /\ Cardinality(Subs) \in Nat \ {0}
  BY SubsAssumption, FS_CardinalityType, FS_EmptySet
<1>2. IsFiniteSet(Msg)
  <2>1. IsFiniteSet(1..MaxMsgs)
    BY FS_Interval, MaxMsgsAssumption
  <2>2. QED
    BY <1>1, <2>1, FS_Product DEF Msg
<1>3. Taken \subseteq Subs /\ Deciding \subseteq Subs /\ Uncounted \subseteq Subs
      /\ Busy \subseteq Msg
  BY DEF Taken, Deciding, Uncounted, Busy
<1>4. IsFiniteSet(Taken) /\ IsFiniteSet(Deciding) /\ IsFiniteSet(Uncounted)
      /\ Cardinality(Uncounted) <= Cardinality(Subs)
  BY <1>1, <1>3, FS_Subset
<1>5. IsFiniteSet(Busy)
  BY <1>2, <1>3, FS_Subset
<1>6. QED
  BY <1>1, <1>4, <1>5, FS_CardinalityType

\* A stream task that is neither deciding nor uncounted leaves room for one
\* more among those that are.
LEMMA OthersInFlight ==
  ASSUME NEW s \in Subs, s \notin Deciding, s \notin Uncounted
  PROVE  Cardinality(Uncounted) + Cardinality(Deciding) + 1 <= Cardinality(Subs)
<1> DEFINE All == Uncounted \cup Deciding
<1>1. Uncounted \cap Deciding = {}
  BY DEF Uncounted, Deciding
<1>2. IsFiniteSet(All) /\ Cardinality(All) = Cardinality(Uncounted) + Cardinality(Deciding)
  <2>1. IsFiniteSet(Uncounted) /\ IsFiniteSet(Deciding)
        /\ Cardinality(Uncounted) \in Nat /\ Cardinality(Deciding) \in Nat
    BY Finiteness
  <2>2. Cardinality(Uncounted \cap Deciding) = 0
    BY <1>1, FS_EmptySet
  <2>3. /\ IsFiniteSet(All)
        /\ Cardinality(All) = Cardinality(Uncounted) + Cardinality(Deciding)
                                - Cardinality(Uncounted \cap Deciding)
    BY <2>1, FS_Union
  <2>4. QED
    BY <2>1, <2>2, <2>3
<1>3. Cardinality(All \cup {s}) = Cardinality(All) + 1
  <2>1. s \notin All
    OBVIOUS
  <2>2. QED
    BY <1>2, <2>1, FS_AddElement
<1>4. All \cup {s} \subseteq Subs
  BY DEF Uncounted, Deciding
<1>5. Cardinality(All \cup {s}) <= Cardinality(Subs)
  BY <1>4, SubsAssumption, FS_Subset
<1>6. QED
  BY <1>2, <1>3, <1>5, Finiteness

-----------------------------------------------------------------------------
(* How a move of a stream task, a thread or a task changes the counts. *)

\* The difference that entering or leaving a set of states makes.
Step(entered, left) ==
  (IF entered THEN 1 ELSE 0) - (IF left THEN 1 ELSE 0)

\* A move of the stream task of s changes who is deciding and who is uncounted
\* by s alone.
LEMMA StreamMove ==
  ASSUME TypeOK, NEW s \in Subs, NEW from, NEW to, StreamGoes(s, from, to)
  PROVE  /\ Cardinality(Deciding') =
              Cardinality(Deciding) + Step(to \in {"push", "admit"}, from \in {"push", "admit"})
         /\ Cardinality(Uncounted') =
              Cardinality(Uncounted) + Step(to = "count", from = "count")
<1>1. stream[s] = from /\ stream'[s] = to /\ \A r \in Subs \ {s} : stream'[r] = stream[r]
  BY DEF TypeOK, StreamGoes
<1>2. Deciding' \ {s} = Deciding \ {s} /\ Uncounted' \ {s} = Uncounted \ {s}
  BY <1>1 DEF Deciding, Uncounted
<1>3. /\ s \in Deciding <=> from \in {"push", "admit"}
      /\ s \in Deciding' <=> to \in {"push", "admit"}
      /\ s \in Uncounted <=> from = "count"
      /\ s \in Uncounted' <=> to = "count"
  BY <1>1 DEF Deciding, Uncounted
<1>4. IsFiniteSet(Deciding) /\ Cardinality(Deciding) \in Nat
      /\ IsFiniteSet(Uncounted) /\ Cardinality(Uncounted) \in Nat
  BY Finiteness
<1>5. Cardinality(Deciding') =
        Cardinality(Deciding) + Step(to \in {"push", "admit"}, from \in {"push", "admit"})
  BY <1>2, <1>3, <1>4, CardMove DEF Step
<1>6. Cardinality(Uncounted') =
        Cardinality(Uncounted) + Step(to = "count", from = "count")
  BY <1>2, <1>3, <1>4, CardMove DEF Step
<1>7. QED
  BY <1>5, <1>6

\* A move of a processing thread changes the popped and still counted messages
\* by its own alone.
LEMMA WorkerMove ==
  ASSUME TypeOK, NEW t \in Subs, NEW from, NEW to, WorkerGoes(t, from, to)
  PROVE  Cardinality(Taken') = Cardinality(Taken) + Step(to = "sub", from = "sub")
<1>1. worker[t] = from /\ worker'[t] = to /\ \A r \in Subs \ {t} : worker'[r] = worker[r]
  BY DEF TypeOK, WorkerGoes
<1>2. Taken' \ {t} = Taken \ {t}
  BY <1>1 DEF Taken
<1>3. (t \in Taken <=> from = "sub") /\ (t \in Taken' <=> to = "sub")
  BY <1>1 DEF Taken
<1>4. IsFiniteSet(Taken) /\ Cardinality(Taken) \in Nat
  BY Finiteness
<1>5. QED
  BY <1>2, <1>3, <1>4, CardMove DEF Step

\* A move of a spawned task changes the permits in use by its own alone.
LEMMA TaskMove ==
  ASSUME TypeOK, NEW m \in Msg, NEW from, NEW to, TaskGoes(m, from, to)
  PROVE  Cardinality(Busy') =
           Cardinality(Busy) + Step(to \in {"run", "release", "panicked"},
                                    from \in {"run", "release", "panicked"})
<1>1. task[m] = from /\ task'[m] = to /\ \A k \in Msg \ {m} : task'[k] = task[k]
  BY DEF TypeOK, TaskGoes
<1>2. Busy' \ {m} = Busy \ {m}
  BY <1>1 DEF Busy
<1>3. /\ m \in Busy <=> from \in {"run", "release", "panicked"}
      /\ m \in Busy' <=> to \in {"run", "release", "panicked"}
  BY <1>1 DEF Busy
<1>4. IsFiniteSet(Busy) /\ Cardinality(Busy) \in Nat
  BY Finiteness
<1>5. QED
  BY <1>2, <1>3, <1>4, CardMove DEF Step

-----------------------------------------------------------------------------
(* Type correctness. *)

TypeInv == TypeOK /\ InHandReceived

\* What the stream task has in hand is a message.
LEMMA CurrentIsMsg ==
  ASSUME TypeInv, NEW s \in Subs, stream[s] \notin {"off", "recv", "ended"}
  PROVE  Current(s) \in Msg
<1>1. seen[s] \in 1..MaxMsgs
  BY MaxMsgsAssumption DEF TypeInv, TypeOK, InHandReceived
<1>2. QED
  BY <1>1 DEF Current, Msg

\* The counter stays a usize.
LEMMA CounterType ==
  ASSUME TypeOK
  PROVE  Incremented \in 0..(W - 1) /\ Decremented \in 0..(W - 1)
BY WidthAssumption DEF TypeOK, Incremented, Decremented

\* Every step keeps the types, and keeps what a task or a thread holds a message.
LEMMA TypeInvStep == TypeInv /\ [Next]_vars => TypeInv'
<1> SUFFICES ASSUME TypeInv, [Next]_vars
             PROVE  TypeInv'
  OBVIOUS
<1> USE DEF TypeInv, TypeOK, InHandReceived, StreamState, WorkerState, TaskState,
            shared, streams, workers
<1>1. ASSUME NEW s \in Subs, Start(s)
      PROVE  TypeInv'
  BY <1>1 DEF Start, StreamGoes, WorkerGoes
<1>2. ASSUME NEW s \in Subs, Receive(s)
      PROVE  TypeInv'
  BY <1>2, MaxMsgsAssumption DEF Receive, StreamGoes
<1>3. ASSUME NEW s \in Subs, StreamEnds(s)
      PROVE  TypeInv'
  BY <1>3 DEF StreamEnds, StreamGoes
<1>4. ASSUME NEW s \in Subs, BlockLoad(s)
      PROVE  TypeInv'
  BY <1>4 DEF BlockLoad, StreamGoes
<1>5. ASSUME NEW s \in Subs, BlockRetry(s) \/ BlockAborted(s)
      PROVE  TypeInv'
  BY <1>5 DEF BlockRetry, BlockAborted, StreamGoes
<1>6. ASSUME NEW s \in Subs, BlockPush(s)
      PROVE  TypeInv'
  <2>1. Current(s) \in Msg
    BY <1>6, CurrentIsMsg DEF BlockPush, StreamGoes
  <2>2. queue' \in Seq(Msg)
    BY <1>6, <2>1 DEF BlockPush
  <2>3. QED
    BY <1>6, <2>2 DEF BlockPush, StreamGoes
<1>7. ASSUME NEW s \in Subs, BlockCount(s)
      PROVE  TypeInv'
  BY <1>7, CounterType DEF BlockCount, StreamGoes
<1>8. ASSUME NEW s \in Subs, DropLoad(s)
      PROVE  TypeInv'
  <2>1. Current(s) \in Msg
    BY <1>8, CurrentIsMsg DEF DropLoad, StreamGoes
  <2>2. QED
    BY <1>8, <2>1 DEF DropLoad, StreamGoes
<1>9. ASSUME NEW s \in Subs, DropSpawn(s)
      PROVE  TypeInv'
  BY <1>9, CounterType DEF DropSpawn, StreamGoes, TaskGoes
<1>10. ASSUME NEW m \in Msg, TaskProcess(m)
       PROVE  TypeInv'
  <2>1. m[1] \in Subs
    BY DEF Msg
  <2>2. calls' \in [Subs -> Seq(Msg)]
    BY <1>10, <2>1 DEF TaskProcess, InvokeCallback
  <2>3. QED
    BY <1>10, <2>2 DEF TaskProcess, TaskGoes
<1>11. ASSUME NEW m \in Msg, TaskPanics(m)
       PROVE  TypeInv'
  BY <1>11 DEF TaskPanics, TaskGoes
<1>12. ASSUME NEW m \in Msg, TaskRelease(m)
       PROVE  TypeInv'
  BY <1>12, CounterType DEF TaskRelease, TaskGoes
<1>13. ASSUME NEW t \in Subs, WorkerCheck(t) \/ WorkerFindsNothing(t)
       PROVE  TypeInv'
  BY <1>13 DEF WorkerCheck, WorkerFindsNothing, WorkerGoes
<1>14. ASSUME NEW t \in Subs, WorkerPop(t)
       PROVE  TypeInv'
  <2>1. Head(queue) \in Msg /\ Tail(queue) \in Seq(Msg)
    BY <1>14 DEF WorkerPop
  <2>2. QED
    BY <1>14, <2>1 DEF WorkerPop, WorkerGoes
<1>15. ASSUME NEW t \in Subs, WorkerUncount(t)
       PROVE  TypeInv'
  BY <1>15, CounterType DEF WorkerUncount, WorkerGoes
<1>16. ASSUME NEW t \in Subs, WorkerProcess(t)
       PROVE  TypeInv'
  <2>1. held[t] \in Msg
    BY <1>16 DEF WorkerProcess, WorkerGoes
  <2>2. calls' \in [Subs -> Seq(Msg)]
    BY <1>16, <2>1 DEF WorkerProcess, InvokeCallback
  <2>3. QED
    BY <1>16, <2>2 DEF WorkerProcess, WorkerGoes
<1>17. ASSUME NEW t \in Subs, WorkerPanics(t)
       PROVE  TypeInv'
  BY <1>17 DEF WorkerPanics, WorkerGoes
<1>18. CASE StopProcessing
  BY <1>18 DEF StopProcessing
<1>19. CASE UNCHANGED vars
  BY <1>19 DEF vars
<1>20. QED
  BY <1>1, <1>2, <1>3, <1>4, <1>5, <1>6, <1>7, <1>8, <1>9, <1>10, <1>11, <1>12,
     <1>13, <1>14, <1>15, <1>16, <1>17, <1>18, <1>19
     DEF Next, Stream, Offer, Worker, Task

\* The initial state is well typed.
LEMMA InitTypeInv == Init => TypeInv
<1> SUFFICES ASSUME Init
             PROVE  TypeInv
  OBVIOUS
<1>1. 0 \in 0..(W - 1)
  BY Finiteness, WidthAssumption, PermitsAssumption
<1>2. TypeOK
  <2>1. <<>> \in Seq(Msg)
    OBVIOUS
  <2>2. calls \in [Subs -> Seq(Msg)]
    BY <2>1 DEF Init
  <2>3. /\ stream \in [Subs -> StreamState] /\ worker \in [Subs -> WorkerState]
        /\ task \in [Msg -> TaskState]
    BY DEF Init, StreamState, WorkerState, TaskState
  <2>4. /\ seen \in [Subs -> 0..MaxMsgs] /\ held \in [Subs -> Msg \cup {NoMsg}]
    BY MaxMsgsAssumption DEF Init
  <2>5. QED
    BY <1>1, <2>1, <2>2, <2>3, <2>4 DEF Init, TypeOK
<1>3. InHandReceived
  BY DEF Init, InHandReceived
<1>4. QED
  BY <1>2, <1>3 DEF TypeInv

\* Every reachable state is well typed.
THEOREM TypeCorrect == Spec => []TypeOK
<1>1. TypeInv => TypeOK
  BY DEF TypeInv
<1>2. QED
  BY <1>1, InitTypeInv, TypeInvStep, PTL DEF Spec

-----------------------------------------------------------------------------
(* The counter and the admission bound. *)

\* What the two parts of the invariant say together, about numbers alone.
CountInv == PendingAccurate /\ AdmissionBounded

CountsAreNat ==
  /\ Len(queue) \in Nat /\ Cardinality(Taken) \in Nat
  /\ Cardinality(Busy) \in Nat /\ Cardinality(Deciding) \in Nat
  /\ Cardinality(Uncounted) \in Nat /\ Cardinality(Subs) \in Nat
  /\ Permits \in Nat

\* The quantities that the invariant relates.
LEMMA CountTypes ==
  ASSUME TypeOK
  PROVE  /\ Len(queue) \in Nat /\ Cardinality(Taken) \in Nat
         /\ Cardinality(Busy) \in Nat /\ Cardinality(Deciding) \in Nat
         /\ Cardinality(Uncounted) \in Nat /\ Cardinality(Subs) \in Nat \ {0}
         /\ Cardinality(Uncounted) <= Cardinality(Subs)
         /\ pending \in 0..(W - 1) /\ Permits \in Nat /\ W \in Nat
         /\ Permits + Cardinality(Subs) <= W
BY Finiteness, PermitsAssumption, WidthAssumption DEF TypeOK

\* A step that moves no message in or out of what the invariant counts, and
\* leaves the counter alone, keeps it.
LEMMA CountUnchanged ==
  ASSUME TypeOK, CountInv, pending' = pending,
         Len(queue') = Len(queue), Cardinality(Taken') = Cardinality(Taken),
         Cardinality(Busy') = Cardinality(Busy),
         Cardinality(Deciding') = Cardinality(Deciding),
         Cardinality(Uncounted') = Cardinality(Uncounted)
  PROVE  CountInv'
BY DEF CountInv, PendingAccurate, AdmissionBounded, Backlog, Wrapped, Capacity

\* The load that lets a message in: the counter read below permits is the true
\* backlog (a backlog below zero reads as a number close to W), so there is
\* room for the message even if every other stream has passed its load too.
LEMMA LoadKeepsCount ==
  ASSUME TypeInv, CountInv, NEW s \in Subs, stream[s] = "load", pending < Permits,
         pending' = pending, queue' = queue,
         Cardinality(Taken') = Cardinality(Taken),
         Cardinality(Busy') = Cardinality(Busy),
         Cardinality(Deciding') = Cardinality(Deciding) + 1,
         Cardinality(Uncounted') = Cardinality(Uncounted)
  PROVE  CountInv'
<1>0. CountsAreNat
  BY CountTypes DEF CountsAreNat, TypeInv
<1> USE DEF CountsAreNat
<1>1. TypeOK
  BY DEF TypeInv
<1>2. Cardinality(Uncounted) + Cardinality(Deciding) + 1 <= Cardinality(Subs)
  <2>1. s \notin Deciding /\ s \notin Uncounted
    BY DEF Deciding, Uncounted
  <2>2. QED
    BY <2>1, OthersInFlight
<1>3. Backlog >= 0 /\ Backlog < Permits
  BY <1>1, CountTypes DEF CountInv, PendingAccurate, Backlog, Wrapped
<1>4. AdmissionBounded'
  <2>1. Len(queue) + Cardinality(Taken) + Cardinality(Busy) - Cardinality(Uncounted) < Permits
    BY <1>3 DEF Backlog
  <2>2. Len(queue) + Cardinality(Taken) + Cardinality(Busy) + Cardinality(Deciding) + 1
          <= Permits + Cardinality(Subs) - 1
    BY <1>0, <1>2, <2>1
  <2>3. Len(queue') + Cardinality(Taken') + Cardinality(Busy') + Cardinality(Deciding')
          <= Permits + Cardinality(Subs) - 1
    BY <1>0, <2>2
  <2>4. QED
    BY <2>3 DEF AdmissionBounded, Capacity
<1>5. PendingAccurate'
  BY <1>1, CountTypes DEF CountInv, PendingAccurate, Backlog, Wrapped
<1>6. QED
  BY <1>4, <1>5 DEF CountInv

\* Adding one below w - 1, or to a negative number seen modulo w, is adding one
\* modulo w; subtracting one likewise.
LEMMA WrapArithmetic ==
  ASSUME NEW n \in Int, NEW w \in Nat, NEW p \in Int,
         p = IF n < 0 THEN n + w ELSE n
  PROVE  /\ n + w >= 0 /\ n + 1 < w =>
              (IF p = w - 1 THEN 0 ELSE p + 1) = (IF n + 1 < 0 THEN n + 1 + w ELSE n + 1)
         /\ n + w > 0 /\ n < w =>
              (IF p = 0 THEN w - 1 ELSE p - 1) = (IF n - 1 < 0 THEN n - 1 + w ELSE n - 1)
OBVIOUS

\* The backlog is never so far below zero, nor so high, that it would be taken
\* for another number modulo W.
LEMMA BacklogRange ==
  ASSUME TypeOK, CountInv
  PROVE  /\ Backlog \in Int /\ Capacity \in Int /\ Capacity < W /\ W \in Nat
         /\ Backlog + W >= 0
         /\ Backlog <= Capacity
         /\ pending \in Int /\ pending = Wrapped(Backlog)
<1>0. CountsAreNat /\ W \in Nat
  BY CountTypes DEF CountsAreNat
<1> USE DEF CountsAreNat
<1>1. Cardinality(Uncounted) <= Cardinality(Subs) /\ Permits + Cardinality(Subs) <= W
  BY CountTypes
<1>2. Len(queue) + Cardinality(Taken) + Cardinality(Busy) + Cardinality(Deciding)
        <= Permits + Cardinality(Subs) - 1
  BY DEF CountInv, AdmissionBounded, Capacity
<1>3. Backlog \in Int /\ Capacity \in Int /\ Capacity < W
  BY <1>0, <1>1 DEF Backlog, Capacity
<1>4. Backlog + W >= 0
  BY <1>0, <1>1 DEF Backlog
<1>5. Backlog <= Capacity
  BY <1>0, <1>2 DEF Backlog, Capacity
<1>6. pending \in Int /\ pending = Wrapped(Backlog)
  BY CountTypes DEF CountInv, PendingAccurate
<1>7. QED
  BY <1>0, <1>3, <1>4, <1>5, <1>6

\* fetch_add follows a backlog that grows by one.
LEMMA IncrementKeepsPending ==
  ASSUME TypeOK, CountInv, pending' = Incremented, Backlog' = Backlog + 1,
         Backlog + 1 <= Capacity
  PROVE  PendingAccurate'
<1>1. Backlog + 1 < W
  BY BacklogRange
<1>2. pending = IF Backlog < 0 THEN Backlog + W ELSE Backlog
  BY BacklogRange DEF Wrapped
<1>3. Incremented = IF Backlog + 1 < 0 THEN Backlog + 1 + W ELSE Backlog + 1
  BY <1>1, <1>2, BacklogRange, WrapArithmetic DEF Incremented
<1>4. QED
  BY <1>3 DEF PendingAccurate, Wrapped

\* fetch_sub follows a backlog that shrinks by one.
LEMMA DecrementKeepsPending ==
  ASSUME TypeOK, CountInv, pending' = Decremented, Backlog' = Backlog - 1,
         Backlog + W > 0
  PROVE  PendingAccurate'
<1>1. Backlog < W
  BY BacklogRange
<1>2. pending = IF Backlog < 0 THEN Backlog + W ELSE Backlog
  BY BacklogRange DEF Wrapped
<1>3. Decremented = IF Backlog - 1 < 0 THEN Backlog - 1 + W ELSE Backlog - 1
  BY <1>1, <1>2, BacklogRange, WrapArithmetic DEF Decremented
<1>4. QED
  BY <1>3 DEF PendingAccurate, Wrapped

-----------------------------------------------------------------------------
(* The inductive step, one action at a time. *)

\* What the state of nobody changes, the counts do not see.
LEMMA SameCounts ==
  /\ stream' = stream => Deciding' = Deciding /\ Uncounted' = Uncounted
  /\ worker' = worker => Taken' = Taken
  /\ task' = task => Busy' = Busy
BY DEF Deciding, Uncounted, Taken, Busy

\* A push counts for the producer until it has counted it itself.
LEMMA PushKeepsCount ==
  ASSUME TypeInv, CountInv, NEW s \in Subs, BlockPush(s)
  PROVE  CountInv'
<1>0. CountsAreNat
  BY CountTypes DEF CountsAreNat, TypeInv
<1> USE DEF CountsAreNat
<1>1. Len(queue') = Len(queue) + 1 /\ pending' = pending
  <2>1. Current(s) \in Msg
    BY CurrentIsMsg DEF BlockPush, StreamGoes
  <2>2. QED
    BY <2>1 DEF BlockPush, TypeInv, TypeOK
<1>2. /\ Cardinality(Deciding') = Cardinality(Deciding) - 1
      /\ Cardinality(Uncounted') = Cardinality(Uncounted) + 1
  BY <1>0, StreamMove DEF BlockPush, TypeInv, Step
<1>3. Cardinality(Taken') = Cardinality(Taken) /\ Cardinality(Busy') = Cardinality(Busy)
  BY SameCounts DEF BlockPush, workers
<1>4. Backlog' = Backlog
  BY <1>0, <1>1, <1>2, <1>3 DEF Backlog
<1>5. PendingAccurate'
  BY <1>1, <1>4 DEF CountInv, PendingAccurate, Wrapped
<1>6. AdmissionBounded'
  BY <1>0, <1>1, <1>2, <1>3 DEF CountInv, AdmissionBounded, Capacity
<1>7. QED
  BY <1>5, <1>6 DEF CountInv

\* fetch_add after the push: the backlog grows by what was uncounted.
LEMMA CountKeepsCount ==
  ASSUME TypeInv, CountInv, NEW s \in Subs, BlockCount(s)
  PROVE  CountInv'
<1>0. CountsAreNat
  BY CountTypes DEF CountsAreNat, TypeInv
<1> USE DEF CountsAreNat
<1>1. queue' = queue /\ pending' = Incremented
  BY DEF BlockCount
<1>2. /\ Cardinality(Deciding') = Cardinality(Deciding)
      /\ Cardinality(Uncounted') = Cardinality(Uncounted) - 1
  BY <1>0, StreamMove DEF BlockCount, TypeInv, Step
<1>3. Cardinality(Taken') = Cardinality(Taken) /\ Cardinality(Busy') = Cardinality(Busy)
  BY SameCounts DEF BlockCount, workers
<1>4. Backlog' = Backlog + 1
  BY <1>0, <1>1, <1>2, <1>3 DEF Backlog
<1>5. Backlog + 1 <= Capacity
  <2>1. s \in Uncounted
    BY DEF Uncounted, BlockCount, StreamGoes
  <2>2. Cardinality(Uncounted) # 0
    BY <2>1, Finiteness, FS_EmptySet
  <2>3. Len(queue) + Cardinality(Taken) + Cardinality(Busy) + Cardinality(Deciding)
          <= Permits + Cardinality(Subs) - 1
    BY DEF CountInv, AdmissionBounded, Capacity
  <2>4. QED
    BY <1>0, <2>2, <2>3 DEF Backlog, Capacity
<1>6. PendingAccurate'
  BY <1>1, <1>4, <1>5, IncrementKeepsPending DEF TypeInv
<1>7. AdmissionBounded'
  BY <1>0, <1>1, <1>2, <1>3 DEF CountInv, AdmissionBounded, Capacity
<1>8. QED
  BY <1>6, <1>7 DEF CountInv

\* fetch_add and spawn: a deciding stream's room becomes a task's permit.
LEMMA SpawnKeepsCount ==
  ASSUME TypeInv, CountInv, NEW s \in Subs, DropSpawn(s)
  PROVE  CountInv'
<1>0. CountsAreNat
  BY CountTypes DEF CountsAreNat, TypeInv
<1> USE DEF CountsAreNat
<1>1. queue' = queue /\ pending' = Incremented
  BY DEF DropSpawn
<1>2. /\ Cardinality(Deciding') = Cardinality(Deciding) - 1
      /\ Cardinality(Uncounted') = Cardinality(Uncounted)
  BY <1>0, StreamMove DEF DropSpawn, TypeInv, Step
<1>3. Cardinality(Busy') = Cardinality(Busy) + 1
  <2>1. Current(s) \in Msg
    BY CurrentIsMsg DEF DropSpawn, StreamGoes
  <2>2. QED
    BY <1>0, <2>1, TaskMove DEF DropSpawn, TypeInv, Step
<1>4. Cardinality(Taken') = Cardinality(Taken)
  BY SameCounts DEF DropSpawn, workers
<1>5. Backlog' = Backlog + 1
  BY <1>0, <1>1, <1>2, <1>3, <1>4 DEF Backlog
<1>6. Backlog + 1 <= Capacity
  <2>1. s \in Deciding
    BY DEF Deciding, DropSpawn, StreamGoes
  <2>2. Cardinality(Deciding) # 0
    BY <2>1, Finiteness, FS_EmptySet
  <2>3. Len(queue) + Cardinality(Taken) + Cardinality(Busy) + Cardinality(Deciding)
          <= Permits + Cardinality(Subs) - 1
    BY DEF CountInv, AdmissionBounded, Capacity
  <2>4. QED
    BY <1>0, <2>2, <2>3 DEF Backlog, Capacity
<1>7. PendingAccurate'
  BY <1>1, <1>5, <1>6, IncrementKeepsPending DEF TypeInv
<1>8. AdmissionBounded'
  BY <1>0, <1>1, <1>2, <1>3, <1>4 DEF CountInv, AdmissionBounded, Capacity
<1>9. QED
  BY <1>7, <1>8 DEF CountInv

\* A popped message stays counted until fetch_sub.
LEMMA PopKeepsCount ==
  ASSUME TypeInv, CountInv, NEW t \in Subs, WorkerPop(t)
  PROVE  CountInv'
<1>0. CountsAreNat
  BY CountTypes DEF CountsAreNat, TypeInv
<1> USE DEF CountsAreNat
<1>1. Len(queue') = Len(queue) - 1 /\ pending' = pending
  BY DEF WorkerPop, TypeInv, TypeOK
<1>2. Cardinality(Taken') = Cardinality(Taken) + 1
  BY <1>0, WorkerMove DEF WorkerPop, TypeInv, Step
<1>3. /\ Cardinality(Deciding') = Cardinality(Deciding)
      /\ Cardinality(Uncounted') = Cardinality(Uncounted)
      /\ Cardinality(Busy') = Cardinality(Busy)
  BY SameCounts DEF WorkerPop, streams
<1>4. Backlog' = Backlog
  BY <1>0, <1>1, <1>2, <1>3 DEF Backlog
<1>5. PendingAccurate'
  BY <1>1, <1>4 DEF CountInv, PendingAccurate, Wrapped
<1>6. AdmissionBounded'
  BY <1>0, <1>1, <1>2, <1>3 DEF CountInv, AdmissionBounded, Capacity
<1>7. QED
  BY <1>5, <1>6 DEF CountInv

\* fetch_sub by a processing thread, possibly below zero.
LEMMA UncountKeepsCount ==
  ASSUME TypeInv, CountInv, NEW t \in Subs, WorkerUncount(t)
  PROVE  CountInv'
<1>0. CountsAreNat
  BY CountTypes DEF CountsAreNat, TypeInv
<1> USE DEF CountsAreNat
<1>1. queue' = queue /\ pending' = Decremented
  BY DEF WorkerUncount
<1>2. Cardinality(Taken') = Cardinality(Taken) - 1
  BY <1>0, WorkerMove DEF WorkerUncount, TypeInv, Step
<1>3. /\ Cardinality(Deciding') = Cardinality(Deciding)
      /\ Cardinality(Uncounted') = Cardinality(Uncounted)
      /\ Cardinality(Busy') = Cardinality(Busy)
  BY SameCounts DEF WorkerUncount, streams
<1>4. Backlog' = Backlog - 1
  BY <1>0, <1>1, <1>2, <1>3 DEF Backlog
<1>5. Backlog + W > 0
  <2>1. t \in Taken
    BY DEF Taken, WorkerUncount, WorkerGoes
  <2>2. Cardinality(Taken) # 0
    BY <2>1, Finiteness, FS_EmptySet
  <2>3. W \in Nat /\ Cardinality(Uncounted) <= Cardinality(Subs)
        /\ Permits + Cardinality(Subs) <= W
    BY CountTypes DEF TypeInv
  <2>4. Cardinality(Uncounted) <= W
    BY <1>0, <2>3
  <2>5. QED
    BY <1>0, <2>2, <2>3, <2>4 DEF Backlog
<1>6. PendingAccurate'
  BY <1>1, <1>4, <1>5, DecrementKeepsPending DEF TypeInv
<1>7. AdmissionBounded'
  BY <1>0, <1>1, <1>2, <1>3 DEF CountInv, AdmissionBounded, Capacity
<1>8. QED
  BY <1>6, <1>7 DEF CountInv

\* fetch_sub by a task that has finished.
LEMMA ReleaseKeepsCount ==
  ASSUME TypeInv, CountInv, NEW m \in Msg, TaskRelease(m)
  PROVE  CountInv'
<1>0. CountsAreNat
  BY CountTypes DEF CountsAreNat, TypeInv
<1> USE DEF CountsAreNat
<1>1. queue' = queue /\ pending' = Decremented
  BY DEF TaskRelease
<1>2. Cardinality(Busy') = Cardinality(Busy) - 1
  BY <1>0, TaskMove DEF TaskRelease, TypeInv, Step
<1>3. /\ Cardinality(Deciding') = Cardinality(Deciding)
      /\ Cardinality(Uncounted') = Cardinality(Uncounted)
      /\ Cardinality(Taken') = Cardinality(Taken)
  BY SameCounts DEF TaskRelease, streams, workers
<1>4. Backlog' = Backlog - 1
  BY <1>0, <1>1, <1>2, <1>3 DEF Backlog
<1>5. Backlog + W > 0
  <2>1. m \in Busy
    BY DEF Busy, TaskRelease, TaskGoes
  <2>2. Cardinality(Busy) # 0
    BY <2>1, Finiteness, FS_EmptySet
  <2>3. W \in Nat /\ Cardinality(Uncounted) <= Cardinality(Subs)
        /\ Permits + Cardinality(Subs) <= W
    BY CountTypes DEF TypeInv
  <2>4. Cardinality(Uncounted) <= W
    BY <1>0, <2>3
  <2>5. QED
    BY <1>0, <2>2, <2>3, <2>4 DEF Backlog
<1>6. PendingAccurate'
  BY <1>1, <1>4, <1>5, DecrementKeepsPending DEF TypeInv
<1>7. AdmissionBounded'
  BY <1>0, <1>1, <1>2, <1>3 DEF CountInv, AdmissionBounded, Capacity
<1>8. QED
  BY <1>6, <1>7 DEF CountInv

\* Passing the load: Block and Drop admit in the same way.
LEMMA LoadStep ==
  ASSUME TypeInv, CountInv, NEW s \in Subs, BlockLoad(s) \/ DropLoad(s)
  PROVE  CountInv'
<1>0. CountsAreNat
  BY CountTypes DEF CountsAreNat, TypeInv
<1> USE DEF CountsAreNat
<1>1. /\ queue' = queue /\ pending' = pending /\ stream[s] = "load"
      /\ Cardinality(Taken') = Cardinality(Taken)
      /\ Cardinality(Busy') = Cardinality(Busy)
  BY SameCounts DEF BlockLoad, DropLoad, StreamGoes, shared, workers
<1>2. CASE pending < Permits
  <2>1. PICK to \in {"push", "admit"} : StreamGoes(s, "load", to)
    BY <1>2, CountTypes DEF BlockLoad, DropLoad, TypeInv
  <2>2. /\ Cardinality(Deciding') = Cardinality(Deciding) + 1
        /\ Cardinality(Uncounted') = Cardinality(Uncounted)
    BY <1>0, <2>1, StreamMove DEF TypeInv, Step
  <2>3. QED
    BY <1>1, <1>2, <2>2, LoadKeepsCount
<1>3. CASE ~(pending < Permits)
  <2>1. PICK to \in {"yield", "recv"} : StreamGoes(s, "load", to)
    BY <1>3, CountTypes DEF BlockLoad, DropLoad, TypeInv
  <2>2. /\ Cardinality(Deciding') = Cardinality(Deciding)
        /\ Cardinality(Uncounted') = Cardinality(Uncounted)
    BY <1>0, <2>1, StreamMove DEF TypeInv, Step
  <2>3. QED
    BY <1>1, <2>2, CountUnchanged DEF TypeInv
<1>4. QED
  BY <1>2, <1>3

\* The stream task's other moves pass through no counted state.
LEMMA OtherStreamStep ==
  ASSUME TypeInv, CountInv, NEW s \in Subs,
         Start(s) \/ Receive(s) \/ StreamEnds(s) \/ BlockRetry(s) \/ BlockAborted(s)
  PROVE  CountInv'
<1>0. CountsAreNat
  BY CountTypes DEF CountsAreNat, TypeInv
<1> USE DEF CountsAreNat
<1>1. queue' = queue /\ pending' = pending /\ Cardinality(Busy') = Cardinality(Busy)
  BY SameCounts DEF Start, Receive, StreamEnds, BlockRetry, BlockAborted, shared
<1>2. PICK from \in {"off", "recv", "yield"}, to \in {"recv", "load", "ended", "cancelled"} :
        StreamGoes(s, from, to)
  BY DEF Start, Receive, StreamEnds, BlockRetry, BlockAborted
<1>3. /\ Cardinality(Deciding') = Cardinality(Deciding)
      /\ Cardinality(Uncounted') = Cardinality(Uncounted)
  BY <1>0, <1>2, StreamMove DEF TypeInv, Step
<1>4. Cardinality(Taken') = Cardinality(Taken)
  <2>1. CASE Start(s)
    BY <1>0, <2>1, WorkerMove DEF Start, TypeInv, Step
  <2>2. CASE ~Start(s)
    BY <2>2, SameCounts DEF Receive, StreamEnds, BlockRetry, BlockAborted, workers
  <2>3. QED
    BY <2>1, <2>2
<1>5. QED
  BY <1>1, <1>3, <1>4, CountUnchanged DEF TypeInv

\* A processing thread's other moves leave the queue and the counter alone.
LEMMA OtherWorkerStep ==
  ASSUME TypeInv, CountInv, NEW t \in Subs,
         WorkerCheck(t) \/ WorkerFindsNothing(t) \/ WorkerProcess(t) \/ WorkerPanics(t)
  PROVE  CountInv'
<1>0. CountsAreNat
  BY CountTypes DEF CountsAreNat, TypeInv
<1> USE DEF CountsAreNat
<1>1. queue' = queue /\ pending' = pending
      /\ stream' = stream /\ task' = task
  BY DEF WorkerCheck, WorkerFindsNothing, WorkerProcess, WorkerPanics, shared, streams
<1>2. PICK from \in {"check", "pop", "run"}, to \in {"exited", "pop", "check", "panicked"} :
        WorkerGoes(t, from, to)
  BY DEF WorkerCheck, WorkerFindsNothing, WorkerProcess, WorkerPanics
<1>3. Cardinality(Taken') = Cardinality(Taken)
  BY <1>0, <1>2, WorkerMove DEF TypeInv, Step
<1>4. QED
  BY <1>1, <1>3, SameCounts, CountUnchanged DEF TypeInv

\* A task keeps its permit while it processes, and for ever if it panics.
LEMMA OtherTaskStep ==
  ASSUME TypeInv, CountInv, NEW m \in Msg, TaskProcess(m) \/ TaskPanics(m)
  PROVE  CountInv'
<1>0. CountsAreNat
  BY CountTypes DEF CountsAreNat, TypeInv
<1> USE DEF CountsAreNat
<1>1. queue' = queue /\ pending' = pending
      /\ stream' = stream /\ worker' = worker
  BY DEF TaskProcess, TaskPanics, shared, streams, workers
<1>2. PICK to \in {"release", "panicked"} : TaskGoes(m, "run", to)
  BY DEF TaskProcess, TaskPanics
<1>3. Cardinality(Busy') = Cardinality(Busy)
  BY <1>0, <1>2, TaskMove DEF TypeInv, Step
<1>4. QED
  BY <1>1, <1>3, SameCounts, CountUnchanged DEF TypeInv

\* Every step keeps the counter accurate and the admissions bounded.
LEMMA CountInvStep == TypeInv /\ CountInv /\ [Next]_vars => CountInv'
<1> SUFFICES ASSUME TypeInv, CountInv, [Next]_vars
             PROVE  CountInv'
  OBVIOUS
<1>1. ASSUME NEW s \in Subs, Stream(s)
      PROVE  CountInv'
  BY <1>1, OtherStreamStep, LoadStep, PushKeepsCount, CountKeepsCount, SpawnKeepsCount
     DEF Stream, Offer
<1>2. ASSUME NEW t \in Subs, Worker(t)
      PROVE  CountInv'
  BY <1>2, OtherWorkerStep, PopKeepsCount, UncountKeepsCount DEF Worker
<1>3. ASSUME NEW m \in Msg, Task(m)
      PROVE  CountInv'
  BY <1>3, OtherTaskStep, ReleaseKeepsCount DEF Task
<1>4. CASE StopProcessing \/ UNCHANGED vars
  <2>1. /\ queue' = queue /\ pending' = pending /\ stream' = stream
        /\ worker' = worker /\ task' = task
    BY <1>4 DEF StopProcessing, streams, workers, vars
  <2>2. QED
    BY <2>1, SameCounts, CountUnchanged DEF TypeInv
<1>5. QED
  BY <1>1, <1>2, <1>3, <1>4 DEF Next

\* IInv is inductive, so it holds in every reachable state.
THEOREM Invariance == Spec => []IInv
<1>1. Init => TypeInv /\ CountInv
  <2> SUFFICES ASSUME Init
               PROVE  TypeInv /\ CountInv
    OBVIOUS
  <2>1. TypeInv
    BY InitTypeInv
  <2>2. Taken = {} /\ Deciding = {} /\ Uncounted = {} /\ Busy = {}
    BY DEF Init, Taken, Deciding, Uncounted, Busy
  <2>3. /\ Len(queue) = 0 /\ pending = 0
        /\ Cardinality(Taken) = 0 /\ Cardinality(Deciding) = 0
        /\ Cardinality(Uncounted) = 0 /\ Cardinality(Busy) = 0
    BY <2>2, FS_EmptySet DEF Init
  <2>4. PendingAccurate
    BY <2>3 DEF PendingAccurate, Wrapped, Backlog
  <2>5. AdmissionBounded
    BY <2>3, Finiteness, PermitsAssumption DEF AdmissionBounded, Capacity
  <2>6. QED
    BY <2>1, <2>4, <2>5 DEF CountInv
<1>2. TypeInv /\ CountInv <=> IInv
  BY DEF TypeInv, CountInv, IInv
<1>3. QED
  BY <1>1, <1>2, TypeInvStep, CountInvStep, PTL DEF Spec

\* grpc_pending_count is the queue's length and the permits in use, off by
\* exactly the pushes not yet counted and the pops not yet uncounted.
THEOREM PendingIsAccurate == Spec => []PendingAccurate
<1>1. IInv => PendingAccurate
  BY DEF IInv
<1>2. QED
  BY <1>1, Invariance, PTL

\* With n streams at most permits + n - 1 messages are queued or being processed
\* by tasks; with one stream, never more than permits.
THEOREM BacklogIsBounded == Spec => []BacklogBounded
<1>1. IInv => BacklogBounded
  <2> SUFFICES ASSUME IInv
               PROVE  BacklogBounded
    OBVIOUS
  <2>0. CountsAreNat
    BY CountTypes DEF CountsAreNat, IInv
  <2>1. QED
    BY <2>0 DEF CountsAreNat, IInv, AdmissionBounded, BacklogBounded, Capacity
<1>2. QED
  BY <1>1, Invariance, PTL

-----------------------------------------------------------------------------
(* The order of one stream's messages under Block. *)

Before(m, n) == m[1] = n[1] => m[2] < n[2]

\* m is behind its stream: it is not the message in the stream task's hands.
Behind(m, count, state) ==
  /\ m[2] <= count[m[1]]
  /\ state[m[1]] \in {"load", "yield", "push"} => m[2] < count[m[1]]

\* Nothing is spawned; the queue is in order.
QueueOrder ==
  /\ \A s \in Subs : stream[s] # "admit"
  /\ \A m \in Msg : task[m] = "none"
  /\ \A i \in DOMAIN queue : Behind(queue[i], seen, stream)
  /\ \A i, j \in DOMAIN queue : i < j => Before(queue[i], queue[j])

\* What a thread has popped comes before what is queued.
HeldOrder ==
  \A t \in Subs : held[t] \in Msg =>
    /\ Behind(held[t], seen, stream)
    /\ \A i \in DOMAIN queue : Before(held[t], queue[i])

\* What a callback has been given comes before what its thread holds and before
\* what is queued.
CallsOrder ==
  \A t \in Subs : \A n \in DOMAIN calls[t] :
    /\ Behind(calls[t][n], seen, stream)
    /\ held[t] \in Msg => Before(calls[t][n], held[t])
    /\ \A i \in DOMAIN queue : Before(calls[t][n], queue[i])

OrderInv == QueueOrder /\ HeldOrder /\ CallsOrder /\ StreamOrderKept

\* A move of a stream task that queues nothing leaves every message behind it.
LEMMA StreamKeepsOrder ==
  ASSUME TypeInv, OrderInv, UNCHANGED <<queue, held, calls, task>>,
         \A s \in Subs : stream'[s] # "admit",
         \A m \in Msg : Behind(m, seen, stream) => Behind(m, seen', stream')
  PROVE  OrderInv'
<1>1. \A i \in DOMAIN queue : queue[i] \in Msg
  BY DEF TypeInv, TypeOK
<1>2. \A t \in Subs : \A n \in DOMAIN calls[t] : calls[t][n] \in Msg
  BY DEF TypeInv, TypeOK
<1>3. QueueOrder'
  BY <1>1 DEF OrderInv, QueueOrder, Before
<1>4. HeldOrder'
  BY DEF OrderInv, HeldOrder, Before
<1>5. CallsOrder'
  BY <1>2 DEF OrderInv, CallsOrder, Before
<1>6. StreamOrderKept'
  BY DEF OrderInv, StreamOrderKept
<1>7. QED
  BY <1>3, <1>4, <1>5, <1>6 DEF OrderInv

\* How the stream task's moves change what is behind it.
LEMMA StreamMoveBehind ==
  ASSUME TypeInv, OrderInv, NEW s \in Subs, NEW from, NEW to, StreamGoes(s, from, to),
         to # "admit", seen' = seen,
         to \in {"load", "yield", "push"} => from \in {"load", "yield", "push"},
         UNCHANGED <<queue, held, calls, task>>
  PROVE  OrderInv'
<1>1. stream[s] = from /\ stream'[s] = to /\ \A r \in Subs \ {s} : stream'[r] = stream[r]
  BY DEF TypeInv, TypeOK, StreamGoes
<1>2. \A m \in Msg : Behind(m, seen, stream) => Behind(m, seen', stream')
  BY <1>1 DEF Behind, Msg
<1>3. \A r \in Subs : stream'[r] # "admit"
  BY <1>1 DEF OrderInv, QueueOrder
<1>4. QED
  BY <1>2, <1>3, StreamKeepsOrder

\* What is pushed is younger than everything of its stream that is queued, held or
\* processed.
LEMMA PushKeepsOrder ==
  ASSUME TypeInv, OrderInv, NEW s \in Subs, BlockPush(s)
  PROVE  OrderInv'
<1> DEFINE m == Current(s)
<1>1. /\ stream[s] = "push" /\ stream'[s] = "count"
      /\ \A r \in Subs \ {s} : stream'[r] = stream[r]
      /\ UNCHANGED <<seen, held, calls, task>>
  BY DEF TypeInv, TypeOK, BlockPush, StreamGoes, streams, workers
<1>2. m \in Msg /\ m[1] = s /\ m[2] = seen[s] /\ seen[s] \in Nat
  <2>1. m \in Msg
    BY <1>1, CurrentIsMsg
  <2>2. QED
    BY <2>1, MaxMsgsAssumption DEF Current, TypeInv, TypeOK
<1>3. /\ queue \in Seq(Msg) /\ queue' = Append(queue, m)
      /\ \A i \in DOMAIN queue' : queue'[i] = m \/ (i \in DOMAIN queue /\ queue'[i] = queue[i])
      /\ \A i, j \in DOMAIN queue' : i < j => i \in DOMAIN queue
  <2>1. queue \in Seq(Msg) /\ queue' = Append(queue, m)
    BY DEF TypeInv, TypeOK, BlockPush
  <2> HIDE DEF m
  <2>2. QED
    BY <1>2, <2>1
<1>4. \A k \in Msg : Behind(k, seen, stream) => Behind(k, seen', stream') /\ Before(k, m)
  BY <1>1, <1>2 DEF Behind, Before, Msg
<1>5. Behind(m, seen', stream')
  BY <1>1, <1>2 DEF Behind
<1> HIDE DEF m
<1>6. \A i \in DOMAIN queue : queue[i] \in Msg
  BY <1>3
<1>7. \A t \in Subs : \A n \in DOMAIN calls[t] : calls[t][n] \in Msg
  BY DEF TypeInv, TypeOK
<1>8. QueueOrder'
  <2>1. /\ \A r \in Subs : stream'[r] # "admit"
        /\ \A k \in Msg : task'[k] = "none"
    BY <1>1 DEF OrderInv, QueueOrder
  <2>2. \A i \in DOMAIN queue' : Behind(queue'[i], seen', stream')
    BY <1>3, <1>4, <1>5, <1>6 DEF OrderInv, QueueOrder
  <2>3. \A i, j \in DOMAIN queue' : i < j => Before(queue'[i], queue'[j])
    <3> SUFFICES ASSUME NEW i \in DOMAIN queue', NEW j \in DOMAIN queue', i < j
                 PROVE  Before(queue'[i], queue'[j])
      OBVIOUS
    <3>1. i \in DOMAIN queue /\ queue'[i] = queue[i]
      BY <1>2, <1>3
    <3>2. CASE queue'[j] = m
      BY <1>4, <1>6, <3>1, <3>2 DEF OrderInv, QueueOrder
    <3>3. CASE j \in DOMAIN queue /\ queue'[j] = queue[j]
      BY <3>1, <3>3 DEF OrderInv, QueueOrder
    <3>4. QED
      BY <1>3, <3>2, <3>3
  <2>4. QED
    BY <2>1, <2>2, <2>3 DEF QueueOrder, Before
<1>9. HeldOrder'
  BY <1>1, <1>3, <1>4 DEF OrderInv, HeldOrder, Before
<1>10. CallsOrder'
  BY <1>1, <1>3, <1>4, <1>7 DEF OrderInv, CallsOrder, Before
<1>11. StreamOrderKept'
  BY <1>1 DEF OrderInv, StreamOrderKept
<1>12. QED
  BY <1>8, <1>9, <1>10, <1>11 DEF OrderInv

\* What is popped is older than everything of its stream that stays queued, and
\* younger than everything the callback has been given.
LEMMA PopKeepsOrder ==
  ASSUME TypeInv, OrderInv, NEW t \in Subs, WorkerPop(t)
  PROVE  OrderInv'
<1>1. UNCHANGED <<stream, seen, calls, task>>
  BY DEF WorkerPop, streams
<1>2. /\ held'[t] = queue[1] /\ queue[1] \in Msg /\ 1 \in DOMAIN queue
      /\ \A r \in Subs \ {t} : held'[r] = held[r]
  BY DEF WorkerPop, TypeInv, TypeOK
<1>3. \A i \in DOMAIN queue' : i \in Nat /\ i + 1 \in DOMAIN queue /\ 1 < i + 1 /\ queue'[i] = queue[i + 1]
  BY DEF WorkerPop, TypeInv, TypeOK
<1>4. \A m \in Msg : Behind(m, seen, stream) => Behind(m, seen', stream')
  BY <1>1 DEF Behind
<1>5. \A i \in DOMAIN queue : queue[i] \in Msg
  BY DEF TypeInv, TypeOK
<1>6. \A r \in Subs : \A n \in DOMAIN calls[r] : calls[r][n] \in Msg
  BY DEF TypeInv, TypeOK
<1>7. QueueOrder'
  <2>1. \A i \in DOMAIN queue' : Behind(queue'[i], seen', stream')
    BY <1>3, <1>4, <1>5 DEF OrderInv, QueueOrder
  <2>2. \A i, j \in DOMAIN queue' : i < j => Before(queue'[i], queue'[j])
    BY <1>3 DEF OrderInv, QueueOrder
  <2>3. QED
    BY <1>1, <2>1, <2>2 DEF OrderInv, QueueOrder, Before
<1>8. HeldOrder'
  <2>1. \A i \in DOMAIN queue' : Before(queue[1], queue'[i])
    BY <1>2, <1>3 DEF OrderInv, QueueOrder
  <2>2. Behind(queue[1], seen', stream')
    BY <1>2, <1>4 DEF OrderInv, QueueOrder
  <2>3. ASSUME NEW r \in Subs, held'[r] \in Msg
        PROVE  Behind(held'[r], seen', stream') /\ \A i \in DOMAIN queue' : Before(held'[r], queue'[i])
    BY <1>2, <1>3, <1>4, <2>1, <2>2, <2>3 DEF OrderInv, HeldOrder
  <2>4. QED
    BY <2>3 DEF HeldOrder, Before
<1>9. CallsOrder'
  <2>1. ASSUME NEW r \in Subs, NEW n \in DOMAIN calls[r]
        PROVE  /\ Behind(calls[r][n], seen', stream')
               /\ held'[r] \in Msg => Before(calls[r][n], held'[r])
               /\ \A i \in DOMAIN queue' : Before(calls[r][n], queue'[i])
    BY <1>1, <1>2, <1>3, <1>4, <1>6 DEF OrderInv, CallsOrder
  <2>2. QED
    BY <1>1, <2>1 DEF CallsOrder, Before
<1>10. StreamOrderKept'
  BY <1>1 DEF OrderInv, StreamOrderKept
<1>11. QED
  BY <1>7, <1>8, <1>9, <1>10 DEF OrderInv

\* What a callback is given is younger than all it has been given before.
LEMMA ProcessKeepsOrder ==
  ASSUME TypeInv, OrderInv, NEW t \in Subs, WorkerProcess(t)
  PROVE  OrderInv'
<1> DEFINE m == held[t]
<1>1. UNCHANGED <<stream, seen, queue, task>>
  BY DEF WorkerProcess, shared, streams
<1>2. /\ m \in Msg /\ held'[t] = NoMsg /\ NoMsg \notin Msg
      /\ \A r \in Subs \ {t} : held'[r] = held[r] /\ calls'[r] = calls[r]
      /\ calls[t] \in Seq(Msg) /\ calls'[t] = Append(calls[t], m)
  BY NoMsgAssumption DEF WorkerProcess, WorkerGoes, InvokeCallback, TypeInv, TypeOK, InHandReceived
<1> HIDE DEF m
<1>3. /\ \A n \in DOMAIN calls'[t] :
           calls'[t][n] = m \/ (n \in DOMAIN calls[t] /\ calls'[t][n] = calls[t][n])
      /\ \A i, j \in DOMAIN calls'[t] : i < j => i \in DOMAIN calls[t] /\ calls'[t][i] = calls[t][i]
  BY <1>2
<1>4. Behind(m, seen, stream) /\ \A i \in DOMAIN queue : Before(m, queue[i])
  BY <1>2 DEF OrderInv, HeldOrder, m
<1>5. \A n \in DOMAIN calls[t] : Before(calls[t][n], m)
  BY <1>2 DEF OrderInv, CallsOrder, m
<1>6. QueueOrder'
  BY <1>1 DEF OrderInv, QueueOrder, Behind, Before
<1>7. HeldOrder'
  BY <1>1, <1>2 DEF OrderInv, HeldOrder, Behind, Before
<1>8. CallsOrder'
  <2>1. ASSUME NEW r \in Subs, NEW n \in DOMAIN calls'[r]
        PROVE  /\ Behind(calls'[r][n], seen, stream)
               /\ held'[r] \in Msg => Before(calls'[r][n], held'[r])
               /\ \A i \in DOMAIN queue : Before(calls'[r][n], queue[i])
    <3>1. CASE r = t
      BY <1>2, <1>3, <1>4, <2>1, <3>1 DEF OrderInv, CallsOrder
    <3>2. CASE r # t
      BY <1>2, <2>1, <3>2 DEF OrderInv, CallsOrder
    <3>3. QED
      BY <3>1, <3>2
  <2>2. QED
    BY <1>1, <2>1 DEF CallsOrder, Behind, Before
<1>9. StreamOrderKept'
  <2>1. ASSUME NEW r \in Subs, NEW i \in DOMAIN calls'[r], NEW j \in DOMAIN calls'[r], i < j
        PROVE  Before(calls'[r][i], calls'[r][j])
    <3>1. CASE r = t
      <4>1. i \in DOMAIN calls[t] /\ calls'[t][i] = calls[t][i]
        BY <1>3, <2>1, <3>1
      <4>2. CASE calls'[t][j] = m
        BY <1>5, <3>1, <4>1, <4>2
      <4>3. CASE j \in DOMAIN calls[t] /\ calls'[t][j] = calls[t][j]
        BY <2>1, <3>1, <4>1, <4>3 DEF OrderInv, StreamOrderKept, Before
      <4>4. QED
        BY <1>3, <2>1, <3>1, <4>2, <4>3
    <3>2. CASE r # t
      BY <1>2, <2>1, <3>2 DEF OrderInv, StreamOrderKept, Before
    <3>3. QED
      BY <3>1, <3>2
  <2>2. QED
    BY <2>1 DEF StreamOrderKept, Before
<1>10. QED
  BY <1>6, <1>7, <1>8, <1>9 DEF OrderInv

LEMMA OrderStep ==
  ASSUME Strategy = "Block", TypeInv, OrderInv, [Next]_vars
  PROVE  OrderInv'
<1>1. ASSUME NEW s \in Subs, Start(s)
      PROVE  OrderInv'
  BY <1>1, StreamMoveBehind DEF Start
<1>2. ASSUME NEW s \in Subs, Receive(s)
      PROVE  OrderInv'
  <2>1. /\ stream'[s] = "load" /\ \A r \in Subs \ {s} : stream'[r] = stream[r]
        /\ seen'[s] = seen[s] + 1 /\ \A r \in Subs \ {s} : seen'[r] = seen[r]
        /\ seen[s] \in Nat
    BY <1>2, MaxMsgsAssumption DEF Receive, StreamGoes, TypeInv, TypeOK
  <2>2. \A m \in Msg : Behind(m, seen, stream) => Behind(m, seen', stream')
    BY <2>1, MaxMsgsAssumption DEF Behind, Msg
  <2>3. \A r \in Subs : stream'[r] # "admit"
    BY <2>1 DEF OrderInv, QueueOrder
  <2>4. QED
    BY <1>2, <2>2, <2>3, StreamKeepsOrder DEF Receive, shared, workers
<1>3. ASSUME NEW s \in Subs, StreamEnds(s) \/ BlockRetry(s) \/ BlockAborted(s)
      PROVE  OrderInv'
  BY <1>3, StreamMoveBehind DEF StreamEnds, BlockRetry, BlockAborted, shared, workers
<1>4. ASSUME NEW s \in Subs, BlockLoad(s)
      PROVE  OrderInv'
  BY <1>4, StreamMoveBehind DEF BlockLoad, shared, workers
<1>5. ASSUME NEW s \in Subs, BlockCount(s)
      PROVE  OrderInv'
  BY <1>5, StreamMoveBehind DEF BlockCount, workers
<1>6. ASSUME NEW s \in Subs, DropLoad(s) \/ DropSpawn(s)
      PROVE  FALSE
  BY <1>6 DEF DropLoad, DropSpawn, StreamGoes, OrderInv, QueueOrder
<1>7. ASSUME NEW m \in Msg, Task(m)
      PROVE  FALSE
  BY <1>7 DEF Task, TaskProcess, TaskPanics, TaskRelease, TaskGoes, OrderInv, QueueOrder
<1>8. ASSUME UNCHANGED <<stream, seen, queue, held, calls, task>>
      PROVE  OrderInv'
  BY <1>8, StreamKeepsOrder DEF Behind, OrderInv, QueueOrder
<1>9. ASSUME NEW t \in Subs, Worker(t)
      PROVE  OrderInv'
  BY <1>8, <1>9, PopKeepsOrder, ProcessKeepsOrder
     DEF Worker, WorkerCheck, WorkerFindsNothing, WorkerUncount, WorkerPanics, shared, streams
<1>10. CASE StopProcessing \/ UNCHANGED vars
  BY <1>8, <1>10 DEF StopProcessing, vars, streams, workers
<1>11. QED
  BY <1>1, <1>2, <1>3, <1>4, <1>5, <1>6, <1>7, <1>9, <1>10, PushKeepsOrder
     DEF Next, Stream, Offer

\* Under Block a callback gets the messages of a stream in the order in which the
\* stream yielded them, whoever else pushes and pops meanwhile.
THEOREM OrderIsKept ==
  ASSUME Strategy = "Block"
  PROVE  Spec => []StreamOrderKept
<1>1. Init => TypeInv /\ OrderInv
  <2> SUFFICES ASSUME Init
               PROVE  OrderInv
    BY InitTypeInv
  <2>1. DOMAIN queue = {} /\ \A t \in Subs : DOMAIN calls[t] = {} /\ held[t] \notin Msg
    BY NoMsgAssumption DEF Init
  <2>2. QED
    BY <2>1 DEF Init, OrderInv, QueueOrder, HeldOrder, CallsOrder, StreamOrderKept
<1>2. TypeInv /\ OrderInv /\ [Next]_vars => TypeInv' /\ OrderInv'
  BY TypeInvStep, OrderStep
<1>3. OrderInv => StreamOrderKept
  BY DEF OrderInv
<1>4. QED
  BY <1>1, <1>2, <1>3, PTL DEF Spec

(***************************************************************************)
(* Where a message is: none is lost or duplicated, and the processor       *)
(* implements BoundedDelivery.                                             *)
(***************************************************************************)

(* Where a message is. *)

Waiting(m) == InHand(m[1]) /\ seen[m[1]] = m[2]
Queued(m) == \E i \in DOMAIN queue : queue[i] = m
Popped(m) == \E t \in Subs : held[t] = m
Spawned(m) == task[m] \in {"run", "panicked"}

Place == {"hand", "queue", "held", "past", "refused", "task"}

IsAt(m, p) ==
  CASE p = "hand"    -> Waiting(m)
    [] p = "queue"   -> Queued(m)
    [] p = "held"    -> Popped(m)
    [] p = "past"    -> Processed(m)
    [] p = "refused" -> m \in dropped
    [] p = "task"    -> Spawned(m)

At(m) == {p \in Place : IsAt(m, p)}

\* Every message received is in one place, every other in none.
Single ==
  \A m \in Msg :
    /\ Received(m) => \E p : At(m) = {p}
    /\ ~Received(m) => At(m) = {}

\* And there only once.
Once ==
  /\ \A i, j \in DOMAIN queue : queue[i] = queue[j] => i = j
  /\ \A t, u \in Subs : held[t] \in Msg /\ held[t] = held[u] => t = u
  /\ \A t, u \in Subs : \A i \in DOMAIN calls[t], j \in DOMAIN calls[u] :
       calls[t][i] = calls[u][j] => t = u /\ i = j

\* A thread holds a message exactly while it works on one; a task that gives its
\* permit back has been through its callback; the strategies use parts of their own.
Tidy ==
  /\ \A t \in Subs : held[t] # NoMsg <=> worker[t] \in {"sub", "run", "panicked"}
  /\ \A m \in Msg : task[m] \in {"release", "done"} => Processed(m)
  /\ Strategy = "Block" => /\ \A s \in Subs : stream[s] # "admit"
                           /\ \A m \in Msg : task[m] = "none"
  /\ Strategy = "Drop" => /\ \A s \in Subs : stream[s] \notin {"yield", "push", "count", "cancelled"}
                          /\ queue = <<>>
                          /\ \A t \in Subs : worker[t] \notin {"sub", "run", "panicked"}

PlaceInv == TypeInv /\ Single /\ Once /\ Tidy

-----------------------------------------------------------------------------
(* How a step changes where messages are. *)

\* The places as the six predicates say.
LEMMA AtIs ==
  ASSUME NEW m
  PROVE  /\ "hand" \in At(m) <=> Waiting(m)
         /\ "queue" \in At(m) <=> Queued(m)
         /\ "held" \in At(m) <=> Popped(m)
         /\ "past" \in At(m) <=> Processed(m)
         /\ "refused" \in At(m) <=> m \in dropped
         /\ "task" \in At(m) <=> Spawned(m)
         /\ At(m) \subseteq Place
         /\ "hand" \in At(m)' <=> Waiting(m)'
         /\ "queue" \in At(m)' <=> Queued(m)'
         /\ "held" \in At(m)' <=> Popped(m)'
         /\ "past" \in At(m)' <=> Processed(m)'
         /\ "refused" \in At(m)' <=> m \in dropped'
         /\ "task" \in At(m)' <=> Spawned(m)'
         /\ At(m)' \subseteq Place
<1>1. /\ "hand" \in At(m) <=> Waiting(m)
      /\ "queue" \in At(m) <=> Queued(m)
      /\ "held" \in At(m) <=> Popped(m)
      /\ "past" \in At(m) <=> Processed(m)
      /\ "refused" \in At(m) <=> m \in dropped
      /\ "task" \in At(m) <=> Spawned(m)
      /\ At(m) \subseteq Place
  BY DEF At, IsAt, Place
<1>2. /\ "hand" \in At(m)' <=> Waiting(m)'
      /\ "queue" \in At(m)' <=> Queued(m)'
      /\ "held" \in At(m)' <=> Popped(m)'
      /\ "past" \in At(m)' <=> Processed(m)'
      /\ "refused" \in At(m)' <=> m \in dropped'
      /\ "task" \in At(m)' <=> Spawned(m)'
      /\ At(m)' \subseteq Place
  BY DEF At, IsAt, Place
<1>3. QED
  BY <1>1, <1>2

\* A message that none of the predicates tells to have moved stays where it is.
LEMMA SameAt ==
  ASSUME NEW m, Waiting(m)' <=> Waiting(m), Queued(m)' <=> Queued(m),
         Popped(m)' <=> Popped(m), Processed(m)' <=> Processed(m),
         m \in dropped' <=> m \in dropped, Spawned(m)' <=> Spawned(m)
  PROVE  At(m)' = At(m)
<1>1. \A p \in Place : p \in At(m)' <=> p \in At(m)
  BY AtIs DEF Place
<1>2. QED
  BY <1>1, AtIs

\* No message moves.
Stays == \A m \in Msg : /\ At(m)' = At(m)
                        /\ Received(m)' <=> Received(m)

\* One message moves.
Moves(m, from, to) ==
  /\ from \in At(m)
  /\ At(m)' = (At(m) \ {from}) \cup {to}
  /\ \A k \in Msg \ {m} : At(k)' = At(k)
  /\ \A k \in Msg : Received(k)' <=> Received(k)

LEMMA StaysKeepsSingle ==
  ASSUME Single, Stays
  PROVE  Single'
  BY DEF Single, Stays

LEMMA MovesKeepsSingle ==
  ASSUME Single, NEW m \in Msg, NEW from, NEW to, Moves(m, from, to)
  PROVE  Single' /\ At(m) = {from} /\ At(m)' = {to} /\ Received(m)
<1>1. Received(m)
  BY DEF Single, Moves
<1>2. PICK p : At(m) = {p}
  BY <1>1 DEF Single
<1>3. p = from
  BY <1>2 DEF Moves
<1>4. At(m) = {from} /\ At(m)' = {to}
  BY <1>2, <1>3 DEF Moves
<1>5. ASSUME NEW k \in Msg
      PROVE  (Received(k)' => \E q : At(k)' = {q}) /\ (~Received(k)' => At(k)' = {})
  <2>1. CASE k = m
    BY <1>1, <1>4, <2>1 DEF Moves
  <2>2. CASE k # m
    BY <2>2 DEF Moves, Single
  <2>3. QED
    BY <2>1, <2>2
<1>6. Single'
  BY <1>5 DEF Single
<1>7. QED
  BY <1>1, <1>4, <1>6

\* What a stream task has in hand is its current message and no other.
LEMMA CurrentWaits ==
  ASSUME TypeInv, NEW s \in Subs, InHand(s)
  PROVE  Current(s) \in Msg /\ Waiting(Current(s)) /\ Received(Current(s))
<1>1. Current(s) \in Msg
  BY CurrentIsMsg DEF InHand
<1>2. seen[s] \in Nat
  BY MaxMsgsAssumption DEF TypeInv, TypeOK
<1>3. QED
  BY <1>1, <1>2 DEF Waiting, Received, Current

\* Messages of a stream whose task moves.
LEMMA HandMoves ==
  ASSUME TypeInv, NEW s \in Subs, NEW from, NEW to, StreamGoes(s, from, to),
         seen' = seen
  PROVE  /\ \A k \in Msg : k[1] # s => (Waiting(k)' <=> Waiting(k))
         /\ \A k \in Msg : k[1] = s =>
              (Waiting(k) <=> seen[s] = k[2] /\ from \in {"load", "yield", "push", "admit", "cancelled"})
         /\ \A k \in Msg : k[1] = s =>
              (Waiting(k)' <=> seen[s] = k[2] /\ to \in {"load", "yield", "push", "admit", "cancelled"})
         /\ \A k \in Msg : Received(k)' <=> Received(k)
<1>1. /\ stream[s] = from /\ stream'[s] = to
      /\ \A r \in Subs \ {s} : stream'[r] = stream[r]
  BY DEF TypeInv, TypeOK, StreamGoes
<1>2. \A k \in Msg : k[1] \in Subs
  BY DEF Msg
<1>3. QED
  BY <1>1, <1>2 DEF Waiting, InHand, Received

\* A stream task that keeps its message, or has none, moves no message.
LEMMA StreamStays ==
  ASSUME TypeInv, NEW s \in Subs, NEW from, NEW to, StreamGoes(s, from, to), seen' = seen,
         from \in {"load", "yield", "push", "admit", "cancelled"}
           <=> to \in {"load", "yield", "push", "admit", "cancelled"},
         UNCHANGED <<queue, held, calls, task, dropped>>
  PROVE  Stays
<1>1. ASSUME NEW k \in Msg
      PROVE  (Waiting(k)' <=> Waiting(k)) /\ (Received(k)' <=> Received(k))
  BY HandMoves
<1>2. ASSUME NEW k \in Msg
      PROVE  At(k)' = At(k)
  <2>1. /\ Queued(k)' <=> Queued(k)
        /\ Popped(k)' <=> Popped(k)
        /\ Processed(k)' <=> Processed(k)
        /\ Spawned(k)' <=> Spawned(k)
    BY DEF Queued, Popped, Processed, Spawned
  <2>2. QED
    BY <1>1, <2>1, SameAt
<1>3. QED
  BY <1>1, <1>2 DEF Stays

\* A step that leaves all the places alone moves nothing.
LEMMA NothingMoves ==
  ASSUME UNCHANGED <<queue, stream, seen, held, task, dropped, calls>>
  PROVE  Stays
<1>1. ASSUME NEW k \in Msg
      PROVE  At(k)' = At(k) /\ (Received(k)' <=> Received(k))
  <2>1. /\ Waiting(k)' <=> Waiting(k)
        /\ Queued(k)' <=> Queued(k)
        /\ Popped(k)' <=> Popped(k)
        /\ Processed(k)' <=> Processed(k)
        /\ Spawned(k)' <=> Spawned(k)
    BY DEF Waiting, InHand, Queued, Popped, Processed, Spawned
  <2>2. At(k)' = At(k)
    BY <2>1, SameAt
  <2>3. QED
    BY <2>2 DEF Received
<1>2. QED
  BY <1>1 DEF Stays

\* A message that leaves one place for another, alone.
LEMMA OneMoves ==
  ASSUME NEW m \in Msg, NEW from \in Place, NEW to \in Place,
         from \in At(m), from \notin At(m)', to \in At(m)',
         \A p \in Place \ {from, to} : p \in At(m)' <=> p \in At(m),
         \A k \in Msg \ {m} : At(k)' = At(k),
         \A k \in Msg : Received(k)' <=> Received(k)
  PROVE  Moves(m, from, to)
<1>1. At(m)' \subseteq Place /\ At(m) \subseteq Place
  BY AtIs
<1>2. At(m)' = (At(m) \ {from}) \cup {to}
  BY <1>1
<1>3. QED
  BY <1>2 DEF Moves

\* What a callback has been given once it has been given m.
LEMMA CallAdds ==
  ASSUME TypeInv, NEW t \in Subs, NEW m \in Msg, InvokeCallback(t, m)
  PROVE  /\ \A k : Processed(k)' <=> Processed(k) \/ k = m
         /\ Once /\ ~Processed(m) =>
              \A u, v \in Subs : \A i \in DOMAIN calls'[u], j \in DOMAIN calls'[v] :
                calls'[u][i] = calls'[v][j] => u = v /\ i = j
<1>1. /\ calls[t] \in Seq(Msg) /\ calls'[t] = Append(calls[t], m)
      /\ \A u \in Subs \ {t} : calls'[u] = calls[u]
  BY DEF InvokeCallback, TypeInv, TypeOK
<1>2. /\ \A i \in DOMAIN calls[t] : i \in DOMAIN calls'[t] /\ calls'[t][i] = calls[t][i]
      /\ Len(calls[t]) + 1 \in DOMAIN calls'[t] /\ calls'[t][Len(calls[t]) + 1] = m
      /\ \A i \in DOMAIN calls'[t] : i \in DOMAIN calls[t] \/ i = Len(calls[t]) + 1
  BY <1>1
<1>3. \A k : Processed(k)' <=> Processed(k) \/ k = m
  <2> SUFFICES ASSUME NEW k
               PROVE  Processed(k)' <=> Processed(k) \/ k = m
    OBVIOUS
  <2>1. ASSUME Processed(k)'
        PROVE  Processed(k) \/ k = m
    <3>0. PICK u \in Subs : \E n \in DOMAIN calls'[u] : calls'[u][n] = k
      BY <2>1 DEF Processed
    <3>1. PICK i \in DOMAIN calls'[u] : calls'[u][i] = k
      BY <3>0
    <3>2. CASE u = t
      BY <1>2, <3>1, <3>2 DEF Processed
    <3>3. CASE u # t
      BY <1>1, <3>1, <3>3 DEF Processed
    <3>4. QED
      BY <3>2, <3>3
  <2>2. ASSUME Processed(k)
        PROVE  Processed(k)'
    <3>0. PICK u \in Subs : \E n \in DOMAIN calls[u] : calls[u][n] = k
      BY <2>2 DEF Processed
    <3>1. PICK i \in DOMAIN calls[u] : calls[u][i] = k
      BY <3>0
    <3>2. i \in DOMAIN calls'[u] /\ calls'[u][i] = k
      BY <1>1, <1>2, <3>1
    <3>3. QED
      BY <3>2 DEF Processed
  <2>3. ASSUME k = m
        PROVE  Processed(k)'
    BY <1>2, <2>3 DEF Processed
  <2>4. QED
    BY <2>1, <2>2, <2>3
<1>4. ASSUME Once, ~Processed(m),
             NEW u \in Subs, NEW v \in Subs, NEW i \in DOMAIN calls'[u],
             NEW j \in DOMAIN calls'[v], calls'[u][i] = calls'[v][j]
      PROVE  u = v /\ i = j
  <2>1. ASSUME NEW w \in Subs, NEW n \in DOMAIN calls'[w]
        PROVE  \/ w = t /\ n = Len(calls[t]) + 1 /\ calls'[w][n] = m
               \/ n \in DOMAIN calls[w] /\ calls'[w][n] = calls[w][n] /\ calls'[w][n] # m
    <3>1. CASE w = t
      BY <1>2, <1>4, <3>1 DEF Processed
    <3>2. CASE w # t
      BY <1>1, <1>4, <3>2 DEF Processed
    <3>3. QED
      BY <3>1, <3>2
  <2>2. \/ u = t /\ i = Len(calls[t]) + 1 /\ calls'[u][i] = m
        \/ i \in DOMAIN calls[u] /\ calls'[u][i] = calls[u][i] /\ calls'[u][i] # m
    BY <2>1
  <2>3. \/ v = t /\ j = Len(calls[t]) + 1 /\ calls'[v][j] = m
        \/ j \in DOMAIN calls[v] /\ calls'[v][j] = calls[v][j] /\ calls'[v][j] # m
    BY <2>1
  <2>4. QED
    BY <1>4, <2>2, <2>3 DEF Once
<1>5. QED
  BY <1>3, <1>4

-----------------------------------------------------------------------------
(* Which message each action moves, and from where to where. *)

\* A new message comes into the stream task's hands; the others stay.
LEMMA ReceiveTakes ==
  ASSUME TypeInv, Single, NEW s \in Subs, Receive(s)
  PROVE  /\ Single'
         /\ \E n \in Msg : /\ At(n) = {} /\ At(n)' = {"hand"}
                           /\ \A k \in Msg \ {n} : At(k)' = At(k)
<1>0. PICK n : n = <<s, seen[s] + 1>>
  OBVIOUS
<1>1. /\ stream[s] = "recv" /\ stream'[s] = "load" /\ seen'[s] = seen[s] + 1
      /\ \A r \in Subs \ {s} : stream'[r] = stream[r] /\ seen'[r] = seen[r]
      /\ seen[s] \in Nat /\ seen[s] + 1 \in 1..MaxMsgs
  BY MaxMsgsAssumption DEF Receive, StreamGoes, TypeInv, TypeOK
<1>2. UNCHANGED <<queue, held, calls, task, dropped>>
  BY DEF Receive, shared, workers
<1>3. n \in Msg /\ n[1] = s /\ n[2] = seen[s] + 1
  BY <1>0, <1>1 DEF Msg
<1>4. \A k \in Msg : k[1] \in Subs /\ k[2] \in Nat /\ (k # n => k[1] # s \/ k[2] # seen[s] + 1)
  BY <1>0, MaxMsgsAssumption DEF Msg
<1>5. ASSUME NEW k \in Msg \ {n}
      PROVE  At(k)' = At(k) /\ (Received(k)' <=> Received(k))
  <2>1. Waiting(k)' <=> Waiting(k)
    <3>1. CASE k[1] = s
      BY <1>1, <1>4, <3>1 DEF Waiting, InHand
    <3>2. CASE k[1] # s
      BY <1>1, <1>4, <3>2 DEF Waiting, InHand
    <3>3. QED
      BY <3>1, <3>2
  <2>2. Received(k)' <=> Received(k)
    BY <1>1, <1>4 DEF Received
  <2>3. /\ Queued(k)' <=> Queued(k)
        /\ Popped(k)' <=> Popped(k)
        /\ Processed(k)' <=> Processed(k)
        /\ Spawned(k)' <=> Spawned(k)
    BY <1>2 DEF Queued, Popped, Processed, Spawned
  <2>4. QED
    BY <1>2, <2>1, <2>2, <2>3, SameAt
<1>6. ~Received(n) /\ Received(n)'
  BY <1>1, <1>3 DEF Received
<1>7. At(n) = {}
  BY <1>3, <1>6 DEF Single
<1>8. At(n)' = {"hand"}
  <2>1. Waiting(n)'
    BY <1>1, <1>3 DEF Waiting, InHand
  <2>2. /\ Queued(n)' <=> Queued(n)
        /\ Popped(n)' <=> Popped(n)
        /\ Processed(n)' <=> Processed(n)
        /\ Spawned(n)' <=> Spawned(n)
    BY <1>2 DEF Queued, Popped, Processed, Spawned
  <2>3. \A p \in Place : p \in At(n)' <=> p = "hand"
    BY <1>2, <1>7, <2>1, <2>2, AtIs DEF Place
  <2>4. QED
    BY <2>3, AtIs DEF Place
<1>9. Single'
  <2>1. ASSUME NEW k \in Msg
        PROVE  (Received(k)' => \E p : At(k)' = {p}) /\ (~Received(k)' => At(k)' = {})
    <3>1. CASE k = n
      BY <1>6, <1>8, <3>1
    <3>2. CASE k # n
      BY <1>5, <3>2 DEF Single
    <3>3. QED
      BY <3>1, <3>2
  <2>2. QED
    BY <2>1 DEF Single
<1>10. QED
  BY <1>3, <1>5, <1>7, <1>8, <1>9

\* A message goes from the stream task's hands to where the step puts it.
LEMMA HandGives ==
  ASSUME TypeInv, NEW s \in Subs, NEW m \in Msg, m = Current(s),
         NEW from, NEW goes, NEW to \in Place \ {"hand"},
         StreamGoes(s, from, goes), InHand(s), seen' = seen,
         goes \notin {"load", "yield", "push", "admit", "cancelled"},
         to \in At(m)',
         \A p \in Place \ {"hand", to} : p \in At(m)' <=> p \in At(m),
         \A k \in Msg \ {m} :
           /\ Queued(k)' <=> Queued(k)
           /\ Popped(k)' <=> Popped(k)
           /\ Processed(k)' <=> Processed(k)
           /\ k \in dropped' <=> k \in dropped
           /\ Spawned(k)' <=> Spawned(k)
  PROVE  Moves(m, "hand", to)
<1>1. Waiting(m)
  BY CurrentWaits
<1>2. \A k \in Msg : k[1] \in Subs /\ (k # m => k[1] # s \/ k[2] # seen[s])
  BY DEF Msg, Current
<1>3. ASSUME NEW k \in Msg \ {m}
      PROVE  At(k)' = At(k)
  <2>1. Waiting(k)' <=> Waiting(k)
    <3>1. CASE k[1] = s
      BY <1>2, <3>1, HandMoves
    <3>2. CASE k[1] # s
      BY <3>2, HandMoves
    <3>3. QED
      BY <3>1, <3>2
  <2>2. QED
    BY <2>1, SameAt
<1>4. ~Waiting(m)'
  <2>1. m[1] = s
    BY DEF Current
  <2>2. QED
    BY <1>1, <2>1, HandMoves
<1>5. \A k \in Msg : Received(k)' <=> Received(k)
  BY HandMoves
<1>6. "hand" \in Place /\ "hand" \in At(m) /\ "hand" \notin At(m)'
  BY <1>1, <1>4, AtIs DEF Place
<1>7. QED
  BY <1>3, <1>5, <1>6, OneMoves

\* A push moves the message from the stream task to the queue.
LEMMA PushMoves ==
  ASSUME TypeInv, NEW s \in Subs, NEW m \in Msg, m = Current(s), BlockPush(s)
  PROVE  /\ Moves(m, "hand", "queue")
         /\ Once /\ ~Queued(m) =>
              \A i, j \in DOMAIN queue' : queue'[i] = queue'[j] => i = j
<1>1. /\ StreamGoes(s, "push", "count") /\ seen' = seen
      /\ UNCHANGED <<held, calls, task, dropped>>
  BY DEF BlockPush, workers
<1>2. queue \in Seq(Msg) /\ queue' = Append(queue, m)
  BY DEF BlockPush, TypeInv, TypeOK
<1>3. /\ \A i \in DOMAIN queue : i \in DOMAIN queue' /\ queue'[i] = queue[i]
      /\ Len(queue) + 1 \in DOMAIN queue' /\ queue'[Len(queue) + 1] = m
      /\ \A i \in DOMAIN queue' : i \in DOMAIN queue \/ i = Len(queue) + 1
  BY <1>2
<1>4. \A k \in Msg : Queued(k)' <=> Queued(k) \/ k = m
  BY <1>3 DEF Queued
<1>5. \A k : /\ Popped(k)' <=> Popped(k)
             /\ Processed(k)' <=> Processed(k)
             /\ k \in dropped' <=> k \in dropped
             /\ Spawned(k)' <=> Spawned(k)
  BY <1>1 DEF Popped, Processed, Spawned
<1>6. Moves(m, "hand", "queue")
  <2>1. InHand(s)
    BY <1>1 DEF StreamGoes, InHand
  <2>2. "queue" \in At(m)'
    BY <1>4, AtIs
  <2>3. \A p \in Place \ {"hand", "queue"} : p \in At(m)' <=> p \in At(m)
    BY <1>5, AtIs DEF Place
  <2>4. "queue" \in Place \ {"hand"}
    BY DEF Place
  <2>5. QED
    BY <1>1, <1>4, <1>5, <2>1, <2>2, <2>3, <2>4, HandGives
<1>7. ASSUME Once, ~Queued(m), NEW i \in DOMAIN queue', NEW j \in DOMAIN queue',
             queue'[i] = queue'[j]
      PROVE  i = j
  <2>1. \A n \in DOMAIN queue : queue'[n] # m
    BY <1>3, <1>7 DEF Queued
  <2>2. QED
    BY <1>3, <1>7, <2>1 DEF Once
<1>8. QED
  BY <1>6, <1>7

\* A refusal moves it to the drop counter.
LEMMA RefusalMoves ==
  ASSUME TypeInv, NEW s \in Subs, NEW m \in Msg, m = Current(s),
         DropLoad(s), pending >= Permits
  PROVE  Moves(m, "hand", "refused")
<1>0. ~(pending < Permits)
  BY PermitsAssumption, WidthAssumption DEF TypeInv, TypeOK
<1>1. /\ StreamGoes(s, "load", "recv") /\ seen' = seen
      /\ UNCHANGED <<queue, held, calls, task>> /\ dropped' = dropped \cup {m}
  BY <1>0 DEF DropLoad, shared, workers
<1>2. \A k : /\ Queued(k)' <=> Queued(k)
             /\ Popped(k)' <=> Popped(k)
             /\ Processed(k)' <=> Processed(k)
             /\ Spawned(k)' <=> Spawned(k)
  BY <1>1 DEF Queued, Popped, Processed, Spawned
<1>3. InHand(s)
  BY <1>1 DEF StreamGoes, InHand
<1>4. "refused" \in At(m)' /\ "refused" \in Place \ {"hand"}
  BY <1>1, AtIs DEF Place
<1>5. \A p \in Place \ {"hand", "refused"} : p \in At(m)' <=> p \in At(m)
  BY <1>2, AtIs DEF Place
<1>6. \A k \in Msg \ {m} : k \in dropped' <=> k \in dropped
  BY <1>1
<1>7. QED
  BY <1>1, <1>2, <1>3, <1>4, <1>5, <1>6, HandGives

\* A spawn moves it to a task of its own.
LEMMA SpawnMoves ==
  ASSUME TypeInv, NEW s \in Subs, NEW m \in Msg, m = Current(s), DropSpawn(s)
  PROVE  Moves(m, "hand", "task")
<1>1. /\ StreamGoes(s, "admit", "recv") /\ seen' = seen
      /\ UNCHANGED <<queue, held, calls, dropped>>
      /\ task'[m] = "run" /\ \A k \in Msg \ {m} : task'[k] = task[k]
  BY DEF DropSpawn, TaskGoes, workers, TypeInv, TypeOK
<1>2. \A k : /\ Queued(k)' <=> Queued(k)
             /\ Popped(k)' <=> Popped(k)
             /\ Processed(k)' <=> Processed(k)
             /\ k \in dropped' <=> k \in dropped
  BY <1>1 DEF Queued, Popped, Processed
<1>3. \A k \in Msg \ {m} : Spawned(k)' <=> Spawned(k)
  BY <1>1 DEF Spawned
<1>4. InHand(s)
  BY <1>1 DEF StreamGoes, InHand
<1>5. "task" \in At(m)' /\ "task" \in Place \ {"hand"}
  BY <1>1, AtIs DEF Place, Spawned
<1>6. \A p \in Place \ {"hand", "task"} : p \in At(m)' <=> p \in At(m)
  BY <1>2, AtIs DEF Place
<1>7. QED
  BY <1>1, <1>2, <1>3, <1>4, <1>5, <1>6, HandGives

\* A thread takes the oldest message off the queue; it had none.
LEMMA PopMoves ==
  ASSUME TypeInv, Once, Tidy, NEW t \in Subs, WorkerPop(t), NEW m \in Msg, m = Head(queue)
  PROVE  /\ Moves(m, "queue", "held")
         /\ \A i, j \in DOMAIN queue' : queue'[i] = queue'[j] => i = j
<1>1. /\ worker[t] = "pop" /\ UNCHANGED <<stream, seen, calls, task, dropped>>
  BY DEF WorkerPop, WorkerGoes, streams
<1>2. /\ queue \in Seq(Msg) /\ queue # <<>> /\ queue' = Tail(queue)
      /\ held'[t] = m /\ \A r \in Subs \ {t} : held'[r] = held[r]
  BY DEF WorkerPop, TypeInv, TypeOK
<1>3. held[t] = NoMsg
  BY <1>1 DEF Tidy
<1>4. /\ 1 \in DOMAIN queue /\ queue[1] = m
      /\ \A i \in DOMAIN queue' : i \in Nat /\ i + 1 \in DOMAIN queue /\ i + 1 # 1 /\ queue'[i] = queue[i + 1]
      /\ \A i \in DOMAIN queue : i # 1 => i - 1 \in DOMAIN queue' /\ queue'[i - 1] = queue[i]
  BY <1>2
<1>5. \A k : Queued(k)' <=> Queued(k) /\ k # m
  <2>1. \A i, j \in DOMAIN queue : queue[i] = queue[j] => i = j
    BY DEF Once
  <2>2. ASSUME NEW k, Queued(k)'
        PROVE  Queued(k) /\ k # m
    BY <1>4, <2>1, <2>2 DEF Queued
  <2>3. ASSUME NEW k, Queued(k), k # m
        PROVE  Queued(k)'
    BY <1>4, <2>3 DEF Queued
  <2>4. QED
    BY <2>2, <2>3
<1>6. \A k \in Msg : Popped(k)' <=> Popped(k) \/ k = m
  BY <1>2, <1>3, NoMsgAssumption DEF Popped
<1>7. \A k : /\ Waiting(k)' <=> Waiting(k)
             /\ Processed(k)' <=> Processed(k)
             /\ Spawned(k)' <=> Spawned(k)
             /\ k \in dropped' <=> k \in dropped
             /\ Received(k)' <=> Received(k)
  BY <1>1 DEF Waiting, InHand, Processed, Spawned, Received
<1>8. Moves(m, "queue", "held")
  <2>1. /\ "queue" \in At(m) /\ "queue" \notin At(m)' /\ "held" \in At(m)'
        /\ \A p \in Place \ {"queue", "held"} : p \in At(m)' <=> p \in At(m)
    BY <1>4, <1>5, <1>6, <1>7, AtIs DEF Place, Queued
  <2>2. \A k \in Msg \ {m} : At(k)' = At(k)
    BY <1>5, <1>6, <1>7, SameAt
  <2>3. "queue" \in Place /\ "held" \in Place
    BY DEF Place
  <2>4. QED
    BY <1>7, <2>1, <2>2, <2>3, OneMoves
<1>9. \A i, j \in DOMAIN queue' : queue'[i] = queue'[j] => i = j
  BY <1>4 DEF Once
<1>10. QED
  BY <1>8, <1>9

\* The callback gets what its thread holds.
LEMMA ProcessMoves ==
  ASSUME TypeInv, Once, NEW t \in Subs, WorkerProcess(t), NEW m \in Msg, m = held[t]
  PROVE  Moves(m, "held", "past")
<1>1. /\ UNCHANGED <<stream, seen, queue, task, dropped>> /\ InvokeCallback(t, m)
      /\ held'[t] = NoMsg /\ \A r \in Subs \ {t} : held'[r] = held[r]
  BY DEF WorkerProcess, streams, shared, TypeInv, TypeOK
<1>2. \A k \in Msg : Popped(k)' <=> Popped(k) /\ k # m
  BY <1>1, NoMsgAssumption DEF Popped, Once
<1>3. \A k : Processed(k)' <=> Processed(k) \/ k = m
  BY <1>1, CallAdds
<1>4. \A k : /\ Waiting(k)' <=> Waiting(k)
             /\ Queued(k)' <=> Queued(k)
             /\ Spawned(k)' <=> Spawned(k)
             /\ k \in dropped' <=> k \in dropped
             /\ Received(k)' <=> Received(k)
  BY <1>1 DEF Waiting, InHand, Queued, Spawned, Received
<1>5. Popped(m)
  BY DEF Popped
<1>6. /\ "held" \in At(m) /\ "held" \notin At(m)' /\ "past" \in At(m)'
      /\ \A p \in Place \ {"held", "past"} : p \in At(m)' <=> p \in At(m)
  BY <1>2, <1>3, <1>4, <1>5, AtIs DEF Place
<1>7. \A k \in Msg \ {m} : At(k)' = At(k)
  BY <1>2, <1>3, <1>4, SameAt
<1>8. "held" \in Place /\ "past" \in Place
  BY DEF Place
<1>9. QED
  BY <1>4, <1>6, <1>7, <1>8, OneMoves

\* The callback gets what its task was spawned for.
LEMMA TaskMoves ==
  ASSUME TypeInv, NEW m \in Msg, TaskProcess(m)
  PROVE  Moves(m, "task", "past")
<1>1. /\ UNCHANGED <<stream, seen, queue, held, dropped>> /\ InvokeCallback(m[1], m)
      /\ task[m] = "run" /\ task'[m] = "release" /\ \A k \in Msg \ {m} : task'[k] = task[k]
      /\ m[1] \in Subs
  BY DEF TaskProcess, TaskGoes, streams, shared, workers, TypeInv, TypeOK, Msg
<1>2. \A k : Processed(k)' <=> Processed(k) \/ k = m
  BY <1>1, CallAdds
<1>3. \A k : /\ Waiting(k)' <=> Waiting(k)
             /\ Queued(k)' <=> Queued(k)
             /\ Popped(k)' <=> Popped(k)
             /\ k \in dropped' <=> k \in dropped
             /\ Received(k)' <=> Received(k)
  BY <1>1 DEF Waiting, InHand, Queued, Popped, Received
<1>4. /\ Spawned(m) /\ ~Spawned(m)'
      /\ \A k \in Msg \ {m} : Spawned(k)' <=> Spawned(k)
  BY <1>1 DEF Spawned
<1>5. /\ "task" \in At(m) /\ "task" \notin At(m)' /\ "past" \in At(m)'
      /\ \A p \in Place \ {"task", "past"} : p \in At(m)' <=> p \in At(m)
  BY <1>2, <1>3, <1>4, AtIs DEF Place
<1>6. \A k \in Msg \ {m} : At(k)' = At(k)
  BY <1>2, <1>3, <1>4, SameAt
<1>7. "task" \in Place /\ "past" \in Place
  BY DEF Place
<1>8. QED
  BY <1>3, <1>5, <1>6, <1>7, OneMoves

\* A task that dies keeps its message; one that gives its permit back has none.
LEMMA TaskStays ==
  ASSUME TypeInv, NEW m \in Msg, TaskPanics(m) \/ TaskRelease(m)
  PROVE  Stays
<1>1. UNCHANGED <<queue, stream, seen, held, dropped, calls>>
  BY DEF TaskPanics, TaskRelease, shared, streams, workers
<1>2. \A k \in Msg : Spawned(k)' <=> Spawned(k)
  BY DEF TaskPanics, TaskRelease, TaskGoes, Spawned, TypeInv, TypeOK
<1>3. \A k : /\ Waiting(k)' <=> Waiting(k)
             /\ Queued(k)' <=> Queued(k)
             /\ Popped(k)' <=> Popped(k)
             /\ Processed(k)' <=> Processed(k)
             /\ k \in dropped' <=> k \in dropped
             /\ Received(k)' <=> Received(k)
  BY <1>1 DEF Waiting, InHand, Queued, Popped, Processed, Received
<1>4. \A k \in Msg : At(k)' = At(k)
  BY <1>2, <1>3, SameAt
<1>5. QED
  BY <1>3, <1>4 DEF Stays

-----------------------------------------------------------------------------
(* PlaceInv is inductive. *)

LEMMA SameOnce ==
  ASSUME Once, UNCHANGED <<queue, held, calls>>
  PROVE  Once'
BY DEF Once

\* Every step leaves a message it moves in one place, once.
LEMMA PlaceStep ==
  ASSUME PlaceInv, [Next]_vars
  PROVE  Single' /\ Once'
<1>0. TypeInv /\ Single /\ Once /\ Tidy
  BY DEF PlaceInv
<1>1. ASSUME NEW s \in Subs, Start(s) \/ StreamEnds(s) \/ BlockLoad(s) \/ BlockRetry(s)
                               \/ BlockAborted(s) \/ BlockCount(s)
                               \/ (DropLoad(s) /\ pending < Permits)
      PROVE  Single' /\ Once'
  <2>1. /\ UNCHANGED <<seen, queue, calls, task, dropped, held>>
        /\ \/ StreamGoes(s, "off", "recv")
           \/ StreamGoes(s, "recv", "ended")
           \/ StreamGoes(s, "load", "push")
           \/ StreamGoes(s, "load", "yield")
           \/ StreamGoes(s, "yield", "load")
           \/ StreamGoes(s, "yield", "cancelled")
           \/ StreamGoes(s, "count", "recv")
           \/ StreamGoes(s, "load", "admit")
    <3>1. CASE Start(s) \/ StreamEnds(s) \/ BlockRetry(s) \/ BlockAborted(s) \/ BlockCount(s)
      BY <3>1 DEF Start, StreamEnds, BlockRetry, BlockAborted, BlockCount, shared, workers
    <3>2. CASE BlockLoad(s)
      BY <3>2 DEF BlockLoad, shared, workers
    <3>3. CASE DropLoad(s) /\ pending < Permits
      BY <1>0, <3>3, PermitsAssumption, WidthAssumption
         DEF DropLoad, shared, workers, TypeInv, TypeOK
    <3>4. QED
      BY <1>1, <3>1, <3>2, <3>3
  <2>2. Stays
    BY <1>0, <2>1, StreamStays
  <2>3. QED
    BY <1>0, <2>1, <2>2, StaysKeepsSingle, SameOnce
<1>2. ASSUME NEW s \in Subs, Receive(s)
      PROVE  Single' /\ Once'
  <2>1. UNCHANGED <<queue, held, calls>>
    BY <1>2 DEF Receive, shared, workers
  <2>2. QED
    BY <1>0, <1>2, <2>1, ReceiveTakes, SameOnce
<1>3. ASSUME NEW s \in Subs, BlockPush(s)
      PROVE  Single' /\ Once'
  <2>1. stream[s] = "push" /\ UNCHANGED <<held, calls>>
    BY <1>3 DEF BlockPush, StreamGoes, workers
  <2>2. PICK m \in Msg : m = Current(s)
    BY <1>0, <2>1, CurrentIsMsg
  <2>3. Moves(m, "hand", "queue")
    BY <1>0, <1>3, <2>2, PushMoves
  <2>4. At(m) = {"hand"} /\ Single'
    BY <1>0, <2>3, MovesKeepsSingle
  <2>5. ~Queued(m)
    BY <2>4, AtIs
  <2>6. \A i, j \in DOMAIN queue' : queue'[i] = queue'[j] => i = j
    BY <1>0, <1>3, <2>2, <2>5, PushMoves
  <2>7. QED
    BY <1>0, <2>1, <2>4, <2>6 DEF Once
<1>4. ASSUME NEW s \in Subs, DropLoad(s), ~(pending < Permits)
      PROVE  Single' /\ Once'
  <2>1. stream[s] = "load" /\ pending >= Permits /\ UNCHANGED <<queue, held, calls>>
    BY <1>0, <1>4, PermitsAssumption, WidthAssumption
       DEF DropLoad, StreamGoes, shared, workers, TypeInv, TypeOK
  <2>2. PICK m \in Msg : m = Current(s)
    BY <1>0, <2>1, CurrentIsMsg
  <2>3. Moves(m, "hand", "refused")
    BY <1>0, <1>4, <2>1, <2>2, RefusalMoves
  <2>4. QED
    BY <1>0, <2>1, <2>3, MovesKeepsSingle, SameOnce
<1>5. ASSUME NEW s \in Subs, DropSpawn(s)
      PROVE  Single' /\ Once'
  <2>1. stream[s] = "admit" /\ UNCHANGED <<queue, held, calls>>
    BY <1>5 DEF DropSpawn, StreamGoes, workers
  <2>2. PICK m \in Msg : m = Current(s)
    BY <1>0, <2>1, CurrentIsMsg
  <2>3. Moves(m, "hand", "task")
    BY <1>0, <1>5, <2>2, SpawnMoves
  <2>4. QED
    BY <1>0, <2>1, <2>3, MovesKeepsSingle, SameOnce
<1>6. ASSUME NEW m \in Msg, TaskProcess(m)
      PROVE  Single' /\ Once'
  <2>1. /\ UNCHANGED <<queue, held>> /\ InvokeCallback(m[1], m) /\ m[1] \in Subs
    BY <1>6 DEF TaskProcess, shared, workers, Msg
  <2>2. Moves(m, "task", "past")
    BY <1>0, <1>6, TaskMoves
  <2>3. At(m) = {"task"} /\ Single'
    BY <1>0, <2>2, MovesKeepsSingle
  <2>4. ~Processed(m)
    BY <2>3, AtIs
  <2>5. \A u, v \in Subs : \A i \in DOMAIN calls'[u], j \in DOMAIN calls'[v] :
          calls'[u][i] = calls'[v][j] => u = v /\ i = j
    BY <1>0, <2>1, <2>4, CallAdds
  <2>6. QED
    BY <1>0, <2>1, <2>3, <2>5 DEF Once
<1>7. ASSUME NEW m \in Msg, TaskPanics(m) \/ TaskRelease(m)
      PROVE  Single' /\ Once'
  <2>1. UNCHANGED <<queue, held, calls>>
    BY <1>7 DEF TaskPanics, TaskRelease, shared, workers
  <2>2. QED
    BY <1>0, <1>7, <2>1, TaskStays, StaysKeepsSingle, SameOnce
<1>8. ASSUME UNCHANGED <<queue, stream, seen, held, task, dropped, calls>>
      PROVE  Single' /\ Once'
  BY <1>0, <1>8, NothingMoves, StaysKeepsSingle, SameOnce
<1>9. ASSUME NEW t \in Subs, WorkerCheck(t) \/ WorkerFindsNothing(t) \/ WorkerUncount(t)
                               \/ WorkerPanics(t)
      PROVE  Single' /\ Once'
  BY <1>8, <1>9 DEF WorkerCheck, WorkerFindsNothing, WorkerUncount, WorkerPanics, shared, streams
<1>10. ASSUME NEW t \in Subs, WorkerPop(t)
       PROVE  Single' /\ Once'
  <2>1. /\ queue \in Seq(Msg) /\ queue # <<>> /\ calls' = calls /\ worker[t] = "pop"
        /\ held'[t] = Head(queue) /\ \A r \in Subs \ {t} : held'[r] = held[r]
    BY <1>0, <1>10 DEF WorkerPop, WorkerGoes, TypeInv, TypeOK
  <2>2. PICK m \in Msg : m = Head(queue)
    BY <2>1
  <2>3. /\ Moves(m, "queue", "held")
        /\ \A i, j \in DOMAIN queue' : queue'[i] = queue'[j] => i = j
    BY <1>0, <1>10, <2>2, PopMoves
  <2>4. At(m) = {"queue"} /\ Single'
    BY <1>0, <2>3, MovesKeepsSingle
  <2>5. \A r \in Subs : held[r] # m
    BY <2>4, AtIs DEF Popped
  <2>6. \A r, u \in Subs : held'[r] \in Msg /\ held'[r] = held'[u] => r = u
    BY <1>0, <2>1, <2>2, <2>5 DEF Once
  <2>7. QED
    BY <1>0, <2>1, <2>3, <2>4, <2>6 DEF Once
<1>11. ASSUME NEW t \in Subs, WorkerProcess(t)
       PROVE  Single' /\ Once'
  <2>1. /\ queue' = queue /\ worker[t] = "run" /\ held[t] \in Msg
        /\ InvokeCallback(t, held[t])
        /\ held'[t] = NoMsg /\ \A r \in Subs \ {t} : held'[r] = held[r]
    BY <1>0, <1>11 DEF WorkerProcess, WorkerGoes, shared, TypeInv, TypeOK, InHandReceived
  <2>2. PICK m \in Msg : m = held[t]
    BY <2>1
  <2>3. Moves(m, "held", "past")
    BY <1>0, <1>11, <2>2, ProcessMoves
  <2>4. At(m) = {"held"} /\ Single'
    BY <1>0, <2>3, MovesKeepsSingle
  <2>5. ~Processed(m)
    BY <2>4, AtIs
  <2>6. \A u, v \in Subs : \A i \in DOMAIN calls'[u], j \in DOMAIN calls'[v] :
          calls'[u][i] = calls'[v][j] => u = v /\ i = j
    BY <1>0, <2>1, <2>2, <2>5, CallAdds
  <2>7. \A r, u \in Subs : held'[r] \in Msg /\ held'[r] = held'[u] => r = u
    BY <1>0, <2>1, NoMsgAssumption DEF Once
  <2>8. QED
    BY <1>0, <2>1, <2>4, <2>6, <2>7 DEF Once
<1>12. CASE StopProcessing \/ UNCHANGED vars
  BY <1>8, <1>12 DEF StopProcessing, vars, streams, workers
<1>13. QED
  BY <1>1, <1>2, <1>3, <1>4, <1>5, <1>6, <1>7, <1>9, <1>10, <1>11, <1>12
     DEF Next, Stream, Offer, Worker, Task

\* The strategies keep to their own parts, and threads and tasks keep their state
\* in step with what they hold.
LEMMA TidyStep ==
  ASSUME TypeInv, Tidy, [Next]_vars
  PROVE  Tidy'
<1> USE StrategyAssumption DEF TypeInv, TypeOK, InHandReceived, Tidy, shared, streams, workers
<1>0. NoMsg \notin Msg
  BY NoMsgAssumption
<1>1. ASSUME NEW s \in Subs, Start(s)
      PROVE  Tidy'
  BY <1>1 DEF Start, StreamGoes, WorkerGoes, Processed
<1>2. ASSUME NEW s \in Subs, Receive(s) \/ StreamEnds(s) \/ BlockCount(s)
      PROVE  Tidy'
  BY <1>2 DEF Receive, StreamEnds, BlockCount, StreamGoes, Processed
<1>3. ASSUME NEW s \in Subs, BlockLoad(s)
      PROVE  Tidy'
  BY <1>3 DEF BlockLoad, StreamGoes, Processed
<1>4. ASSUME NEW s \in Subs, BlockRetry(s) \/ BlockAborted(s) \/ BlockPush(s)
      PROVE  Tidy'
  BY <1>4 DEF BlockRetry, BlockAborted, BlockPush, StreamGoes, Processed
<1>5. ASSUME NEW s \in Subs, DropLoad(s)
      PROVE  Tidy'
  BY <1>5 DEF DropLoad, StreamGoes, Processed
<1>6. ASSUME NEW s \in Subs, DropSpawn(s)
      PROVE  Tidy'
  BY <1>6 DEF DropSpawn, StreamGoes, TaskGoes, Processed
<1>7. ASSUME NEW m \in Msg, TaskProcess(m)
      PROVE  Tidy'
  <2>1. \A k : Processed(k)' <=> Processed(k) \/ k = m
    <3>1. m[1] \in Subs
      BY DEF Msg
    <3>2. QED
      BY <1>7, <3>1, CallAdds DEF TaskProcess
  <2>2. task[m] = "run" /\ \A k \in Msg \ {m} : task'[k] = task[k]
    BY <1>7 DEF TaskProcess, TaskGoes
  <2>3. UNCHANGED <<queue, stream, worker, held>>
    BY <1>7 DEF TaskProcess
  <2>4. QED
    BY <2>1, <2>2, <2>3
<1>8. ASSUME NEW m \in Msg, TaskPanics(m) \/ TaskRelease(m)
      PROVE  Tidy'
  BY <1>8 DEF TaskPanics, TaskRelease, TaskGoes, Processed
<1>9. ASSUME NEW t \in Subs, WorkerCheck(t) \/ WorkerFindsNothing(t) \/ WorkerUncount(t)
                               \/ WorkerPanics(t)
      PROVE  Tidy'
  <2>1. /\ UNCHANGED <<queue, stream, held, task, calls>>
        /\ \A r \in Subs \ {t} : worker'[r] = worker[r]
        /\ worker'[t] \in {"sub", "run", "panicked"} <=> worker[t] \in {"sub", "run", "panicked"}
    BY <1>9 DEF WorkerCheck, WorkerFindsNothing, WorkerUncount, WorkerPanics, WorkerGoes
  <2>2. \A r \in Subs : worker'[r] \in {"sub", "run", "panicked"}
                         <=> worker[r] \in {"sub", "run", "panicked"}
    BY <2>1
  <2>3. \A k : Processed(k)' <=> Processed(k)
    BY <2>1 DEF Processed
  <2>4. QED
    BY <2>1, <2>2, <2>3
<1>10. ASSUME NEW t \in Subs, WorkerPop(t)
       PROVE  Tidy'
  <2>1. Head(queue) \in Msg
    BY <1>10 DEF WorkerPop
  <2>2. QED
    BY <1>0, <1>10, <2>1 DEF WorkerPop, WorkerGoes, Processed
<1>11. ASSUME NEW t \in Subs, WorkerProcess(t)
       PROVE  Tidy'
  <2>1. \A k : Processed(k) => Processed(k)'
    <3>1. held[t] \in Msg
      BY <1>11 DEF WorkerProcess, WorkerGoes
    <3>2. QED
      BY <1>11, <3>1, CallAdds DEF WorkerProcess
  <2>2. QED
    BY <1>11, <2>1 DEF WorkerProcess, WorkerGoes
<1>12. CASE StopProcessing \/ UNCHANGED vars
  BY <1>12 DEF StopProcessing, vars, Processed
<1>13. QED
  BY <1>1, <1>2, <1>3, <1>4, <1>5, <1>6, <1>7, <1>8, <1>9, <1>10, <1>11, <1>12
     DEF Next, Stream, Offer, Worker, Task

\* At first no message is anywhere.
LEMMA InitPlaceInv == Init => PlaceInv
<1> SUFFICES ASSUME Init
             PROVE  PlaceInv
  OBVIOUS
<1>1. TypeInv
  BY InitTypeInv
<1>2. /\ DOMAIN queue = {} /\ \A t \in Subs : DOMAIN calls[t] = {} /\ held[t] = NoMsg
      /\ \A s \in Subs : stream[s] = "off" /\ seen[s] = 0 /\ worker[s] = "off"
      /\ \A m \in Msg : task[m] = "none" /\ m[1] \in Subs /\ m[2] \in 1..MaxMsgs
      /\ dropped = {} /\ queue = <<>>
  BY DEF Init, Msg
<1>3. Single
  <2>1. ASSUME NEW m \in Msg
        PROVE  ~Received(m) /\ At(m) = {}
    <3>1. /\ ~Waiting(m) /\ ~Queued(m) /\ ~Popped(m) /\ ~Processed(m) /\ ~Spawned(m)
          /\ m \notin dropped
      BY <1>2, NoMsgAssumption DEF Waiting, InHand, Queued, Popped, Processed, Spawned
    <3>2. \A p \in Place : p \notin At(m)
      BY <3>1, AtIs DEF Place
    <3>3. ~Received(m)
      BY <1>2, MaxMsgsAssumption DEF Received
    <3>4. QED
      BY <3>2, <3>3, AtIs
  <2>2. QED
    BY <2>1 DEF Single
<1>4. Once
  BY <1>2, NoMsgAssumption DEF Once
<1>5. Tidy
  BY <1>2 DEF Tidy
<1>6. QED
  BY <1>1, <1>3, <1>4, <1>5 DEF PlaceInv

\* PlaceInv holds in every reachable state.
THEOREM PlaceInvariance == Spec => []PlaceInv
<1>1. PlaceInv /\ [Next]_vars => PlaceInv'
  <2> SUFFICES ASSUME PlaceInv, [Next]_vars
               PROVE  PlaceInv'
    OBVIOUS
  <2>1. TypeInv /\ Tidy
    BY DEF PlaceInv
  <2>2. TypeInv'
    BY <2>1, TypeInvStep
  <2>3. Tidy'
    BY <2>1, TidyStep
  <2>4. Single' /\ Once'
    BY PlaceStep
  <2>5. QED
    BY <2>2, <2>3, <2>4 DEF PlaceInv
<1>2. QED
  BY <1>1, InitPlaceInv, PTL DEF Spec

-----------------------------------------------------------------------------
(* No message is lost or doubled. *)

\* A set without two elements counts one, or none.
LEMMA SizeOfOne ==
  ASSUME NEW S, \A x, y \in S : x = y
  PROVE  Cardinality(S) = IF S = {} THEN 0 ELSE 1
<1>1. CASE S = {}
  BY <1>1, FS_EmptySet
<1>2. CASE S # {}
  <2>1. PICK x : S = {x}
    BY <1>2
  <2>2. QED
    BY <1>2, <2>1, FS_Singleton
<1>3. QED
  BY <1>1, <1>2

\* The copies of m are the places it is at.
LEMMA CopiesArePlaces ==
  ASSUME PlaceInv, NEW m \in Msg
  PROVE  Copies(m) = (IF "queue" \in At(m) THEN 1 ELSE 0)
                       + (IF "held" \in At(m) THEN 1 ELSE 0)
                       + (IF "past" \in At(m) THEN 1 ELSE 0)
                       + (IF "hand" \in At(m) THEN 1 ELSE 0)
                       + (IF "refused" \in At(m) THEN 1 ELSE 0)
                       + (IF "task" \in At(m) THEN 1 ELSE 0)
<1> DEFINE Q == {i \in DOMAIN queue : queue[i] = m}
           H == {t \in Subs : held[t] = m}
           C == {p \in UNION {{t} \X DOMAIN calls[t] : t \in Subs} : calls[p[1]][p[2]] = m}
           S == {s \in Subs : InHand(s) /\ Current(s) = m}
<1>0. TypeInv /\ Once
  BY DEF PlaceInv
<1>1. Cardinality(Q) = IF "queue" \in At(m) THEN 1 ELSE 0
  <2>1. \A x, y \in Q : x = y
    BY <1>0 DEF Once
  <2>2. Q = {} <=> ~Queued(m)
    BY DEF Queued
  <2> HIDE DEF Q
  <2>3. QED
    BY <2>1, <2>2, SizeOfOne, AtIs
<1>2. Cardinality(H) = IF "held" \in At(m) THEN 1 ELSE 0
  <2>1. \A x, y \in H : x = y
    BY <1>0 DEF Once
  <2>2. H = {} <=> ~Popped(m)
    BY DEF Popped
  <2> HIDE DEF H
  <2>3. QED
    BY <2>1, <2>2, SizeOfOne, AtIs
<1>3. Cardinality(C) = IF "past" \in At(m) THEN 1 ELSE 0
  <2>0. \A p \in C : \E t \in Subs : \E i \in DOMAIN calls[t] :
          p = <<t, i>> /\ p[1] = t /\ p[2] = i /\ calls[t][i] = m
    OBVIOUS
  <2>1. \A x, y \in C : x = y
    <3> SUFFICES ASSUME NEW x \in C, NEW y \in C
                 PROVE  x = y
      OBVIOUS
    <3>1. PICK t \in Subs : \E i \in DOMAIN calls[t] : x = <<t, i>> /\ calls[t][i] = m
      BY <2>0
    <3>2. PICK i \in DOMAIN calls[t] : x = <<t, i>> /\ calls[t][i] = m
      BY <3>1
    <3>3. PICK u \in Subs : \E j \in DOMAIN calls[u] : y = <<u, j>> /\ calls[u][j] = m
      BY <2>0
    <3>4. PICK j \in DOMAIN calls[u] : y = <<u, j>> /\ calls[u][j] = m
      BY <3>3
    <3>5. t = u /\ i = j
      BY <1>0, <3>2, <3>4 DEF Once
    <3>6. QED
      BY <3>2, <3>4, <3>5
  <2>2. ASSUME NEW t \in Subs, NEW i \in DOMAIN calls[t], calls[t][i] = m
        PROVE  <<t, i>> \in C
    BY <2>2
  <2>3. C = {} <=> ~Processed(m)
    <3> HIDE DEF C
    <3>1. QED
      BY <2>0, <2>2 DEF Processed
  <2> HIDE DEF C
  <2>4. QED
    BY <2>1, <2>3, SizeOfOne, AtIs
<1>4. Cardinality(S) = IF "hand" \in At(m) THEN 1 ELSE 0
  <2>0. m = <<m[1], m[2]>> /\ m[1] \in Subs
    BY DEF Msg
  <2>1. \A x, y \in S : x = y
    BY DEF Current
  <2>2. S = {} <=> ~Waiting(m)
    BY <2>0 DEF Waiting, Current
  <2> HIDE DEF S
  <2>3. QED
    BY <2>1, <2>2, SizeOfOne, AtIs
<1>5. m \in dropped <=> "refused" \in At(m)
  BY AtIs
<1>6. task[m] \in {"run", "panicked"} <=> "task" \in At(m)
  BY AtIs DEF Spawned
<1>7. Copies(m) = Cardinality(Q) + Cardinality(H) + Cardinality(C) + Cardinality(S)
                    + (IF m \in dropped THEN 1 ELSE 0)
                    + (IF task[m] \in {"run", "panicked"} THEN 1 ELSE 0)
  BY DEF Copies
<1> HIDE DEF Q, H, C, S
<1>8. QED
  BY <1>1, <1>2, <1>3, <1>4, <1>5, <1>6, <1>7

\* Between the stream and the callback a message is never lost or duplicated: once
\* received it is in exactly one place (a task's hands, the queue, a callback's past,
\* the drop counter, ...), before that in none.
THEOREM NothingLostOrDoubled == Spec => []ExactlyOnePlace
<1>1. PlaceInv => ExactlyOnePlace
  <2> SUFFICES ASSUME PlaceInv, NEW m \in Msg
               PROVE  Copies(m) = IF Received(m) THEN 1 ELSE 0
    BY DEF ExactlyOnePlace
  <2>1. CASE ~Received(m)
    <3>1. At(m) = {}
      BY <2>1 DEF PlaceInv, Single
    <3>2. QED
      BY <2>1, <3>1, CopiesArePlaces
  <2>2. CASE Received(m)
    <3>1. PICK p : At(m) = {p}
      BY <2>2 DEF PlaceInv, Single
    <3>2. p \in Place
      BY <3>1, AtIs
    <3>3. QED
      BY <2>2, <3>1, <3>2, CopiesArePlaces DEF Place
  <2>3. QED
    BY <2>1, <2>2
<1>2. QED
  BY <1>1, PlaceInvariance, PTL

-----------------------------------------------------------------------------
(* What has become of a message. *)

Cancelled(m) == stream[m[1]] = "cancelled" /\ seen[m[1]] = m[2]

Lost(m) == Died(m) \/ Cancelled(m)

Fate(m) ==
  IF "past" \in At(m) THEN "delivered"
  ELSE IF "refused" \in At(m) THEN "refused"
  ELSE IF Lost(m) THEN "lost"
  ELSE IF At(m) \cap {"queue", "held", "task"} # {} THEN "admitted"
  ELSE "new"

\* The place of a message decides what has become of it.
LEMMA FateOf ==
  ASSUME PlaceInv, NEW m \in Msg
  PROVE  outcome[m] = Fate(m)
<1>1. Lost(m) => At(m) \cap {"hand", "held", "task"} # {}
  <2>1. Died(m) => Spawned(m) \/ Popped(m)
    BY DEF Died, Spawned, Popped
  <2>2. Cancelled(m) => Waiting(m)
    BY DEF Cancelled, Waiting, InHand
  <2>3. QED
    BY <2>1, <2>2, AtIs DEF Lost
<1>2. \A p, q : p \in At(m) /\ q \in At(m) => p = q
  BY DEF PlaceInv, Single
<1> DEFINE Adm == \/ \E i \in DOMAIN queue : queue[i] = m
                  \/ task[m] = "run"
                  \/ \E t \in Subs : held[t] = m /\ worker[t] # "panicked"
<1>3. /\ Adm => At(m) \cap {"queue", "held", "task"} # {}
      /\ At(m) \cap {"queue", "held", "task"} # {} /\ ~Lost(m) => Adm
  BY AtIs DEF Queued, Popped, Spawned, Lost, Died
<1>4. Adm => ~Lost(m)
  <2>1. ASSUME NEW i \in DOMAIN queue, queue[i] = m
        PROVE  ~Lost(m)
    <3>1. "queue" \in At(m)
      BY <2>1, AtIs DEF Queued
    <3>2. QED
      BY <1>1, <1>2, <3>1
  <2>2. ASSUME task[m] = "run"
        PROVE  ~Lost(m)
    <3>1. "task" \in At(m)
      BY <2>2, AtIs DEF Spawned
    <3>2. ~Waiting(m) /\ ~Popped(m)
      BY <1>2, <3>1, AtIs
    <3>3. QED
      BY <2>2, <3>2 DEF Lost, Died, Cancelled, Waiting, InHand, Popped
  <2>3. ASSUME NEW t \in Subs, held[t] = m, worker[t] # "panicked"
        PROVE  ~Lost(m)
    <3>1. "held" \in At(m)
      BY <2>3, AtIs DEF Popped
    <3>2. ~Waiting(m) /\ ~Spawned(m)
      BY <1>2, <3>1, AtIs
    <3>3. \A u \in Subs : held[u] = m => u = t
      BY <2>3 DEF PlaceInv, Once
    <3>4. QED
      BY <2>3, <3>2, <3>3 DEF Lost, Died, Cancelled, Waiting, InHand, Spawned
  <2>4. QED
    BY <2>1, <2>2, <2>3
<1>5. /\ Processed(m) <=> "past" \in At(m)
      /\ m \in dropped <=> "refused" \in At(m)
  BY AtIs
<1>6. Died(m) \/ (stream[m[1]] = "cancelled" /\ m = Current(m[1])) <=> Lost(m)
  BY DEF Lost, Cancelled, Current, Msg
<1> DEFINE Gone == Died(m) \/ (stream[m[1]] = "cancelled" /\ m = Current(m[1]))
<1>7. outcome[m] = CASE Processed(m) -> "delivered"
                     [] m \in dropped -> "refused"
                     [] Gone -> "lost"
                     [] Adm -> "admitted"
                     [] OTHER -> "new"
  BY DEF outcome
<1>8. Gone <=> Lost(m)
  BY <1>6
<1> HIDE DEF Adm, Gone
<1>9. QED
  BY <1>1, <1>2, <1>3, <1>4, <1>5, <1>7, <1>8 DEF Fate

FatesKnown == outcome = [m \in Msg |-> Fate(m)]

\* What has become of every message is decided by where it is.
LEMMA PlacesDecide == PlaceInv => FatesKnown
<1>1. PlaceInv => \A m \in Msg : outcome[m] = Fate(m)
  BY FateOf
<1>2. outcome = [m \in Msg |-> outcome[m]]
  BY DEF outcome
<1>3. QED
  BY <1>1, <1>2 DEF FatesKnown

\* Only what is in hand, held or with a task can be lost.
LEMMA LostIs ==
  ASSUME NEW m
  PROVE  /\ Lost(m) => At(m) \cap {"hand", "held", "task"} # {}
         /\ Lost(m)' => At(m)' \cap {"hand", "held", "task"} # {}
         /\ "hand" \notin At(m) => ~Cancelled(m)
         /\ "hand" \notin At(m)' => ~Cancelled(m)'
         /\ "held" \notin At(m) /\ "task" \notin At(m) => ~Died(m)
         /\ "held" \notin At(m)' /\ "task" \notin At(m)' => ~Died(m)'
<1>1. /\ "hand" \notin At(m) => ~Cancelled(m)
      /\ "hand" \notin At(m)' => ~Cancelled(m)'
  BY AtIs DEF Cancelled, Waiting, InHand
<1>2. /\ "held" \notin At(m) /\ "task" \notin At(m) => ~Died(m)
      /\ "held" \notin At(m)' /\ "task" \notin At(m)' => ~Died(m)'
  BY AtIs DEF Died, Popped, Spawned
<1>3. QED
  BY <1>1, <1>2 DEF Lost

\* A stream task that is neither cancelled nor becomes so cancels no message.
LEMMA CancelledKept ==
  ASSUME \A r \in Subs : /\ stream'[r] = "cancelled" <=> stream[r] = "cancelled"
                         /\ stream[r] = "cancelled" => seen'[r] = seen[r]
  PROVE  \A k \in Msg : Cancelled(k)' <=> Cancelled(k)
<1>1. \A k \in Msg : k[1] \in Subs
  BY DEF Msg
<1>2. QED
  BY <1>1 DEF Cancelled

\* No message dies unless its thread or its task does.
LEMMA DiedKept ==
  ASSUME \A t \in Subs : /\ worker'[t] = "panicked" <=> worker[t] = "panicked"
                         /\ worker[t] = "panicked" => held'[t] = held[t],
         NEW k, task'[k] = "panicked" <=> task[k] = "panicked"
  PROVE  Died(k)' <=> Died(k)
BY DEF Died

\* Nothing becomes of a message that is where it was.
LEMMA NoNews ==
  ASSUME FatesKnown, FatesKnown',
         \A k \in Msg : At(k)' = At(k) /\ (Lost(k)' <=> Lost(k))
  PROVE  outcome' = outcome
<1>1. \A k \in Msg : Fate(k)' = Fate(k)
  BY DEF Fate
<1>2. QED
  BY <1>1 DEF FatesKnown

\* Of one message something becomes.
LEMMA NewFate ==
  ASSUME FatesKnown, FatesKnown', NEW m \in Msg,
         \A k \in Msg \ {m} : At(k)' = At(k) /\ (Lost(k)' <=> Lost(k))
  PROVE  Contract!Become(m, Fate(m), Fate(m)')
<1>1. \A k \in Msg \ {m} : Fate(k)' = Fate(k)
  BY DEF Fate
<1>2. outcome[m] = Fate(m)
  BY DEF FatesKnown
<1>3. outcome' = [outcome EXCEPT ![m] = Fate(m)']
  BY <1>1 DEF FatesKnown
<1>4. QED
  BY <1>2, <1>3 DEF Contract!Become

-----------------------------------------------------------------------------
(* Who holds a place. *)

\* Places are held by queued messages and by tasks with a permit.
LEMMA HoldingSize ==
  ASSUME TypeInv
  PROVE  /\ Cardinality(holding) \in Nat
         /\ Cardinality(holding) <= Len(queue) + Cardinality(Busy)
         /\ queue = <<>> => holding = Busy
<1> DEFINE R == {queue[i] : i \in DOMAIN queue}
<1>1. queue \in Seq(Msg) /\ Len(queue) \in Nat /\ DOMAIN queue = 1..Len(queue)
  BY DEF TypeInv, TypeOK
<1>2. queue \in Surjection(1..Len(queue), R)
  BY <1>1 DEF Surjection
<1>3. IsFiniteSet(1..Len(queue)) /\ Cardinality(1..Len(queue)) = Len(queue)
  BY <1>1, FS_Interval
<1>4. IsFiniteSet(R) /\ Cardinality(R) <= Len(queue)
  BY <1>2, <1>3, FS_Surjection
<1>5. holding = R \cup Busy
  BY DEF holding
<1>6. queue = <<>> => R = {}
  OBVIOUS
<1> HIDE DEF R
<1>7. IsFiniteSet(Busy) /\ Cardinality(Busy) \in Nat /\ Cardinality(R) \in Nat
  BY <1>4, Finiteness, FS_CardinalityType
<1>8. IsFiniteSet(R \cap Busy) /\ Cardinality(R \cap Busy) \in Nat
  BY <1>7, FS_Subset, FS_CardinalityType
<1>9. /\ IsFiniteSet(holding)
      /\ Cardinality(holding) = Cardinality(R) + Cardinality(Busy) - Cardinality(R \cap Busy)
  BY <1>4, <1>5, <1>7, FS_Union
<1>10. Cardinality(holding) \in Nat
  BY <1>9, FS_CardinalityType
<1>11. QED
  BY <1>1, <1>4, <1>5, <1>6, <1>7, <1>8, <1>9, <1>10

\* The contract counts as the processor does.
LEMMA ContractCounts ==
  ASSUME NEW S
  PROVE  Contract!Cardinality(S) = Cardinality(S)
BY DEF Contract!Cardinality, Cardinality, Contract!IsFiniteSet, IsFiniteSet

\* A stream task past its load finds room.
LEMMA RoomForOne ==
  ASSUME TypeInv, CountInv, NEW s \in Subs, stream[s] \in {"push", "admit"}
  PROVE  Cardinality(holding) < Capacity
<1>1. s \in Deciding
  BY DEF Deciding
<1>2. Cardinality(Deciding) >= 1
  BY <1>1, Finiteness, FS_EmptySet
<1>3. CountsAreNat
  BY CountTypes DEF CountsAreNat, TypeInv
<1>4. Capacity = Permits + Cardinality(Subs) - 1
  BY DEF Capacity
<1> HIDE DEF Capacity
<1>5. Capacity \in Int
  BY <1>3, <1>4 DEF CountsAreNat
<1>6. Len(queue) + Cardinality(Taken) + Cardinality(Busy) + Cardinality(Deciding) <= Capacity
  BY DEF CountInv, AdmissionBounded
<1>7. QED
  BY <1>2, <1>3, <1>5, <1>6, HoldingSize DEF CountsAreNat

\* Under Drop the counter is the number of tasks with a permit.
LEMMA DropCounts ==
  ASSUME TypeInv, Tidy, CountInv, Strategy = "Drop"
  PROVE  pending = Cardinality(holding)
<1>1. queue = <<>> /\ Taken = {} /\ Uncounted = {}
  BY DEF Tidy, Taken, Uncounted
<1>2. Len(queue) = 0 /\ Cardinality(Taken) = 0 /\ Cardinality(Uncounted) = 0
  BY <1>1, FS_EmptySet
<1>3. CountsAreNat
  BY CountTypes DEF CountsAreNat, TypeInv
<1>4. pending = Cardinality(Busy)
  BY <1>2, <1>3 DEF CountInv, PendingAccurate, Backlog, Wrapped, CountsAreNat
<1>5. QED
  BY <1>1, <1>4, HoldingSize

-----------------------------------------------------------------------------
(* Every step is a step of the contract, or none. *)

Ready == PlaceInv /\ CountInv /\ FatesKnown

\* What is moved, and that nothing else is.
LEMMA MoveIs ==
  ASSUME PlaceInv, NEW m \in Msg, NEW from, NEW to, Moves(m, from, to)
  PROVE  At(m) = {from} /\ At(m)' = {to} /\ \A k \in Msg \ {m} : At(k)' = At(k)
BY MovesKeepsSingle DEF PlaceInv, Moves

\* Moves of a stream task that keep the message in hand or have none.
LEMMA StreamStutters ==
  ASSUME Ready, FatesKnown', NEW s \in Subs, NEW from, NEW to,
         StreamGoes(s, from, to), seen' = seen,
         from \in {"load", "yield", "push", "admit", "cancelled"}
           <=> to \in {"load", "yield", "push", "admit", "cancelled"},
         from # "cancelled", to # "cancelled",
         \A t \in Subs : worker'[t] = "panicked" <=> worker[t] = "panicked",
         UNCHANGED <<queue, held, calls, task, dropped>>
  PROVE  UNCHANGED <<holding, outcome>>
<1>0. TypeInv
  BY DEF Ready, PlaceInv
<1>1. \A k \in Msg : At(k)' = At(k)
  BY <1>0, StreamStays DEF Stays
<1>2. \A r \in Subs : stream'[r] = "cancelled" <=> stream[r] = "cancelled"
  BY <1>0 DEF StreamGoes, TypeInv, TypeOK
<1>3. \A k \in Msg : Lost(k)' <=> Lost(k)
  BY <1>2, CancelledKept, DiedKept DEF Lost
<1>4. outcome' = outcome
  BY <1>1, <1>3, NoNews DEF Ready
<1>5. holding' = holding
  BY DEF holding, Busy
<1>6. QED
  BY <1>4, <1>5

\* A message fresh from the stream is still new.
LEMMA ReceiveStutters ==
  ASSUME Ready, FatesKnown', NEW s \in Subs, Receive(s)
  PROVE  UNCHANGED <<holding, outcome>>
<1>0. TypeInv /\ Single
  BY DEF Ready, PlaceInv
<1>1. UNCHANGED <<queue, held, worker, task, dropped, calls>>
  BY DEF Receive, shared, workers
<1>2. \A r \in Subs : /\ stream'[r] = "cancelled" <=> stream[r] = "cancelled"
                      /\ stream[r] = "cancelled" => seen'[r] = seen[r]
  BY <1>0 DEF Receive, StreamGoes, TypeInv, TypeOK
<1>3. \A k \in Msg : Lost(k)' <=> Lost(k)
  BY <1>1, <1>2, CancelledKept, DiedKept DEF Lost
<1>4. PICK n \in Msg : /\ At(n) = {} /\ At(n)' = {"hand"}
                       /\ \A k \in Msg \ {n} : At(k)' = At(k)
  BY <1>0, ReceiveTakes
<1>5. Fate(n)' = Fate(n)
  BY <1>3, <1>4 DEF Fate
<1>6. \A k \in Msg : Fate(k)' = Fate(k)
  BY <1>3, <1>4, <1>5 DEF Fate
<1>7. outcome' = outcome
  BY <1>6 DEF Ready, FatesKnown
<1>8. holding' = holding
  BY <1>1 DEF holding, Busy
<1>9. QED
  BY <1>7, <1>8

\* The stream task is cancelled at its await.
LEMMA AbortForgets ==
  ASSUME Ready, FatesKnown', NEW s \in Subs, BlockAborted(s)
  PROVE  \E m \in Msg : Contract!Forget(m)
<1>0. TypeInv /\ Single /\ Tidy
  BY DEF Ready, PlaceInv
<1>1. /\ StreamGoes(s, "yield", "cancelled") /\ seen' = seen
      /\ UNCHANGED <<queue, held, worker, calls, task, dropped>>
      /\ stream[s] = "yield" /\ stream'[s] = "cancelled"
      /\ \A r \in Subs \ {s} : stream'[r] = stream[r]
  BY <1>0 DEF BlockAborted, StreamGoes, shared, workers, TypeInv, TypeOK
<1>2. PICK m \in Msg : m = Current(s)
  BY <1>0, <1>1, CurrentIsMsg
<1>3. m[1] = s /\ m[2] = seen[s]
  BY <1>2 DEF Current
<1>4. \A k \in Msg : At(k)' = At(k)
  BY <1>0, <1>1, StreamStays DEF Stays
<1>5. At(m) = {"hand"}
  <2>1. InHand(s)
    BY <1>1 DEF InHand
  <2>2. "hand" \in At(m) /\ Received(m)
    BY <1>0, <1>2, <2>1, CurrentWaits, AtIs
  <2>3. QED
    BY <1>0, <2>2 DEF Single
<1>6. \A k \in Msg \ {m} : Lost(k)' <=> Lost(k)
  <2>1. ASSUME NEW k \in Msg \ {m}
        PROVE  Cancelled(k)' <=> Cancelled(k)
    <3>1. k[1] \in Subs /\ (k[1] # s \/ k[2] # seen[s])
      BY <1>2 DEF Msg, Current
    <3>2. QED
      BY <1>1, <3>1 DEF Cancelled
  <2>2. QED
    BY <1>1, <2>1, DiedKept DEF Lost
<1>7. Fate(m) = "new"
  <2>1. ~Lost(m)
    BY <1>1, <1>3, <1>5, LostIs DEF Lost, Cancelled
  <2>2. QED
    BY <1>5, <2>1 DEF Fate
<1>8. Fate(m)' = "lost"
  <2>1. Lost(m)'
    BY <1>1, <1>3 DEF Lost, Cancelled
  <2>2. QED
    BY <1>4, <1>5, <2>1 DEF Fate
<1>9. Contract!Become(m, "new", "lost")
  BY <1>4, <1>6, <1>7, <1>8, NewFate DEF Ready
<1>10. holding' = holding
  BY <1>1 DEF holding, Busy
<1>11. ~(Strategy = "Drop")
  BY <1>0, <1>1 DEF Tidy
<1>12. QED
  BY <1>9, <1>10, <1>11 DEF Contract!Forget

\* A push is an admission: the load before it found room.
LEMMA PushAdmits ==
  ASSUME Ready, FatesKnown', NEW s \in Subs, BlockPush(s)
  PROVE  \E m \in Msg : Contract!Admit(m)
<1>0. TypeInv /\ CountInv /\ PlaceInv
  BY DEF Ready, PlaceInv
<1>1. /\ seen' = seen /\ UNCHANGED <<held, worker, calls, task, dropped>>
      /\ stream[s] = "push" /\ stream'[s] = "count"
      /\ \A r \in Subs \ {s} : stream'[r] = stream[r]
  BY <1>0 DEF BlockPush, StreamGoes, workers, TypeInv, TypeOK
<1>2. PICK m \in Msg : m = Current(s)
  BY <1>0, <1>1, CurrentIsMsg
<1>3. /\ At(m) = {"hand"} /\ At(m)' = {"queue"}
      /\ \A k \in Msg \ {m} : At(k)' = At(k)
  BY <1>0, <1>2, PushMoves, MoveIs
<1>4. \A k \in Msg : Lost(k)' <=> Lost(k)
  BY <1>1, CancelledKept, DiedKept DEF Lost
<1>5. ~Lost(m)
  BY <1>3, <1>4, LostIs
<1>6. Fate(m) = "new" /\ Fate(m)' = "admitted"
  BY <1>3, <1>4, <1>5 DEF Fate
<1>7. Contract!Become(m, "new", "admitted")
  BY <1>3, <1>4, <1>6, NewFate DEF Ready
<1>8. holding' = holding \cup {m}
  <2>1. queue \in Seq(Msg) /\ queue' = Append(queue, m)
    BY <1>0, <1>2 DEF BlockPush, TypeInv, TypeOK
  <2>2. {queue'[i] : i \in DOMAIN queue'} = {queue[i] : i \in DOMAIN queue} \cup {m}
    BY <2>1
  <2>3. QED
    BY <1>1, <2>2 DEF holding, Busy
<1>9. Cardinality(holding) < Capacity
  BY <1>0, <1>1, RoomForOne
<1>10. QED
  BY <1>7, <1>8, <1>9, ContractCounts DEF Contract!Admit

\* So is a spawn.
LEMMA SpawnAdmits ==
  ASSUME Ready, FatesKnown', NEW s \in Subs, DropSpawn(s)
  PROVE  \E m \in Msg : Contract!Admit(m)
<1>0. TypeInv /\ CountInv /\ PlaceInv
  BY DEF Ready, PlaceInv
<1>1. /\ seen' = seen /\ UNCHANGED <<queue, held, worker, calls, dropped>>
      /\ stream[s] = "admit" /\ stream'[s] = "recv"
      /\ \A r \in Subs \ {s} : stream'[r] = stream[r]
  BY <1>0 DEF DropSpawn, StreamGoes, workers, TypeInv, TypeOK
<1>2. PICK m \in Msg : m = Current(s)
  BY <1>0, <1>1, CurrentIsMsg
<1>3. /\ At(m) = {"hand"} /\ At(m)' = {"task"}
      /\ \A k \in Msg \ {m} : At(k)' = At(k)
  BY <1>0, <1>2, SpawnMoves, MoveIs
<1>4. task[m] = "none" /\ task'[m] = "run" /\ \A k \in Msg \ {m} : task'[k] = task[k]
  BY <1>0, <1>2 DEF DropSpawn, TaskGoes, TypeInv, TypeOK
<1>5. \A k \in Msg : Lost(k)' <=> Lost(k)
  BY <1>1, <1>4, CancelledKept, DiedKept DEF Lost
<1>6. ~Lost(m)
  <2>1. m[1] = s
    BY <1>2 DEF Current
  <2>2. QED
    BY <1>1, <1>3, <2>1, LostIs DEF Lost, Cancelled
<1>7. Fate(m) = "new" /\ Fate(m)' = "admitted"
  BY <1>3, <1>5, <1>6 DEF Fate
<1>8. Contract!Become(m, "new", "admitted")
  BY <1>3, <1>5, <1>7, NewFate DEF Ready
<1>9. holding' = holding \cup {m}
  BY <1>1, <1>4 DEF holding, Busy
<1>10. Cardinality(holding) < Capacity
  BY <1>0, <1>1, RoomForOne
<1>11. QED
  BY <1>8, <1>9, <1>10, ContractCounts DEF Contract!Admit

\* A refusal finds permits tasks at work.
LEMMA RefusalRefuses ==
  ASSUME Ready, FatesKnown', NEW s \in Subs, DropLoad(s), ~(pending < Permits)
  PROVE  \E m \in Msg : Contract!Refuse(m)
<1>0. TypeInv /\ CountInv /\ PlaceInv /\ Tidy
  BY DEF Ready, PlaceInv
<1>1. /\ Strategy = "Drop" /\ pending >= Permits
      /\ seen' = seen /\ UNCHANGED <<queue, held, worker, calls, task>>
      /\ stream[s] = "load" /\ stream'[s] = "recv"
      /\ \A r \in Subs \ {s} : stream'[r] = stream[r]
  BY <1>0 DEF DropLoad, StreamGoes, shared, workers, TypeInv, TypeOK
<1>2. PICK m \in Msg : m = Current(s)
  BY <1>0, <1>1, CurrentIsMsg
<1>3. /\ At(m) = {"hand"} /\ At(m)' = {"refused"}
      /\ \A k \in Msg \ {m} : At(k)' = At(k)
  BY <1>0, <1>1, <1>2, RefusalMoves, MoveIs
<1>4. \A k \in Msg : Lost(k)' <=> Lost(k)
  BY <1>1, CancelledKept, DiedKept DEF Lost
<1>5. ~Lost(m)
  BY <1>3, <1>4, LostIs
<1>6. Fate(m) = "new" /\ Fate(m)' = "refused"
  BY <1>3, <1>4, <1>5 DEF Fate
<1>7. Contract!Become(m, "new", "refused")
  BY <1>3, <1>4, <1>6, NewFate DEF Ready
<1>8. holding' = holding
  BY <1>1 DEF holding, Busy
<1>9. Cardinality(holding) >= Permits
  BY <1>0, <1>1, DropCounts
<1>10. QED
  BY <1>1, <1>7, <1>8, <1>9, ContractCounts DEF Contract!Refuse

\* The callback run by a task is a delivery.
LEMMA TaskDelivers ==
  ASSUME Ready, FatesKnown', NEW m \in Msg, TaskProcess(m)
  PROVE  Contract!Deliver(m)
<1>0. TypeInv /\ PlaceInv
  BY DEF Ready, PlaceInv
<1>1. /\ UNCHANGED <<stream, seen, queue, worker, held>>
      /\ task[m] = "run" /\ task'[m] = "release" /\ \A k \in Msg \ {m} : task'[k] = task[k]
  BY <1>0 DEF TaskProcess, TaskGoes, streams, shared, workers, TypeInv, TypeOK
<1>2. /\ At(m) = {"task"} /\ At(m)' = {"past"}
      /\ \A k \in Msg \ {m} : At(k)' = At(k)
  BY <1>0, TaskMoves, MoveIs
<1>3. \A k \in Msg : Lost(k)' <=> Lost(k)
  BY <1>1, CancelledKept, DiedKept DEF Lost
<1>4. ~Lost(m)
  BY <1>2, <1>3, LostIs
<1>5. Fate(m) = "admitted" /\ Fate(m)' = "delivered"
  BY <1>2, <1>4 DEF Fate
<1>6. Contract!Become(m, "admitted", "delivered")
  BY <1>2, <1>3, <1>5, NewFate DEF Ready
<1>7. holding' = holding
  BY <1>1 DEF holding, Busy
<1>8. QED
  BY <1>6, <1>7 DEF Contract!Deliver

\* A task that panics loses its message.
LEMMA TaskLoses ==
  ASSUME Ready, FatesKnown', NEW m \in Msg, TaskPanics(m)
  PROVE  Contract!Lose(m)
<1>0. TypeInv /\ PlaceInv
  BY DEF Ready, PlaceInv
<1>1. /\ UNCHANGED <<stream, seen, queue, worker, held>>
      /\ task[m] = "run" /\ task'[m] = "panicked" /\ \A k \in Msg \ {m} : task'[k] = task[k]
  BY <1>0 DEF TaskPanics, TaskGoes, streams, shared, workers, TypeInv, TypeOK
<1>2. \A k \in Msg : At(k)' = At(k)
  BY <1>0, TaskStays DEF Stays
<1>3. At(m) = {"task"}
  <2>1. "task" \in At(m)
    BY <1>1, AtIs DEF Spawned
  <2>2. QED
    BY <1>0, <2>1 DEF PlaceInv, Single
<1>4. \A k \in Msg \ {m} : Lost(k)' <=> Lost(k)
  BY <1>1, CancelledKept, DiedKept DEF Lost
<1>5. ~Lost(m)
  <2>1. ~Cancelled(m) /\ ~Popped(m)
    BY <1>3, LostIs, AtIs
  <2>2. QED
    BY <1>1, <2>1 DEF Lost, Died, Popped
<1>6. Lost(m)'
  BY <1>1 DEF Lost, Died
<1>7. Fate(m) = "admitted" /\ Fate(m)' = "lost"
  BY <1>2, <1>3, <1>5, <1>6 DEF Fate
<1>8. Contract!Become(m, "admitted", "lost")
  BY <1>2, <1>4, <1>7, NewFate DEF Ready
<1>9. holding' = holding
  BY <1>1 DEF holding, Busy
<1>10. QED
  BY <1>8, <1>9 DEF Contract!Lose

\* A permit given back is a place left, after the delivery.
LEMMA ReleaseLeaves ==
  ASSUME Ready, FatesKnown', NEW m \in Msg, TaskRelease(m)
  PROVE  Contract!Leave(m)
<1>0. TypeInv /\ PlaceInv /\ Tidy
  BY DEF Ready, PlaceInv
<1>1. /\ UNCHANGED <<stream, seen, queue, worker, held>>
      /\ task[m] = "release" /\ task'[m] = "done" /\ \A k \in Msg \ {m} : task'[k] = task[k]
  BY <1>0 DEF TaskRelease, TaskGoes, streams, workers, TypeInv, TypeOK
<1>2. \A k \in Msg : At(k)' = At(k)
  BY <1>0, TaskStays DEF Stays
<1>3. \A k \in Msg : Lost(k)' <=> Lost(k)
  BY <1>1, CancelledKept, DiedKept DEF Lost
<1>4. outcome' = outcome
  BY <1>2, <1>3, NoNews DEF Ready
<1>5. ~Queued(m)
  <2>1. "past" \in At(m)
    BY <1>0, <1>1, AtIs DEF Tidy
  <2>2. "queue" \notin At(m)
    BY <1>0, <2>1 DEF PlaceInv, Single
  <2>3. QED
    BY <2>2, AtIs
<1>6. m \in holding /\ holding' = holding \ {m}
  <2>1. m \in Busy /\ Busy' = Busy \ {m}
    BY <1>1 DEF Busy
  <2>2. m \notin {queue[i] : i \in DOMAIN queue}
    BY <1>5 DEF Queued
  <2>3. QED
    BY <1>1, <2>1, <2>2 DEF holding
<1>7. QED
  BY <1>4, <1>6 DEF Contract!Leave

\* A pop is a place left, before the delivery.
LEMMA PopLeaves ==
  ASSUME Ready, FatesKnown', NEW t \in Subs, WorkerPop(t)
  PROVE  \E m \in Msg : Contract!Leave(m)
<1>0. TypeInv /\ PlaceInv /\ Tidy /\ Once
  BY DEF Ready, PlaceInv
<1>1. /\ UNCHANGED <<stream, seen, task>>
      /\ queue \in Seq(Msg) /\ queue # <<>> /\ queue' = Tail(queue)
      /\ worker[t] = "pop" /\ worker'[t] = "sub" /\ held[t] = NoMsg /\ held'[t] = Head(queue)
      /\ \A u \in Subs \ {t} : worker'[u] = worker[u] /\ held'[u] = held[u]
  BY <1>0 DEF WorkerPop, WorkerGoes, streams, TypeInv, TypeOK, Tidy
<1>2. PICK m \in Msg : m = Head(queue)
  BY <1>1
<1>3. /\ At(m) = {"queue"} /\ At(m)' = {"held"}
      /\ \A k \in Msg \ {m} : At(k)' = At(k)
  BY <1>0, <1>2, PopMoves, MoveIs
<1>4. \A k \in Msg : Lost(k)' <=> Lost(k)
  BY <1>1, CancelledKept, DiedKept DEF Lost
<1>5. ~Lost(m)
  BY <1>3, LostIs
<1>6. Fate(m)' = Fate(m)
  BY <1>3, <1>4, <1>5 DEF Fate
<1>7. \A k \in Msg : Fate(k)' = Fate(k)
  BY <1>3, <1>4, <1>6 DEF Fate
<1>8. outcome' = outcome
  BY <1>7 DEF Ready, FatesKnown
<1>9. m \notin Busy
  <2>1. ~Spawned(m) /\ ~Processed(m)
    BY <1>3, AtIs
  <2>2. QED
    BY <1>0, <2>1 DEF Busy, Spawned, Tidy
<1>10. m \in holding /\ holding' = holding \ {m}
  <2> DEFINE R == {queue[i] : i \in DOMAIN queue}
             T == {queue'[i] : i \in DOMAIN queue'}
  <2>1. /\ 1 \in DOMAIN queue /\ queue[1] = m
        /\ \A i \in DOMAIN queue' : i \in Nat /\ i + 1 \in DOMAIN queue /\ i + 1 # 1 /\ queue'[i] = queue[i + 1]
        /\ \A i \in DOMAIN queue : i # 1 => i - 1 \in DOMAIN queue' /\ queue'[i - 1] = queue[i]
    BY <1>1, <1>2
  <2>2. \A i, j \in DOMAIN queue : queue[i] = queue[j] => i = j
    BY <1>0 DEF Once
  <2>3. m \in R
    BY <2>1
  <2>4. \A x : x \in T => x \in R \ {m}
    BY <2>1, <2>2
  <2>5. \A x : x \in R \ {m} => x \in T
    BY <2>1
  <2>6. holding = R \cup Busy /\ holding' = T \cup Busy
    BY <1>1 DEF holding, Busy
  <2> HIDE DEF R, T
  <2>7. QED
    BY <1>9, <2>3, <2>4, <2>5, <2>6
<1>11. QED
  BY <1>8, <1>10 DEF Contract!Leave

\* The callback run by a processing thread is a delivery.
LEMMA WorkerDelivers ==
  ASSUME Ready, FatesKnown', NEW t \in Subs, WorkerProcess(t)
  PROVE  \E m \in Msg : Contract!Deliver(m)
<1>0. TypeInv /\ PlaceInv /\ Once
  BY DEF Ready, PlaceInv
<1>1. /\ UNCHANGED <<stream, seen, queue, task>>
      /\ worker[t] = "run" /\ worker'[t] = "check" /\ held[t] \in Msg
      /\ \A u \in Subs \ {t} : worker'[u] = worker[u] /\ held'[u] = held[u]
  BY <1>0 DEF WorkerProcess, WorkerGoes, shared, streams, TypeInv, TypeOK, InHandReceived
<1>2. PICK m \in Msg : m = held[t]
  BY <1>1
<1>3. /\ At(m) = {"held"} /\ At(m)' = {"past"}
      /\ \A k \in Msg \ {m} : At(k)' = At(k)
  BY <1>0, <1>2, ProcessMoves, MoveIs
<1>4. \A k \in Msg : Lost(k)' <=> Lost(k)
  BY <1>1, CancelledKept, DiedKept DEF Lost
<1>5. ~Lost(m)
  BY <1>3, <1>4, LostIs
<1>6. Fate(m) = "admitted" /\ Fate(m)' = "delivered"
  BY <1>3, <1>5 DEF Fate
<1>7. Contract!Become(m, "admitted", "delivered")
  BY <1>3, <1>4, <1>6, NewFate DEF Ready
<1>8. holding' = holding
  BY <1>1 DEF holding, Busy
<1>9. QED
  BY <1>7, <1>8 DEF Contract!Deliver

\* A processing thread that panics loses the message it holds.
LEMMA WorkerLoses ==
  ASSUME Ready, FatesKnown', NEW t \in Subs, WorkerPanics(t)
  PROVE  \E m \in Msg : Contract!Lose(m)
<1>0. TypeInv /\ PlaceInv /\ Once
  BY DEF Ready, PlaceInv
<1>1. /\ UNCHANGED <<stream, seen, queue, task, held, dropped, calls>>
      /\ worker[t] = "run" /\ worker'[t] = "panicked" /\ held[t] \in Msg
      /\ \A u \in Subs \ {t} : worker'[u] = worker[u]
  BY <1>0 DEF WorkerPanics, WorkerGoes, shared, streams, TypeInv, TypeOK, InHandReceived
<1>2. PICK m \in Msg : m = held[t]
  BY <1>1
<1>3. \A k \in Msg : At(k)' = At(k)
  BY <1>1, NothingMoves DEF Stays
<1>4. At(m) = {"held"}
  <2>1. "held" \in At(m)
    BY <1>2, AtIs DEF Popped
  <2>2. QED
    BY <1>0, <2>1 DEF PlaceInv, Single
<1>5. \A k \in Msg : Cancelled(k)' <=> Cancelled(k)
  BY <1>1, CancelledKept
<1>6. \A k \in Msg \ {m} : Lost(k)' <=> Lost(k)
  <2>1. \A k \in Msg \ {m} : Died(k)' <=> Died(k)
    BY <1>1, <1>2 DEF Died
  <2>2. QED
    BY <1>5, <2>1 DEF Lost
<1>7. ~Lost(m)
  <2>1. ~Cancelled(m) /\ ~Spawned(m)
    BY <1>4, LostIs, AtIs
  <2>2. \A u \in Subs : held[u] = m => u = t
    BY <1>0, <1>2 DEF Once
  <2>3. QED
    BY <1>1, <2>1, <2>2 DEF Lost, Died, Spawned
<1>8. Lost(m)'
  BY <1>1, <1>2 DEF Lost, Died
<1>9. Fate(m) = "admitted" /\ Fate(m)' = "lost"
  BY <1>3, <1>4, <1>7, <1>8 DEF Fate
<1>10. Contract!Become(m, "admitted", "lost")
  BY <1>3, <1>6, <1>9, NewFate DEF Ready
<1>11. holding' = holding
  BY <1>1 DEF holding, Busy
<1>12. QED
  BY <1>10, <1>11 DEF Contract!Lose

\* The other steps move no message and end no thread in a panic.
LEMMA OthersStutter ==
  ASSUME Ready, FatesKnown',
         UNCHANGED <<queue, stream, seen, held, task, dropped, calls>>,
         \A t \in Subs : worker'[t] = "panicked" <=> worker[t] = "panicked"
  PROVE  UNCHANGED <<holding, outcome>>
<1>1. \A k \in Msg : At(k)' = At(k)
  BY NothingMoves DEF Stays
<1>2. \A k \in Msg : Lost(k)' <=> Lost(k)
  BY CancelledKept, DiedKept DEF Lost
<1>3. outcome' = outcome
  BY <1>1, <1>2, NoNews DEF Ready
<1>4. holding' = holding
  BY DEF holding, Busy
<1>5. QED
  BY <1>3, <1>4

\* Each action refines the action of the contract named above, or is a stutter.
LEMMA ContractStep ==
  ASSUME Ready, FatesKnown', [Next]_vars
  PROVE  [Contract!Next]_Contract!vars
<1>0. TypeInv
  BY DEF Ready, PlaceInv
<1>1. ASSUME UNCHANGED <<holding, outcome>>
      PROVE  [Contract!Next]_Contract!vars
  BY <1>1 DEF Contract!vars
<1>2. ASSUME NEW m \in Msg,
             \/ Contract!Admit(m) \/ Contract!Refuse(m) \/ Contract!Forget(m)
             \/ Contract!Deliver(m) \/ Contract!Lose(m) \/ Contract!Leave(m)
      PROVE  [Contract!Next]_Contract!vars
  BY <1>2 DEF Contract!Next
<1>3. ASSUME NEW s \in Subs, Start(s)
      PROVE  [Contract!Next]_Contract!vars
  <2>1. /\ StreamGoes(s, "off", "recv") /\ seen' = seen
        /\ UNCHANGED <<queue, held, calls, task, dropped>>
    BY <1>3 DEF Start
  <2>2. \A t \in Subs : worker'[t] = "panicked" <=> worker[t] = "panicked"
    BY <1>0, <1>3 DEF Start, WorkerGoes, TypeInv, TypeOK
  <2>3. QED
    BY <1>1, <2>1, <2>2, StreamStutters
<1>4. ASSUME NEW s \in Subs, StreamEnds(s) \/ BlockLoad(s) \/ BlockRetry(s) \/ BlockCount(s)
                               \/ (DropLoad(s) /\ pending < Permits)
      PROVE  [Contract!Next]_Contract!vars
  <2>1. /\ UNCHANGED <<seen, queue, calls, task, dropped, held, worker>>
        /\ \/ StreamGoes(s, "recv", "ended")
           \/ StreamGoes(s, "load", "push")
           \/ StreamGoes(s, "load", "yield")
           \/ StreamGoes(s, "yield", "load")
           \/ StreamGoes(s, "count", "recv")
           \/ StreamGoes(s, "load", "admit")
    <3>1. CASE StreamEnds(s) \/ BlockRetry(s) \/ BlockCount(s)
      BY <3>1 DEF StreamEnds, BlockRetry, BlockCount, shared, workers
    <3>2. CASE BlockLoad(s)
      BY <3>2 DEF BlockLoad, shared, workers
    <3>3. CASE DropLoad(s) /\ pending < Permits
      BY <1>0, <3>3, PermitsAssumption, WidthAssumption
         DEF DropLoad, shared, workers, TypeInv, TypeOK
    <3>4. QED
      BY <1>4, <3>1, <3>2, <3>3
  <2>2. QED
    BY <1>1, <2>1, StreamStutters
<1>5. ASSUME NEW t \in Subs, WorkerCheck(t) \/ WorkerFindsNothing(t) \/ WorkerUncount(t)
      PROVE  [Contract!Next]_Contract!vars
  <2>1. /\ UNCHANGED <<queue, stream, seen, held, task, dropped, calls>>
        /\ \A u \in Subs : worker'[u] = "panicked" <=> worker[u] = "panicked"
    BY <1>0, <1>5 DEF WorkerCheck, WorkerFindsNothing, WorkerUncount, WorkerGoes,
                      shared, streams, TypeInv, TypeOK
  <2>2. QED
    BY <1>1, <2>1, OthersStutter
<1>6. CASE StopProcessing \/ UNCHANGED vars
  <2>1. /\ UNCHANGED <<queue, stream, seen, held, task, dropped, calls>>
        /\ worker' = worker
    BY <1>6 DEF StopProcessing, vars, streams, workers
  <2>2. QED
    BY <1>1, <2>1, OthersStutter
<1>7. ASSUME NEW s \in Subs, Stream(s)
      PROVE  [Contract!Next]_Contract!vars
  BY <1>1, <1>2, <1>3, <1>4, <1>7, ReceiveStutters, AbortForgets, PushAdmits, SpawnAdmits,
     RefusalRefuses DEF Stream, Offer
<1>8. ASSUME NEW t \in Subs, Worker(t)
      PROVE  [Contract!Next]_Contract!vars
  BY <1>2, <1>5, <1>8, PopLeaves, WorkerDelivers, WorkerLoses DEF Worker
<1>9. ASSUME NEW m \in Msg, Task(m)
      PROVE  [Contract!Next]_Contract!vars
  BY <1>2, <1>9, TaskDelivers, TaskLoses, ReleaseLeaves DEF Task
<1>10. QED
  BY <1>6, <1>7, <1>8, <1>9 DEF Next

\* Drop drops only under load: whenever a message is dropped, at least permits spawned
\* tasks are unfinished (or have died with their permit).
THEOREM RefusedUnderLoad == Spec => DropOnlyUnderLoad
<1>1. ASSUME TypeInv, Tidy, CountInv, [Next]_vars
      PROVE  [dropped' # dropped => Cardinality(Busy) >= Permits]_vars
  <2>1. ASSUME dropped' # dropped
        PROVE  Strategy = "Drop" /\ pending >= Permits
    BY <1>1, <2>1, PermitsAssumption, WidthAssumption
       DEF Next, Stream, Offer, Worker, Task, Start, Receive, StreamEnds, BlockLoad, BlockRetry,
           BlockAborted, BlockPush, BlockCount, DropLoad, DropSpawn, TaskProcess, TaskPanics,
           TaskRelease, WorkerCheck, WorkerFindsNothing, WorkerPop, WorkerUncount, WorkerProcess,
           WorkerPanics, StopProcessing, streams, vars, TypeInv, TypeOK
  <2>2. ASSUME Strategy = "Drop", pending >= Permits
        PROVE  Cardinality(Busy) >= Permits
    <3>1. holding = Busy
      BY <1>1, <2>2, HoldingSize DEF Tidy
    <3>2. QED
      BY <1>1, <2>2, <3>1, DropCounts
  <2>3. QED
    BY <2>1, <2>2
<1>2. IInv => CountInv
  BY DEF IInv, CountInv
<1>3. PlaceInv => TypeInv /\ Tidy
  BY DEF PlaceInv
<1>4. QED
  BY <1>1, <1>2, <1>3, PlaceInvariance, Invariance, PTL DEF Spec, DropOnlyUnderLoad

\* The processor implements BoundedDelivery: bounded admission, at most one delivery
\* of a message, no refusal while there is room.
THEOREM Implementation == Spec => ImplementsContract
<1>1. Init => Contract!Init
  <2> SUFFICES ASSUME Init
               PROVE  Contract!Init
    OBVIOUS
  <2>1. PlaceInv /\ FatesKnown
    BY InitPlaceInv, PlacesDecide
  <2>2. ASSUME NEW m \in Msg
        PROVE  Fate(m) = "new"
    <3>1. ~Received(m)
      BY MaxMsgsAssumption DEF Init, Received, Msg
    <3>2. At(m) = {}
      BY <2>1, <3>1 DEF PlaceInv, Single
    <3>3. QED
      BY <3>2, LostIs DEF Fate
  <2>3. outcome = [m \in Msg |-> "new"]
    BY <2>1, <2>2 DEF FatesKnown
  <2>4. holding = {}
    BY DEF Init, holding, Busy
  <2>5. QED
    BY <2>3, <2>4 DEF Contract!Init
<1>2. IInv => CountInv
  BY DEF IInv, CountInv
<1>3. PlaceInv /\ CountInv /\ FatesKnown /\ FatesKnown' /\ [Next]_vars
        => [Contract!Next]_Contract!vars
  BY ContractStep DEF Ready
<1>4. QED
  BY <1>1, <1>2, <1>3, PlacesDecide, PlaceInvariance, Invariance, PTL
     DEF Spec, ImplementsContract, Contract!Spec
=============================================================================
