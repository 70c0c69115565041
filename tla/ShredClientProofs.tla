-------------------------- MODULE ShredClientProofs --------------------------
(***************************************************************************)
(* Proofs about ShredClient, for any number of callers and subscriptions:  *)
(* while calls of subscribe do not overlap and none fails or is dropped,   *)
(* at most one stream runs, and stop can reach whatever does.              *)
(***************************************************************************)
EXTENDS ShredClient, TLAPS

\* Every step keeps the types and what the callers know.
LEMMA LocalStep ==
  ASSUME TypeOK, LocalState, [Next]_vars
  PROVE  TypeOK' /\ LocalState'
<1> USE DEF TypeOK, LocalState, Holding, Goes, Returns, tasks, work, history
<1>1. CASE UNCHANGED vars
  BY <1>1 DEF vars
<1>2. ASSUME NEW c \in Callers, Call(c)
      PROVE  TypeOK' /\ LocalState'
  BY <1>2 DEF Call
<1>3. ASSUME NEW c \in Callers, Stop(c)
      PROVE  TypeOK' /\ LocalState'
  <2>1. TypeOK'
    BY <1>3 DEF Stop, TakeHandle
  <2>2. LocalState'
    BY <1>3, NoSubAssumption DEF Stop, TakeHandle
  <2>3. QED
    BY <2>1, <2>2
<1>4. ASSUME NEW c \in Callers, StopFirst(c)
      PROVE  TypeOK' /\ LocalState'
  <2>1. TypeOK'
    BY <1>4 DEF StopFirst, TakeHandle
  <2>2. LocalState'
    BY <1>4, NoSubAssumption DEF StopFirst, TakeHandle
  <2>3. QED
    BY <2>1, <2>2
<1>5. ASSUME NEW c \in Callers, NEW s \in Subs, Prepare(c, s)
      PROVE  TypeOK' /\ LocalState'
  <2>1. TypeOK'
    BY <1>5 DEF Prepare
  <2>2. LocalState'
    BY <1>5 DEF Prepare
  <2>3. QED
    BY <2>1, <2>2
<1>6. ASSUME NEW c \in Callers, Connect(c)
      PROVE  TypeOK' /\ LocalState'
  <2>1. TypeOK'
    BY <1>6 DEF Connect
  <2>2. LocalState'
    BY <1>6 DEF Connect
  <2>3. QED
    BY <2>1, <2>2
<1>7. ASSUME NEW c \in Callers, ConnectFails(c)
      PROVE  TypeOK' /\ LocalState'
  <2>1. TypeOK'
    BY <1>7 DEF ConnectFails
  <2>2. LocalState'
    BY <1>7 DEF ConnectFails
  <2>3. QED
    BY <2>1, <2>2
<1>8. ASSUME NEW c \in Callers, DroppedUnsaved(c)
      PROVE  TypeOK' /\ LocalState'
  <2>1. TypeOK'
    BY <1>8 DEF DroppedUnsaved
  <2>2. LocalState'
    BY <1>8 DEF DroppedUnsaved
  <2>3. QED
    BY <2>1, <2>2
<1>9. ASSUME NEW c \in Callers, SaveHandle(c)
      PROVE  TypeOK' /\ LocalState'
  <2>1. TypeOK'
    BY <1>9 DEF SaveHandle
  <2>2. LocalState'
    BY <1>9 DEF SaveHandle
  <2>3. QED
    BY <2>1, <2>2
<1>10. ASSUME NEW s \in Subs, Enqueue(s) \/ Process(s)
       PROVE  TypeOK' /\ LocalState'
  <2>1. backlog[s] \in Nat /\ seen[s] \in Nat /\ backlog[s] <= seen[s] /\ seen[s] <= MaxMsgs
    BY PermitsAssumption
  <2>2. backlog'[s] \in 0..MaxMsgs /\ seen'[s] \in 0..MaxMsgs /\ backlog'[s] <= seen'[s]
    BY <1>10, <2>1, PermitsAssumption DEF Enqueue, Process
  <2>3. backlog' = [backlog EXCEPT ![s] = backlog'[s]] /\ seen' = [seen EXCEPT ![s] = seen'[s]]
    BY <1>10 DEF Enqueue, Process
  <2>4. UNCHANGED <<handle, pc, mine, tasks, history>>
    BY <1>10 DEF Enqueue, Process
  <2>5. QED
    BY <2>2, <2>3, <2>4
<1>11. ASSUME NEW s \in Subs, StreamEnds(s) \/ AbortLands(s)
       PROVE  TypeOK' /\ LocalState'
  BY <1>11 DEF StreamEnds, AbortLands
<1>12. QED
  BY <1>1, <1>2, <1>3, <1>4, <1>5, <1>6, <1>7, <1>8, <1>9, <1>10, <1>11
     DEF Next, Subscribe

-----------------------------------------------------------------------------
\* While calls do not overlap, one at a time sets up a subscription and there is no
\* handle meanwhile; so what runs is within reach.
LEMMA ReachStep ==
  ASSUME TypeOK, LocalState, Exclusive, OneWithinReach, [Next]_vars
  PROVE  Exclusive' /\ OneWithinReach'
<1> USE DEF TypeOK, Goes, Returns, tasks, work, history
<1> USE DEF Exclusive, OneWithinReach, WithinReach, SettingUp, Holding, Running
<1>1. CASE UNCHANGED vars
  BY <1>1 DEF vars
<1>2. ASSUME NEW c \in Callers, Call(c)
      PROVE  Exclusive' /\ OneWithinReach'
  BY <1>2 DEF Call
<1>3. ASSUME NEW c \in Callers, Stop(c)
      PROVE  Exclusive' /\ OneWithinReach'
  <2>1. Exclusive'
    BY <1>3, NoSubAssumption DEF Stop, TakeHandle
  <2>2. OneWithinReach'
    BY <1>3, NoSubAssumption DEF Stop, TakeHandle, LocalState
  <2>3. QED
    BY <2>1, <2>2
<1>4. ASSUME NEW c \in Callers, StopFirst(c)
      PROVE  Exclusive' /\ OneWithinReach'
  <2>1. Exclusive'
    BY <1>4, NoSubAssumption DEF StopFirst, TakeHandle
  <2>2. OneWithinReach'
    BY <1>4, NoSubAssumption DEF StopFirst, TakeHandle, LocalState
  <2>3. QED
    BY <2>1, <2>2
<1>5. ASSUME NEW c \in Callers, NEW s \in Subs, Prepare(c, s)
      PROVE  Exclusive' /\ OneWithinReach'
  <2>1. Exclusive'
    BY <1>5, NoSubAssumption DEF Prepare
  <2>2. OneWithinReach'
    BY <1>5, NoSubAssumption DEF Prepare, LocalState
  <2>3. QED
    BY <2>1, <2>2
<1>6. ASSUME NEW c \in Callers, Connect(c)
      PROVE  Exclusive' /\ OneWithinReach'
  <2>1. Exclusive'
    BY <1>6, NoSubAssumption DEF Connect
  <2>2. OneWithinReach'
    BY <1>6, NoSubAssumption DEF Connect, LocalState
  <2>3. QED
    BY <2>1, <2>2
<1>7. ASSUME NEW c \in Callers, ConnectFails(c)
      PROVE  Exclusive' /\ OneWithinReach'
  <2>1. Exclusive'
    BY <1>7, NoSubAssumption DEF ConnectFails
  <2>2. OneWithinReach'
    BY <1>7, NoSubAssumption DEF ConnectFails, LocalState
  <2>3. QED
    BY <2>1, <2>2
<1>8. ASSUME NEW c \in Callers, DroppedUnsaved(c)
      PROVE  Exclusive' /\ OneWithinReach'
  <2>1. Exclusive'
    BY <1>8, NoSubAssumption DEF DroppedUnsaved
  <2>2. OneWithinReach'
    BY <1>8, NoSubAssumption DEF DroppedUnsaved, LocalState
  <2>3. QED
    BY <2>1, <2>2
<1>9. ASSUME NEW c \in Callers, SaveHandle(c)
      PROVE  Exclusive' /\ OneWithinReach'
  <2>1. Exclusive'
    BY <1>9, NoSubAssumption DEF SaveHandle
  <2>2. OneWithinReach'
    BY <1>9, NoSubAssumption DEF SaveHandle, LocalState
  <2>3. QED
    BY <2>1, <2>2
<1>10. ASSUME NEW s \in Subs, Enqueue(s) \/ Process(s)
       PROVE  Exclusive' /\ OneWithinReach'
  BY <1>10 DEF Enqueue, Process
<1>11. ASSUME NEW s \in Subs, StreamEnds(s) \/ AbortLands(s)
       PROVE  Exclusive' /\ OneWithinReach'
  BY <1>11 DEF StreamEnds, AbortLands
<1>12. QED
  BY <1>1, <1>2, <1>3, <1>4, <1>5, <1>6, <1>7, <1>8, <1>9, <1>10, <1>11
     DEF Next, Subscribe

-----------------------------------------------------------------------------
\* The inductive invariant: types, what the callers know, who owns the set-up.
THEOREM Invariant == Spec => []IInv
<1>1. Init => IInv
  <2> SUFFICES ASSUME Init PROVE IInv
    OBVIOUS
  <2>1. TypeOK
    <3>1. 0 \in 0..MaxMsgs
      BY PermitsAssumption
    <3>2. QED
      BY <3>1 DEF Init, TypeOK
  <2>2. LocalState
    BY PermitsAssumption DEF Init, LocalState, Holding
  <2>3. Exclusive /\ OneWithinReach
    BY DEF Init, Exclusive, OneWithinReach, SettingUp, Running
  <2>4. QED
    BY <2>1, <2>2, <2>3 DEF IInv
<1>2. IInv /\ [Next]_vars => IInv'
  BY LocalStep, ReachStep DEF IInv
<1>3. QED
  BY <1>1, <1>2, PTL DEF Spec

\* One stream at most, and nothing out of reach of stop, unless calls of subscribe
\* have overlapped, failed or been dropped.
THEOREM OneIsWithinReach == Spec => []OneWithinReach
<1>1. IInv => OneWithinReach
  BY DEF IInv
<1>2. QED
  BY <1>1, Invariant, PTL
=============================================================================
