------------------------ MODULE YellowstoneClientProofs ------------------------
(***************************************************************************)
(* Proofs about YellowstoneClient, for any number of callers, of           *)
(* subscriptions and of updates: unless a stop finishes while a            *)
(* subscription is being set up, at most one stream runs, stop can reach   *)
(* it and leaves nothing behind, and current_request follows the server.   *)
(***************************************************************************)
EXTENDS YellowstoneClient, TLAPS

\* What the operations on a channel keep.
LEMMA ChannelType ==
  ASSUME NEW S, NEW q \in Seq(S)
  PROVE  /\ \A e \in S : Append(q, e) \in Seq(S)
         /\ q # <<>> => Head(q) \in S /\ Tail(q) \in Seq(S)
  OBVIOUS

\* Every step keeps the types and the callers' local variables.
LEMMA TypeStep ==
  ASSUME TypeOK, LocalState, [Next]_vars
  PROVE  TypeOK'
<1> USE DEF TypeOK, LocalState, SettingUp, InUpdate, SetUp, Stopping, Updating, Goes, Returns, shared, local, tasks, wire, history
<1>1. ASSUME NEW c \in Callers, NEW s \in Subs, Claim(c, s)
      PROVE  TypeOK'
  BY <1>1 DEF Claim
<1>2. ASSUME NEW c \in Callers, StopCall(c)
      PROVE  TypeOK'
  BY <1>2 DEF StopCall
<1>3. ASSUME NEW c \in Callers, UpdateSender(c)
      PROVE  TypeOK'
  <2>1. updates' \in 0..MaxUpdates
    BY <1>3, MaxUpdatesAssumption DEF UpdateSender
  <2>2. mine' \in [Callers -> Subs \cup {NoSub}] /\ crossed' \in BOOLEAN
    BY <1>3 DEF UpdateSender
  <2>3. pc' \in [Callers -> {"idle"} \cup SetUp \cup Stopping \cup Updating]
    BY <1>3 DEF UpdateSender
  <2>4. QED
    BY <1>3, <2>1, <2>2, <2>3 DEF UpdateSender
<1>4. ASSUME NEW c \in Callers, Connect(c)
      PROVE  TypeOK'
  BY <1>4 DEF Connect, Request, OwnRequest
<1>5. ASSUME NEW c \in Callers, ConnectFails(c)
      PROVE  TypeOK'
  BY <1>5 DEF ConnectFails
<1>6. ASSUME NEW c \in Callers, SetRequest(c)
      PROVE  TypeOK'
  BY <1>6 DEF SetRequest, Request, OwnRequest
<1>7. ASSUME NEW c \in Callers, SetControl(c)
      PROVE  TypeOK'
  BY <1>7 DEF SetControl
<1>8. ASSUME NEW c \in Callers, SpawnStream(c)
      PROVE  TypeOK'
  BY <1>8 DEF SpawnStream
<1>9. ASSUME NEW c \in Callers, SaveHandle(c)
      PROVE  TypeOK'
  BY <1>9 DEF SaveHandle
<1>10. ASSUME NEW c \in Callers, StopTake(c)
      PROVE  TypeOK'
  <2>1. /\ task' \in [Subs -> {"none", "claimed", "running", "aborting", "ended"}]
        /\ monitor' \in [Subs -> {"none", "running", "aborted"}]
    <3>1. CASE handle = NoSub
      BY <1>10, <3>1 DEF StopTake
    <3>2. CASE handle # NoSub
      <4>1. /\ task' = [task EXCEPT ![handle] = IF @ = "running" THEN "aborting" ELSE @]
            /\ monitor' = [monitor EXCEPT ![handle] = "aborted"]
        BY <1>10, <3>2 DEF StopTake, Aborted
      <4>2. QED
        BY <4>1
    <3>3. QED
      BY <3>1, <3>2
  <2>2. pc' \in [Callers -> {"idle"} \cup SetUp \cup Stopping \cup Updating]
    BY <1>10 DEF StopTake
  <2>3. QED
    BY <1>10, <2>1, <2>2 DEF StopTake
<1>11. ASSUME NEW c \in Callers, StopControl(c)
      PROVE  TypeOK'
  BY <1>11 DEF StopControl
<1>12. ASSUME NEW c \in Callers, StopRequest(c)
      PROVE  TypeOK'
  BY <1>12 DEF StopRequest
<1>13. ASSUME NEW c \in Callers, StopActive(c)
      PROVE  TypeOK'
  BY <1>13 DEF StopActive
<1>14. ASSUME NEW c \in Callers, UpdateRead(c)
      PROVE  TypeOK'
  BY <1>14 DEF UpdateRead, Request
<1>15. ASSUME NEW c \in Callers, UpdateFindsNone(c)
      PROVE  TypeOK'
  BY <1>15 DEF UpdateFindsNone
<1>16. ASSUME NEW c \in Callers, UpdateSend(c)
      PROVE  TypeOK'
  <2>1. mine[c] \in Subs /\ draft[c] \in Request
    BY <1>16 DEF UpdateSend
  <2>2. channel' \in [Subs -> Seq(Request)]
    <3>1. Append(channel[mine[c]], draft[c]) \in Seq(Request)
      BY <2>1, ChannelType
    <3>2. QED
      BY <1>16, <3>1 DEF UpdateSend
  <2>3. pc' \in [Callers -> {"idle"} \cup SetUp \cup Stopping \cup Updating]
    BY <1>16 DEF UpdateSend
  <2>4. QED
    BY <1>16, <2>2, <2>3 DEF UpdateSend
<1>17. ASSUME NEW c \in Callers, UpdateSendFails(c)
      PROVE  TypeOK'
  BY <1>17 DEF UpdateSendFails
<1>18. ASSUME NEW c \in Callers, UpdateWrite(c)
      PROVE  TypeOK'
  BY <1>18 DEF UpdateWrite
<1>19. ASSUME NEW s \in Subs, Forward(s)
      PROVE  TypeOK'
  <2>1. channel[s] \in Seq(Request) /\ channel[s] # <<>>
    BY <1>19 DEF Forward
  <2>2. Head(channel[s]) \in Request /\ Tail(channel[s]) \in Seq(Request)
    BY <2>1, ChannelType
  <2>3. channel' \in [Subs -> Seq(Request)]
    BY <1>19, <2>2 DEF Forward
  <2>4. server' \in [Subs -> Request \cup {NoRequest}]
    BY <1>19, <2>2 DEF Forward
  <2>5. QED
    BY <1>19, <2>3, <2>4 DEF Forward
<1>20. ASSUME NEW s \in Subs, StreamEnds(s)
      PROVE  TypeOK'
  <2>1. <<>> \in Seq(Request)
    OBVIOUS
  <2>2. channel' \in [Subs -> Seq(Request)]
    BY <1>20, <2>1 DEF StreamEnds
  <2>3. task' \in [Subs -> {"none", "claimed", "running", "aborting", "ended"}]
    BY <1>20 DEF StreamEnds
  <2>4. QED
    BY <1>20, <2>2, <2>3 DEF StreamEnds
<1>21. ASSUME NEW s \in Subs, AbortLands(s)
      PROVE  TypeOK'
  <2>1. <<>> \in Seq(Request)
    OBVIOUS
  <2>2. channel' \in [Subs -> Seq(Request)]
    BY <1>21, <2>1 DEF AbortLands
  <2>3. task' \in [Subs -> {"none", "claimed", "running", "aborting", "ended"}]
    BY <1>21 DEF AbortLands
  <2>4. QED
    BY <1>21, <2>2, <2>3 DEF AbortLands
<1>22. CASE UNCHANGED vars
  BY <1>22 DEF vars
<1>23. QED
  BY <1>1, <1>2, <1>3, <1>4, <1>5, <1>6, <1>7, <1>8, <1>9, <1>10, <1>11, <1>12, <1>13, <1>14, <1>15, <1>16, <1>17, <1>18, <1>19, <1>20, <1>21, <1>22
     DEF Next, Call, Subscribe, Stop, Update, StreamTask

\* Whoever is in the middle of a call has set its local variables.
LEMMA LocalStep ==
  ASSUME TypeOK, LocalState, [Next]_vars
  PROVE  LocalState'
<1> USE DEF TypeOK, LocalState, SettingUp, InUpdate, Request, OwnRequest, SetUp, Stopping, Updating, Goes, Returns, shared, local, tasks, wire, history
<1>1. ASSUME NEW c \in Callers, NEW s \in Subs, Claim(c, s)
      PROVE  LocalState'
  BY <1>1 DEF Claim
<1>2. ASSUME NEW c \in Callers, StopCall(c)
      PROVE  LocalState'
  BY <1>2 DEF StopCall
<1>3. ASSUME NEW c \in Callers, UpdateSender(c)
      PROVE  LocalState'
  BY <1>3 DEF UpdateSender
<1>4. ASSUME NEW c \in Callers, Connect(c)
      PROVE  LocalState'
  BY <1>4 DEF Connect
<1>5. ASSUME NEW c \in Callers, ConnectFails(c)
      PROVE  LocalState'
  BY <1>5 DEF ConnectFails
<1>6. ASSUME NEW c \in Callers, SetRequest(c)
      PROVE  LocalState'
  BY <1>6 DEF SetRequest
<1>7. ASSUME NEW c \in Callers, SetControl(c)
      PROVE  LocalState'
  BY <1>7 DEF SetControl
<1>8. ASSUME NEW c \in Callers, SpawnStream(c)
      PROVE  LocalState'
  BY <1>8 DEF SpawnStream
<1>9. ASSUME NEW c \in Callers, SaveHandle(c)
      PROVE  LocalState'
  BY <1>9 DEF SaveHandle
<1>10. ASSUME NEW c \in Callers, StopTake(c)
      PROVE  LocalState'
  BY <1>10 DEF StopTake, Aborted
<1>11. ASSUME NEW c \in Callers, StopControl(c)
      PROVE  LocalState'
  BY <1>11 DEF StopControl
<1>12. ASSUME NEW c \in Callers, StopRequest(c)
      PROVE  LocalState'
  BY <1>12 DEF StopRequest
<1>13. ASSUME NEW c \in Callers, StopActive(c)
      PROVE  LocalState'
  BY <1>13 DEF StopActive
<1>14. ASSUME NEW c \in Callers, UpdateRead(c)
      PROVE  LocalState'
  BY <1>14 DEF UpdateRead
<1>15. ASSUME NEW c \in Callers, UpdateFindsNone(c)
      PROVE  LocalState'
  BY <1>15 DEF UpdateFindsNone
<1>16. ASSUME NEW c \in Callers, UpdateSend(c)
      PROVE  LocalState'
  BY <1>16 DEF UpdateSend
<1>17. ASSUME NEW c \in Callers, UpdateSendFails(c)
      PROVE  LocalState'
  BY <1>17 DEF UpdateSendFails
<1>18. ASSUME NEW c \in Callers, UpdateWrite(c)
      PROVE  LocalState'
  BY <1>18 DEF UpdateWrite
<1>19. ASSUME NEW s \in Subs, Forward(s)
      PROVE  LocalState'
  BY <1>19 DEF Forward, Alive
<1>20. ASSUME NEW s \in Subs, StreamEnds(s)
      PROVE  LocalState'
  BY <1>20 DEF StreamEnds, Alive
<1>21. ASSUME NEW s \in Subs, AbortLands(s)
      PROVE  LocalState'
  BY <1>21 DEF AbortLands, Alive
<1>22. CASE UNCHANGED vars
  BY <1>22 DEF vars
<1>23. QED
  BY <1>1, <1>2, <1>3, <1>4, <1>5, <1>6, <1>7, <1>8, <1>9, <1>10, <1>11, <1>12, <1>13, <1>14, <1>15, <1>16, <1>17, <1>18, <1>19, <1>20, <1>21, <1>22
     DEF Next, Call, Subscribe, Stop, Update, StreamTask

\* The lock is held from StopTake to StopActive, over an empty handle.
LEMMA LockStep ==
  ASSUME TypeOK, LockDiscipline, [Next]_vars
  PROVE  LockDiscipline'
<1> USE DEF TypeOK, LockDiscipline, Goes, Returns, shared, local, tasks, wire, history
<1>1. ASSUME NEW c \in Callers, NEW s \in Subs, Claim(c, s)
      PROVE  LockDiscipline'
  BY <1>1 DEF Claim
<1>2. ASSUME NEW c \in Callers, StopCall(c)
      PROVE  LockDiscipline'
  BY <1>2 DEF StopCall
<1>3. ASSUME NEW c \in Callers, UpdateSender(c)
      PROVE  LockDiscipline'
  BY <1>3 DEF UpdateSender
<1>4. ASSUME NEW c \in Callers, Connect(c)
      PROVE  LockDiscipline'
  BY <1>4 DEF Connect
<1>5. ASSUME NEW c \in Callers, ConnectFails(c)
      PROVE  LockDiscipline'
  BY <1>5 DEF ConnectFails
<1>6. ASSUME NEW c \in Callers, SetRequest(c)
      PROVE  LockDiscipline'
  BY <1>6 DEF SetRequest
<1>7. ASSUME NEW c \in Callers, SetControl(c)
      PROVE  LockDiscipline'
  BY <1>7 DEF SetControl
<1>8. ASSUME NEW c \in Callers, SpawnStream(c)
      PROVE  LockDiscipline'
  BY <1>8 DEF SpawnStream
<1>9. ASSUME NEW c \in Callers, SaveHandle(c)
      PROVE  LockDiscipline'
  BY <1>9, NothingAssumption DEF SaveHandle
<1>10. ASSUME NEW c \in Callers, StopTake(c)
      PROVE  LockDiscipline'
  BY <1>10, NothingAssumption DEF StopTake
<1>11. ASSUME NEW c \in Callers, StopControl(c)
      PROVE  LockDiscipline'
  BY <1>11 DEF StopControl
<1>12. ASSUME NEW c \in Callers, StopRequest(c)
      PROVE  LockDiscipline'
  BY <1>12 DEF StopRequest
<1>13. ASSUME NEW c \in Callers, StopActive(c)
      PROVE  LockDiscipline'
  BY <1>13, NothingAssumption DEF StopActive
<1>14. ASSUME NEW c \in Callers, UpdateRead(c)
      PROVE  LockDiscipline'
  BY <1>14 DEF UpdateRead
<1>15. ASSUME NEW c \in Callers, UpdateFindsNone(c)
      PROVE  LockDiscipline'
  BY <1>15 DEF UpdateFindsNone
<1>16. ASSUME NEW c \in Callers, UpdateSend(c)
      PROVE  LockDiscipline'
  BY <1>16 DEF UpdateSend
<1>17. ASSUME NEW c \in Callers, UpdateSendFails(c)
      PROVE  LockDiscipline'
  BY <1>17 DEF UpdateSendFails
<1>18. ASSUME NEW c \in Callers, UpdateWrite(c)
      PROVE  LockDiscipline'
  BY <1>18 DEF UpdateWrite
<1>19. ASSUME NEW s \in Subs, Forward(s)
      PROVE  LockDiscipline'
  BY <1>19 DEF Forward, Alive
<1>20. ASSUME NEW s \in Subs, StreamEnds(s)
      PROVE  LockDiscipline'
  BY <1>20 DEF StreamEnds, Alive
<1>21. ASSUME NEW s \in Subs, AbortLands(s)
      PROVE  LockDiscipline'
  BY <1>21 DEF AbortLands, Alive
<1>22. CASE UNCHANGED vars
  BY <1>22 DEF vars
<1>23. QED
  BY <1>1, <1>2, <1>3, <1>4, <1>5, <1>6, <1>7, <1>8, <1>9, <1>10, <1>11, <1>12, <1>13, <1>14, <1>15, <1>16, <1>17, <1>18, <1>19, <1>20, <1>21, <1>22
     DEF Next, Call, Subscribe, Stop, Update, StreamTask

\* One step keeps the ownership of the flag, unless it makes the race.
LEMMA OwnershipStep ==
  ASSUME IInv, ~raced => Ownership, ~raced', [Next]_vars
  PROVE  Ownership'
<1> USE DEF IInv, TypeOK, LocalState, LockDiscipline, Ownership, WithinReach, Running, SettingUp, SetUp, Stopping, Updating, Goes, Returns, shared, local, tasks, wire, history
<1>1. ASSUME NEW c \in Callers, NEW s \in Subs, Claim(c, s)
      PROVE  Ownership'
  BY <1>1, NothingAssumption DEF Claim
<1>2. ASSUME NEW c \in Callers, StopCall(c)
      PROVE  Ownership'
  BY <1>2 DEF StopCall
<1>3. ASSUME NEW c \in Callers, UpdateSender(c)
      PROVE  Ownership'
  BY <1>3 DEF UpdateSender
<1>4. ASSUME NEW c \in Callers, Connect(c)
      PROVE  Ownership'
  BY <1>4 DEF Connect
<1>5. ASSUME NEW c \in Callers, ConnectFails(c)
      PROVE  Ownership'
  BY <1>5 DEF ConnectFails
<1>6. ASSUME NEW c \in Callers, SetRequest(c)
      PROVE  Ownership'
  BY <1>6 DEF SetRequest
<1>7. ASSUME NEW c \in Callers, SetControl(c)
      PROVE  Ownership'
  BY <1>7 DEF SetControl
<1>8. ASSUME NEW c \in Callers, SpawnStream(c)
      PROVE  Ownership'
  BY <1>8, NothingAssumption DEF SpawnStream
<1>9. ASSUME NEW c \in Callers, SaveHandle(c)
      PROVE  Ownership'
  <2>1. ~raced /\ handle = NoSub /\ active /\ SettingUp(c)
    BY <1>9 DEF SaveHandle
  <2>2. \A d \in Callers : SettingUp(d) <=> d = c
    BY <2>1
  <2>3. \A d \in Callers : ~SettingUp(d)'
    BY <1>9, <2>2 DEF SaveHandle
  <2>4. WithinReach'
    <3>1. ASSUME NEW s \in Subs, task[s] = "running"
          PROVE  s = mine[c]
      <4>1. handle # s
        BY <2>1, NothingAssumption
      <4>2. PICK d \in Callers : pc[d] = "save" /\ mine[d] = s
        BY <2>1, <3>1, <4>1
      <4>3. d = c
        BY <2>2, <4>2
      <4>4. QED
        BY <4>2, <4>3
    <3>2. handle' = mine[c] /\ task' = task
      BY <1>9 DEF SaveHandle
    <3>3. QED
      BY <3>1, <3>2
  <2>5. QED
    BY <1>9, <2>1, <2>3, <2>4 DEF SaveHandle
<1>10. ASSUME NEW c \in Callers, StopTake(c)
      PROVE  Ownership'
  <2>1. \A d \in Callers : SettingUp(d)' <=> SettingUp(d)
    BY <1>10 DEF StopTake
  <2>2. \A d \in Callers : pc[d] = "save" => pc'[d] = "save" /\ mine'[d] = mine[d]
    BY <1>10 DEF StopTake
  <2>3. \A s \in Subs : task'[s] = "running" => task[s] = "running" /\ handle # s
    BY <1>10, NothingAssumption DEF StopTake, Aborted
  <2>4. WithinReach'
    <3>1. ~raced
      BY <1>10 DEF StopTake
    <3>2. \A s \in Subs : task[s] = "running" /\ handle # s =>
            \E d \in Callers : pc[d] = "save" /\ mine[d] = s
      BY <3>1
    <3>3. QED
      BY <2>2, <2>3, <3>2
  <2>5. QED
    BY <1>10, <2>1, <2>4 DEF StopTake
<1>11. ASSUME NEW c \in Callers, StopControl(c)
      PROVE  Ownership'
  BY <1>11 DEF StopControl
<1>12. ASSUME NEW c \in Callers, StopRequest(c)
      PROVE  Ownership'
  BY <1>12 DEF StopRequest
<1>13. ASSUME NEW c \in Callers, StopActive(c)
      PROVE  Ownership'
  BY <1>13, NothingAssumption DEF StopActive
<1>14. ASSUME NEW c \in Callers, UpdateRead(c)
      PROVE  Ownership'
  BY <1>14 DEF UpdateRead
<1>15. ASSUME NEW c \in Callers, UpdateFindsNone(c)
      PROVE  Ownership'
  BY <1>15 DEF UpdateFindsNone
<1>16. ASSUME NEW c \in Callers, UpdateSend(c)
      PROVE  Ownership'
  BY <1>16 DEF UpdateSend
<1>17. ASSUME NEW c \in Callers, UpdateSendFails(c)
      PROVE  Ownership'
  BY <1>17 DEF UpdateSendFails
<1>18. ASSUME NEW c \in Callers, UpdateWrite(c)
      PROVE  Ownership'
  BY <1>18 DEF UpdateWrite
<1>19. ASSUME NEW s \in Subs, Forward(s)
      PROVE  Ownership'
  BY <1>19 DEF Forward, Alive
<1>20. ASSUME NEW s \in Subs, StreamEnds(s)
      PROVE  Ownership'
  BY <1>20 DEF StreamEnds, Alive
<1>21. ASSUME NEW s \in Subs, AbortLands(s)
      PROVE  Ownership'
  BY <1>21 DEF AbortLands, Alive
<1>22. CASE UNCHANGED vars
  BY <1>22 DEF vars
<1>23. QED
  BY <1>1, <1>2, <1>3, <1>4, <1>5, <1>6, <1>7, <1>8, <1>9, <1>10, <1>11, <1>12, <1>13, <1>14, <1>15, <1>16, <1>17, <1>18, <1>19, <1>20, <1>21, <1>22
     DEF Next, Call, Subscribe, Stop, Update, StreamTask

\* The last request of a channel is the one put in last, also after the first is out.
LEMMA LastOfAppend ==
  ASSUME NEW S, NEW q \in Seq(S), NEW e \in S
  PROVE  Append(q, e) # <<>> /\ Append(q, e)[Len(Append(q, e))] = e
  OBVIOUS

LEMMA LastOfTail ==
  ASSUME NEW S, NEW q \in Seq(S), q # <<>>
  PROVE  IF Tail(q) = <<>> THEN Head(q) = q[Len(q)] ELSE Tail(q)[Len(Tail(q))] = q[Len(q)]
  OBVIOUS

\* While stop holds the lock, only a subscription on its way puts anything back.
LEMMA StopLeavesStep ==
  ASSUME IInv, [Next]_vars
  PROVE  StopLeaves'
<1> USE NothingAssumption DEF IInv, TypeOK, LocalState, LockDiscipline, SettingUp, InUpdate, SetUp, Stopping, Updating, Goes, Returns, shared, local, tasks, wire, history, StopLeaves
<1>1. ASSUME NEW c \in Callers, NEW s \in Subs, Claim(c, s)
      PROVE  StopLeaves'
  BY <1>1 DEF Claim
<1>2. ASSUME NEW c \in Callers, StopCall(c)
      PROVE  StopLeaves'
  BY <1>2 DEF StopCall
<1>3. ASSUME NEW c \in Callers, UpdateSender(c)
      PROVE  StopLeaves'
  BY <1>3 DEF UpdateSender
<1>4. ASSUME NEW c \in Callers, Connect(c)
      PROVE  StopLeaves'
  BY <1>4 DEF Connect
<1>5. ASSUME NEW c \in Callers, ConnectFails(c)
      PROVE  StopLeaves'
  BY <1>5 DEF ConnectFails
<1>6. ASSUME NEW c \in Callers, SetRequest(c)
      PROVE  StopLeaves'
  BY <1>6 DEF SetRequest
<1>7. ASSUME NEW c \in Callers, SetControl(c)
      PROVE  StopLeaves'
  BY <1>7 DEF SetControl
<1>8. ASSUME NEW c \in Callers, SpawnStream(c)
      PROVE  StopLeaves'
  BY <1>8 DEF SpawnStream
<1>9. ASSUME NEW c \in Callers, SaveHandle(c)
      PROVE  StopLeaves'
  BY <1>9 DEF SaveHandle
<1>10. ASSUME NEW c \in Callers, StopTake(c)
      PROVE  StopLeaves'
  BY <1>10 DEF StopTake, Aborted
<1>11. ASSUME NEW c \in Callers, StopControl(c)
      PROVE  StopLeaves'
  BY <1>11 DEF StopControl
<1>12. ASSUME NEW c \in Callers, StopRequest(c)
      PROVE  StopLeaves'
  BY <1>12 DEF StopRequest
<1>13. ASSUME NEW c \in Callers, StopActive(c)
      PROVE  StopLeaves'
  BY <1>13 DEF StopActive
<1>14. ASSUME NEW c \in Callers, UpdateRead(c)
      PROVE  StopLeaves'
  BY <1>14 DEF UpdateRead
<1>15. ASSUME NEW c \in Callers, UpdateFindsNone(c)
      PROVE  StopLeaves'
  BY <1>15 DEF UpdateFindsNone
<1>16. ASSUME NEW c \in Callers, UpdateSend(c)
      PROVE  StopLeaves'
  BY <1>16 DEF UpdateSend
<1>17. ASSUME NEW c \in Callers, UpdateSendFails(c)
      PROVE  StopLeaves'
  BY <1>17 DEF UpdateSendFails
<1>18. ASSUME NEW c \in Callers, UpdateWrite(c)
      PROVE  StopLeaves'
  BY <1>18 DEF UpdateWrite
<1>19. ASSUME NEW s \in Subs, Forward(s)
      PROVE  StopLeaves'
  BY <1>19 DEF Forward, Alive
<1>20. ASSUME NEW s \in Subs, StreamEnds(s)
      PROVE  StopLeaves'
  BY <1>20 DEF StreamEnds
<1>21. ASSUME NEW s \in Subs, AbortLands(s)
      PROVE  StopLeaves'
  BY <1>21 DEF AbortLands
<1>22. CASE UNCHANGED vars
  BY <1>22 DEF vars
<1>23. QED
  BY <1>1, <1>2, <1>3, <1>4, <1>5, <1>6, <1>7, <1>8, <1>9, <1>10, <1>11, <1>12, <1>13, <1>14, <1>15, <1>16, <1>17, <1>18, <1>19, <1>20, <1>21, <1>22
     DEF Next, Call, Subscribe, Stop, Update, StreamTask

\* No sender is stored before a subscription has stored its own.
LEMMA ControlStep ==
  ASSUME IInv, ~raced', [Next]_vars
  PROVE  ControlFollows'
<1> USE NothingAssumption DEF IInv, TypeOK, LocalState, LockDiscipline, SettingUp, InUpdate, SetUp, Stopping, Updating, Goes, Returns, shared, local, tasks, wire, history, StopLeaves, Ownership, ControlFollows
<1>1. ASSUME NEW c \in Callers, NEW s \in Subs, Claim(c, s)
      PROVE  ControlFollows'
  BY <1>1 DEF Claim
<1>2. ASSUME NEW c \in Callers, StopCall(c)
      PROVE  ControlFollows'
  BY <1>2 DEF StopCall
<1>3. ASSUME NEW c \in Callers, UpdateSender(c)
      PROVE  ControlFollows'
  BY <1>3 DEF UpdateSender
<1>4. ASSUME NEW c \in Callers, Connect(c)
      PROVE  ControlFollows'
  BY <1>4 DEF Connect
<1>5. ASSUME NEW c \in Callers, ConnectFails(c)
      PROVE  ControlFollows'
  BY <1>5 DEF ConnectFails
<1>6. ASSUME NEW c \in Callers, SetRequest(c)
      PROVE  ControlFollows'
  BY <1>6 DEF SetRequest
<1>7. ASSUME NEW c \in Callers, SetControl(c)
      PROVE  ControlFollows'
  BY <1>7 DEF SetControl
<1>8. ASSUME NEW c \in Callers, SpawnStream(c)
      PROVE  ControlFollows'
  BY <1>8 DEF SpawnStream
<1>9. ASSUME NEW c \in Callers, SaveHandle(c)
      PROVE  ControlFollows'
  BY <1>9 DEF SaveHandle
<1>10. ASSUME NEW c \in Callers, StopTake(c)
      PROVE  ControlFollows'
  BY <1>10 DEF StopTake, Aborted
<1>11. ASSUME NEW c \in Callers, StopControl(c)
      PROVE  ControlFollows'
  BY <1>11 DEF StopControl
<1>12. ASSUME NEW c \in Callers, StopRequest(c)
      PROVE  ControlFollows'
  BY <1>12 DEF StopRequest
<1>13. ASSUME NEW c \in Callers, StopActive(c)
      PROVE  ControlFollows'
  BY <1>13 DEF StopActive
<1>14. ASSUME NEW c \in Callers, UpdateRead(c)
      PROVE  ControlFollows'
  BY <1>14 DEF UpdateRead
<1>15. ASSUME NEW c \in Callers, UpdateFindsNone(c)
      PROVE  ControlFollows'
  BY <1>15 DEF UpdateFindsNone
<1>16. ASSUME NEW c \in Callers, UpdateSend(c)
      PROVE  ControlFollows'
  BY <1>16 DEF UpdateSend
<1>17. ASSUME NEW c \in Callers, UpdateSendFails(c)
      PROVE  ControlFollows'
  BY <1>17 DEF UpdateSendFails
<1>18. ASSUME NEW c \in Callers, UpdateWrite(c)
      PROVE  ControlFollows'
  BY <1>18 DEF UpdateWrite
<1>19. ASSUME NEW s \in Subs, Forward(s)
      PROVE  ControlFollows'
  BY <1>19 DEF Forward, Alive
<1>20. ASSUME NEW s \in Subs, StreamEnds(s)
      PROVE  ControlFollows'
  BY <1>20 DEF StreamEnds
<1>21. ASSUME NEW s \in Subs, AbortLands(s)
      PROVE  ControlFollows'
  BY <1>21 DEF AbortLands
<1>22. CASE UNCHANGED vars
  BY <1>22 DEF vars
<1>23. QED
  BY <1>1, <1>2, <1>3, <1>4, <1>5, <1>6, <1>7, <1>8, <1>9, <1>10, <1>11, <1>12, <1>13, <1>14, <1>15, <1>16, <1>17, <1>18, <1>19, <1>20, <1>21, <1>22
     DEF Next, Call, Subscribe, Stop, Update, StreamTask

\* What is on the wire, and which metrics tasks are within reach.
LEMMA WiredStep ==
  ASSUME IInv, ~raced', [Next]_vars
  PROVE  Wired'
<1> USE NothingAssumption DEF IInv, TypeOK, LocalState, LockDiscipline, SettingUp, InUpdate, SetUp, Stopping, Updating, Goes, Returns, shared, local, tasks, wire, history, Ownership, Wired, ControlFollows, Request, OwnRequest
<1>1. ASSUME NEW c \in Callers, NEW s \in Subs, Claim(c, s)
      PROVE  Wired'
  BY <1>1 DEF Claim
<1>2. ASSUME NEW c \in Callers, StopCall(c)
      PROVE  Wired'
  BY <1>2 DEF StopCall
<1>3. ASSUME NEW c \in Callers, UpdateSender(c)
      PROVE  Wired'
  <2>1. Wired
    BY <1>3 DEF UpdateSender
  <2>2. \A d \in Callers : d # c => pc'[d] = pc[d] /\ mine'[d] = mine[d]
    BY <1>3 DEF UpdateSender
  <2>3. pc[c] = "idle" /\ pc'[c] = "updateRead" /\ mine'[c] = control
    BY <1>3 DEF UpdateSender
  <2>4. \A s \in Subs : monitor'[s] = "running" /\ server'[s] # NoRequest =>
          handle' = s \/ \E d \in Callers : SettingUp(d)' /\ mine'[d] = s
    <3> SUFFICES ASSUME NEW s \in Subs, monitor[s] = "running", server[s] # NoRequest, handle # s
                 PROVE  \E d \in Callers : SettingUp(d)' /\ mine'[d] = s
      BY <1>3 DEF UpdateSender
    <3>1. PICK d \in Callers : SettingUp(d) /\ mine[d] = s
      BY <2>1
    <3>2. QED
      BY <2>2, <2>3, <3>1
  <2>5. QED
    BY <1>3, <2>1, <2>2, <2>3, <2>4 DEF UpdateSender
<1>4. ASSUME NEW c \in Callers, Connect(c)
      PROVE  Wired'
  BY <1>4 DEF Connect
<1>5. ASSUME NEW c \in Callers, ConnectFails(c)
      PROVE  Wired'
  BY <1>5 DEF ConnectFails
<1>6. ASSUME NEW c \in Callers, SetRequest(c)
      PROVE  Wired'
  BY <1>6 DEF SetRequest
<1>7. ASSUME NEW c \in Callers, SetControl(c)
      PROVE  Wired'
  BY <1>7 DEF SetControl
<1>8. ASSUME NEW c \in Callers, SpawnStream(c)
      PROVE  Wired'
  BY <1>8 DEF SpawnStream
<1>9. ASSUME NEW c \in Callers, SaveHandle(c)
      PROVE  Wired'
  <2>1. TypeOK /\ Wired /\ Ownership
    BY <1>9 DEF SaveHandle
  <2> HIDE DEF IInv, LocalState, LockDiscipline
  <2>2. pc[c] = "save" /\ handle' = mine[c] /\ \A d \in Callers : d # c => ~SettingUp(d)
    BY <1>9, <2>1 DEF SaveHandle
  <2>3. \A d \in Callers : d # c => pc'[d] = pc[d] /\ mine'[d] = mine[d]
    BY <1>9 DEF SaveHandle
  <2>4. handle = NoSub
    BY <2>1, <2>2
  <2>5. \A s \in Subs : monitor'[s] = "running" /\ server'[s] # NoRequest => handle' = s
    <3>1. UNCHANGED <<monitor, server>>
      BY <1>9 DEF SaveHandle
    <3>2. \A s \in Subs : s # NoSub
      OBVIOUS
    <3>3. \A s \in Subs : monitor[s] = "running" /\ server[s] # NoRequest =>
            \E d \in Callers : SettingUp(d) /\ mine[d] = s
      BY <2>1, <2>4, <3>2
    <3> HIDE DEF TypeOK, Wired, Ownership, SettingUp
    <3>4. QED
      BY <2>2, <3>1, <3>3
  <2>6. QED
    BY <1>9, <2>1, <2>3, <2>5 DEF SaveHandle
<1>10. ASSUME NEW c \in Callers, StopTake(c)
      PROVE  Wired'
  <2>1. Wired
    BY <1>10 DEF StopTake
  <2>2. \A d \in Callers : (SettingUp(d)' <=> SettingUp(d)) /\ (InUpdate(d)' <=> InUpdate(d))
    BY <1>10 DEF StopTake
  <2>3. \A s \in Subs :
          /\ (task'[s] = "none" <=> task[s] = "none") /\ (task'[s] = "claimed" <=> task[s] = "claimed")
          /\ task'[s] = "aborting" => task[s] = "aborting" \/ monitor'[s] = "aborted"
          /\ monitor'[s] # "running" \/ monitor'[s] = monitor[s]
          /\ monitor[s] = "aborted" => monitor'[s] = "aborted"
          /\ monitor'[s] = "running" => monitor[s] = "running" /\ handle # s
    <3>1. CASE handle = NoSub
      BY <1>10, <3>1 DEF StopTake
    <3>2. CASE handle # NoSub
      <4>1. /\ task' = [task EXCEPT ![handle] = IF @ = "running" THEN "aborting" ELSE @]
            /\ monitor' = [monitor EXCEPT ![handle] = "aborted"]
        BY <1>10, <3>2 DEF StopTake, Aborted
      <4>2. handle \in Subs
        BY <3>2
      <4>3. QED
        BY <4>1, <4>2
    <3>3. QED
      BY <3>1, <3>2
  <2>4. \A d \in Callers : d # c => pc'[d] = pc[d]
    BY <1>10 DEF StopTake
  <2>5. pc[c] = "stopTake" /\ pc'[c] = "stopControl"
    BY <1>10 DEF StopTake
  <2>6. UNCHANGED <<mine, control, channel, server>>
    BY <1>10 DEF StopTake
  <2>7. \A s \in Subs : task'[s] = "none" => channel'[s] = <<>> /\ server'[s] = NoRequest
    BY <2>1, <2>3, <2>6
  <2>8. control' # NoSub => task'[control'] # "none"
    BY <2>1, <2>3, <2>6
  <2>9. \A d \in Callers : SettingUp(d) \/ InUpdate(d) => mine[d] \in Subs
    OBVIOUS
  <2>10. \A d \in Callers :
       /\ pc'[d] \in {"connect", "setRequest", "setControl", "spawn"} => task'[mine'[d]] = "claimed"
       /\ pc'[d] = "save" \/ InUpdate(d)' => task'[mine'[d]] # "none"
       /\ pc'[d] = "connect" => server'[mine'[d]] = NoRequest
    BY <2>1, <2>2, <2>3, <2>4, <2>5, <2>6, <2>9
  <2>11. \A s \in Subs : monitor'[s] = "running" /\ server'[s] # NoRequest =>
          \E d \in Callers : SettingUp(d)' /\ mine'[d] = s
    BY <2>1, <2>2, <2>3, <2>6
  <2>12. QED
    BY <2>1, <2>3, <2>7, <2>8, <2>10, <2>11
<1>11. ASSUME NEW c \in Callers, StopControl(c)
      PROVE  Wired'
  BY <1>11 DEF StopControl
<1>12. ASSUME NEW c \in Callers, StopRequest(c)
      PROVE  Wired'
  BY <1>12 DEF StopRequest
<1>13. ASSUME NEW c \in Callers, StopActive(c)
      PROVE  Wired'
  BY <1>13 DEF StopActive
<1>14. ASSUME NEW c \in Callers, UpdateRead(c)
      PROVE  Wired'
  BY <1>14 DEF UpdateRead
<1>15. ASSUME NEW c \in Callers, UpdateFindsNone(c)
      PROVE  Wired'
  BY <1>15 DEF UpdateFindsNone
<1>16. ASSUME NEW c \in Callers, UpdateSend(c)
      PROVE  Wired'
  BY <1>16 DEF UpdateSend
<1>17. ASSUME NEW c \in Callers, UpdateSendFails(c)
      PROVE  Wired'
  BY <1>17 DEF UpdateSendFails
<1>18. ASSUME NEW c \in Callers, UpdateWrite(c)
      PROVE  Wired'
  BY <1>18 DEF UpdateWrite
<1>19. ASSUME NEW s \in Subs, Forward(s)
      PROVE  Wired'
  <2>1. Wired /\ Ownership /\ TypeOK /\ LocalState /\ task[s] \in {"running", "aborting"}
    BY <1>19 DEF Forward, Alive
  <2> HIDE DEF IInv, LockDiscipline
  <2>2. \A t \in Subs : t # s => channel'[t] = channel[t] /\ server'[t] = server[t]
    BY <1>19 DEF Forward
  <2>3. UNCHANGED <<pc, mine, control, handle, task, monitor>>
    BY <1>19 DEF Forward
  <2>4. monitor[s] = "running" => handle = s \/ \E d \in Callers : SettingUp(d) /\ mine[d] = s
    <3>1. CASE task[s] = "running"
      BY <2>1, <3>1 DEF WithinReach, Running
    <3>2. CASE task[s] = "aborting"
      BY <2>1, <3>2
    <3>3. QED
      BY <2>1, <3>1, <3>2
  <2>5. QED
    BY <2>1, <2>2, <2>3, <2>4
<1>20. ASSUME NEW s \in Subs, StreamEnds(s)
      PROVE  Wired'
  BY <1>20 DEF StreamEnds
<1>21. ASSUME NEW s \in Subs, AbortLands(s)
      PROVE  Wired'
  BY <1>21 DEF AbortLands
<1>22. CASE UNCHANGED vars
  BY <1>22 DEF vars
<1>23. QED
  BY <1>1, <1>2, <1>3, <1>4, <1>5, <1>6, <1>7, <1>8, <1>9, <1>10, <1>11, <1>12, <1>13, <1>14, <1>15, <1>16, <1>17, <1>18, <1>19, <1>20, <1>21, <1>22
     DEF Next, Call, Subscribe, Stop, Update, StreamTask

\* An update that overlaps no other one has the sender that is stored.
LEMMA UpdatesAloneStep ==
  ASSUME IInv, ~raced', ~crossed', [Next]_vars
  PROVE  UpdatesAlone'
<1> USE NothingAssumption DEF IInv, TypeOK, LocalState, LockDiscipline, SettingUp, InUpdate, SetUp, Stopping, Updating, Goes, Returns, shared, local, tasks, wire, history, StopLeaves, Ownership, ControlFollows, UpdatesAlone
<1>1. ASSUME NEW c \in Callers, NEW s \in Subs, Claim(c, s)
      PROVE  UpdatesAlone'
  BY <1>1 DEF Claim
<1>2. ASSUME NEW c \in Callers, StopCall(c)
      PROVE  UpdatesAlone'
  BY <1>2 DEF StopCall
<1>3. ASSUME NEW c \in Callers, UpdateSender(c)
      PROVE  UpdatesAlone'
  <2>1. UpdatesAlone
    BY <1>3 DEF UpdateSender
  <2>2. \A d \in Callers : ~InUpdate(d)
    BY <1>3 DEF UpdateSender
  <2>3. \A d \in Callers : d # c => pc'[d] = pc[d]
    BY <1>3 DEF UpdateSender
  <2>4. mine'[c] = control /\ control' = control
    BY <1>3 DEF UpdateSender
  <2>5. QED
    BY <2>2, <2>3, <2>4
<1>4. ASSUME NEW c \in Callers, Connect(c)
      PROVE  UpdatesAlone'
  BY <1>4 DEF Connect
<1>5. ASSUME NEW c \in Callers, ConnectFails(c)
      PROVE  UpdatesAlone'
  BY <1>5 DEF ConnectFails
<1>6. ASSUME NEW c \in Callers, SetRequest(c)
      PROVE  UpdatesAlone'
  BY <1>6 DEF SetRequest
<1>7. ASSUME NEW c \in Callers, SetControl(c)
      PROVE  UpdatesAlone'
  BY <1>7 DEF SetControl
<1>8. ASSUME NEW c \in Callers, SpawnStream(c)
      PROVE  UpdatesAlone'
  BY <1>8 DEF SpawnStream
<1>9. ASSUME NEW c \in Callers, SaveHandle(c)
      PROVE  UpdatesAlone'
  BY <1>9 DEF SaveHandle
<1>10. ASSUME NEW c \in Callers, StopTake(c)
      PROVE  UpdatesAlone'
  BY <1>10 DEF StopTake, Aborted
<1>11. ASSUME NEW c \in Callers, StopControl(c)
      PROVE  UpdatesAlone'
  BY <1>11 DEF StopControl
<1>12. ASSUME NEW c \in Callers, StopRequest(c)
      PROVE  UpdatesAlone'
  BY <1>12 DEF StopRequest
<1>13. ASSUME NEW c \in Callers, StopActive(c)
      PROVE  UpdatesAlone'
  BY <1>13 DEF StopActive
<1>14. ASSUME NEW c \in Callers, UpdateRead(c)
      PROVE  UpdatesAlone'
  BY <1>14 DEF UpdateRead
<1>15. ASSUME NEW c \in Callers, UpdateFindsNone(c)
      PROVE  UpdatesAlone'
  BY <1>15 DEF UpdateFindsNone
<1>16. ASSUME NEW c \in Callers, UpdateSend(c)
      PROVE  UpdatesAlone'
  BY <1>16 DEF UpdateSend
<1>17. ASSUME NEW c \in Callers, UpdateSendFails(c)
      PROVE  UpdatesAlone'
  BY <1>17 DEF UpdateSendFails
<1>18. ASSUME NEW c \in Callers, UpdateWrite(c)
      PROVE  UpdatesAlone'
  BY <1>18 DEF UpdateWrite
<1>19. ASSUME NEW s \in Subs, Forward(s)
      PROVE  UpdatesAlone'
  BY <1>19 DEF Forward, Alive
<1>20. ASSUME NEW s \in Subs, StreamEnds(s)
      PROVE  UpdatesAlone'
  BY <1>20 DEF StreamEnds
<1>21. ASSUME NEW s \in Subs, AbortLands(s)
      PROVE  UpdatesAlone'
  BY <1>21 DEF AbortLands
<1>22. CASE UNCHANGED vars
  BY <1>22 DEF vars
<1>23. QED
  BY <1>1, <1>2, <1>3, <1>4, <1>5, <1>6, <1>7, <1>8, <1>9, <1>10, <1>11, <1>12, <1>13, <1>14, <1>15, <1>16, <1>17, <1>18, <1>19, <1>20, <1>21, <1>22
     DEF Next, Call, Subscribe, Stop, Update, StreamTask

\* Until its sender is stored, a subscription has only its own request.
LEMMA OwnRequestStep ==
  ASSUME IInv, ~raced', ~crossed', [Next]_vars
  PROVE  OwnRequestSent'
<1> USE NothingAssumption DEF IInv, TypeOK, LocalState, LockDiscipline, SettingUp, InUpdate, SetUp, Stopping, Updating, Goes, Returns, shared, local, tasks, wire, history, Ownership, Wired, ControlFollows, UpdatesAlone, OwnRequestSent
<1>1. ASSUME NEW c \in Callers, NEW s \in Subs, Claim(c, s)
      PROVE  OwnRequestSent'
  BY <1>1 DEF Claim
<1>2. ASSUME NEW c \in Callers, StopCall(c)
      PROVE  OwnRequestSent'
  BY <1>2 DEF StopCall
<1>3. ASSUME NEW c \in Callers, UpdateSender(c)
      PROVE  OwnRequestSent'
  BY <1>3 DEF UpdateSender
<1>4. ASSUME NEW c \in Callers, Connect(c)
      PROVE  OwnRequestSent'
  BY <1>4 DEF Connect
<1>5. ASSUME NEW c \in Callers, ConnectFails(c)
      PROVE  OwnRequestSent'
  BY <1>5 DEF ConnectFails
<1>6. ASSUME NEW c \in Callers, SetRequest(c)
      PROVE  OwnRequestSent'
  BY <1>6 DEF SetRequest
<1>7. ASSUME NEW c \in Callers, SetControl(c)
      PROVE  OwnRequestSent'
  BY <1>7 DEF SetControl
<1>8. ASSUME NEW c \in Callers, SpawnStream(c)
      PROVE  OwnRequestSent'
  BY <1>8 DEF SpawnStream
<1>9. ASSUME NEW c \in Callers, SaveHandle(c)
      PROVE  OwnRequestSent'
  BY <1>9 DEF SaveHandle
<1>10. ASSUME NEW c \in Callers, StopTake(c)
      PROVE  OwnRequestSent'
  BY <1>10 DEF StopTake, Aborted
<1>11. ASSUME NEW c \in Callers, StopControl(c)
      PROVE  OwnRequestSent'
  BY <1>11 DEF StopControl
<1>12. ASSUME NEW c \in Callers, StopRequest(c)
      PROVE  OwnRequestSent'
  BY <1>12 DEF StopRequest
<1>13. ASSUME NEW c \in Callers, StopActive(c)
      PROVE  OwnRequestSent'
  BY <1>13 DEF StopActive
<1>14. ASSUME NEW c \in Callers, UpdateRead(c)
      PROVE  OwnRequestSent'
  BY <1>14 DEF UpdateRead
<1>15. ASSUME NEW c \in Callers, UpdateFindsNone(c)
      PROVE  OwnRequestSent'
  BY <1>15 DEF UpdateFindsNone
<1>16. ASSUME NEW c \in Callers, UpdateSend(c)
      PROVE  OwnRequestSent'
  BY <1>16 DEF UpdateSend
<1>17. ASSUME NEW c \in Callers, UpdateSendFails(c)
      PROVE  OwnRequestSent'
  BY <1>17 DEF UpdateSendFails
<1>18. ASSUME NEW c \in Callers, UpdateWrite(c)
      PROVE  OwnRequestSent'
  BY <1>18 DEF UpdateWrite
<1>19. ASSUME NEW s \in Subs, Forward(s)
      PROVE  OwnRequestSent'
  BY <1>19 DEF Forward, Alive
<1>20. ASSUME NEW s \in Subs, StreamEnds(s)
      PROVE  OwnRequestSent'
  BY <1>20 DEF StreamEnds
<1>21. ASSUME NEW s \in Subs, AbortLands(s)
      PROVE  OwnRequestSent'
  BY <1>21 DEF AbortLands
<1>22. CASE UNCHANGED vars
  BY <1>22 DEF vars
<1>23. QED
  BY <1>1, <1>2, <1>3, <1>4, <1>5, <1>6, <1>7, <1>8, <1>9, <1>10, <1>11, <1>12, <1>13, <1>14, <1>15, <1>16, <1>17, <1>18, <1>19, <1>20, <1>21, <1>22
     DEF Next, Call, Subscribe, Stop, Update, StreamTask

\* current_request follows what has been sent.
LEMMA RequestStep ==
  ASSUME IInv, ~raced', ~crossed', [Next]_vars
  PROVE  RequestFollows'
<1> USE NothingAssumption DEF IInv, TypeOK, LocalState, LockDiscipline, SettingUp, InUpdate, SetUp, Stopping, Updating, Goes, Returns, shared, local, tasks, wire, history, Ownership, Wired, ControlFollows, UpdatesAlone, OwnRequestSent, StopLeaves, RequestFollows, LastRequest
<1>1. ASSUME NEW c \in Callers, NEW s \in Subs, Claim(c, s)
      PROVE  RequestFollows'
  BY <1>1 DEF Claim
<1>2. ASSUME NEW c \in Callers, StopCall(c)
      PROVE  RequestFollows'
  BY <1>2 DEF StopCall
<1>3. ASSUME NEW c \in Callers, UpdateSender(c)
      PROVE  RequestFollows'
  BY <1>3 DEF UpdateSender
<1>4. ASSUME NEW c \in Callers, Connect(c)
      PROVE  RequestFollows'
  BY <1>4 DEF Connect
<1>5. ASSUME NEW c \in Callers, ConnectFails(c)
      PROVE  RequestFollows'
  BY <1>5 DEF ConnectFails
<1>6. ASSUME NEW c \in Callers, SetRequest(c)
      PROVE  RequestFollows'
  BY <1>6 DEF SetRequest
<1>7. ASSUME NEW c \in Callers, SetControl(c)
      PROVE  RequestFollows'
  BY <1>7 DEF SetControl
<1>8. ASSUME NEW c \in Callers, SpawnStream(c)
      PROVE  RequestFollows'
  BY <1>8 DEF SpawnStream
<1>9. ASSUME NEW c \in Callers, SaveHandle(c)
      PROVE  RequestFollows'
  BY <1>9 DEF SaveHandle
<1>10. ASSUME NEW c \in Callers, StopTake(c)
      PROVE  RequestFollows'
  BY <1>10 DEF StopTake, Aborted
<1>11. ASSUME NEW c \in Callers, StopControl(c)
      PROVE  RequestFollows'
  BY <1>11 DEF StopControl
<1>12. ASSUME NEW c \in Callers, StopRequest(c)
      PROVE  RequestFollows'
  BY <1>12 DEF StopRequest
<1>13. ASSUME NEW c \in Callers, StopActive(c)
      PROVE  RequestFollows'
  BY <1>13 DEF StopActive
<1>14. ASSUME NEW c \in Callers, UpdateRead(c)
      PROVE  RequestFollows'
  BY <1>14 DEF UpdateRead
<1>15. ASSUME NEW c \in Callers, UpdateFindsNone(c)
      PROVE  RequestFollows'
  BY <1>15 DEF UpdateFindsNone
<1>16. ASSUME NEW c \in Callers, UpdateSend(c)
      PROVE  RequestFollows'
  <2>1. Wired /\ UpdatesAlone /\ RequestFollows
    BY <1>16 DEF UpdateSend
  <2>2. pc[c] = "updateSend" /\ pc'[c] = "updateWrite" /\ control = mine[c] /\ mine[c] \in Subs /\ draft[c] \in Request
    BY <1>16, <2>1 DEF UpdateSend
  <2>3. \A d \in Callers : d # c => pc'[d] = pc[d] /\ pc[d] # "updateWrite"
    BY <1>16, <2>1, <2>2 DEF UpdateSend
  <2>4. UNCHANGED <<control, request, draft, mine, task, server>>
    BY <1>16 DEF UpdateSend
  <2>5. channel'[control] = Append(channel[control], draft[c]) /\ channel[control] \in Seq(Request)
    BY <1>16, <2>2 DEF UpdateSend
  <2>6. LastRequest(control)' = draft[c]
    BY <2>2, <2>4, <2>5, LastOfAppend
  <2> HIDE DEF IInv, LocalState, LockDiscipline, UpdatesAlone, Wired, LastRequest
  <2>7. QED
    BY <2>1, <2>2, <2>3, <2>4, <2>6
<1>17. ASSUME NEW c \in Callers, UpdateSendFails(c)
      PROVE  RequestFollows'
  BY <1>17 DEF UpdateSendFails
<1>18. ASSUME NEW c \in Callers, UpdateWrite(c)
      PROVE  RequestFollows'
  BY <1>18 DEF UpdateWrite
<1>19. ASSUME NEW s \in Subs, Forward(s)
      PROVE  RequestFollows'
  <2>1. TypeOK /\ RequestFollows
    BY <1>19 DEF Forward
  <2>2. channel[s] \in Seq(Request) /\ channel[s] # <<>>
    BY <1>19 DEF Forward
  <2>3. server'[s] = Head(channel[s]) /\ channel'[s] = Tail(channel[s])
    BY <1>19 DEF Forward
  <2>4. LastRequest(s)' = LastRequest(s)
    <3> HIDE DEF IInv, TypeOK, LocalState, LockDiscipline, UpdatesAlone, Wired, RequestFollows
    <3>1. IF Tail(channel[s]) = <<>> THEN Head(channel[s]) = channel[s][Len(channel[s])]
          ELSE Tail(channel[s])[Len(Tail(channel[s]))] = channel[s][Len(channel[s])]
      BY <2>2, LastOfTail
    <3>2. QED
      BY <2>2, <2>3, <3>1
  <2>5. \A t \in Subs : t # s => LastRequest(t)' = LastRequest(t)
    BY <1>19 DEF Forward
  <2>6. UNCHANGED <<pc, mine, draft, control, request, task>>
    BY <1>19 DEF Forward
  <2> HIDE DEF IInv, LocalState, LockDiscipline, UpdatesAlone, Wired, LastRequest
  <2>7. QED
    BY <2>1, <2>4, <2>5, <2>6
<1>20. ASSUME NEW s \in Subs, StreamEnds(s)
      PROVE  RequestFollows'
  BY <1>20 DEF StreamEnds
<1>21. ASSUME NEW s \in Subs, AbortLands(s)
      PROVE  RequestFollows'
  BY <1>21 DEF AbortLands
<1>22. CASE UNCHANGED vars
  BY <1>22 DEF vars
<1>23. QED
  BY <1>1, <1>2, <1>3, <1>4, <1>5, <1>6, <1>7, <1>8, <1>9, <1>10, <1>11, <1>12, <1>13, <1>14, <1>15, <1>16, <1>17, <1>18, <1>19, <1>20, <1>21, <1>22
     DEF Next, Call, Subscribe, Stop, Update, StreamTask

-----------------------------------------------------------------------------
LEMMA InitIInv == Init => IInv
<1>1. SUFFICES ASSUME Init
               PROVE  IInv
  OBVIOUS
<1>2. TypeOK
  <2>1. 0 \in 0..MaxUpdates
    BY MaxUpdatesAssumption
  <2>2. channel \in [Subs -> Seq(Request)]
    BY <1>1 DEF Init
  <2>3. QED
    BY <1>1, <2>1, <2>2 DEF Init, TypeOK
<1>3. LocalState /\ LockDiscipline
  BY <1>1, NothingAssumption
  DEF Init, LocalState, LockDiscipline, SettingUp, InUpdate, SetUp, Updating
<1>4. Ownership
  BY <1>1 DEF Init, Ownership, WithinReach, Running, SettingUp, SetUp
<1>5. StopLeaves /\ Wired /\ ControlFollows
  BY <1>1, NothingAssumption
  DEF Init, StopLeaves, Wired, ControlFollows, SettingUp, InUpdate, SetUp, Updating
<1>6. UpdatesAlone /\ OwnRequestSent /\ RequestFollows
  BY <1>1, NothingAssumption
  DEF Init, UpdatesAlone, OwnRequestSent, RequestFollows, InUpdate, Updating
<1>7. QED
  BY <1>2, <1>3, <1>4, <1>5, <1>6 DEF IInv

LEMMA StepIInv == IInv /\ [Next]_vars => IInv'
<1>1. SUFFICES ASSUME IInv, [Next]_vars
               PROVE  IInv'
  OBVIOUS
<1>2. TypeOK' /\ LocalState' /\ LockDiscipline' /\ StopLeaves'
  BY <1>1, TypeStep, LocalStep, LockStep, StopLeavesStep DEF IInv
<1>3. ~raced' => Ownership' /\ Wired' /\ ControlFollows'
  BY <1>1, OwnershipStep, WiredStep, ControlStep DEF IInv
<1>4. ~raced' /\ ~crossed' => UpdatesAlone' /\ OwnRequestSent' /\ RequestFollows'
  BY <1>1, UpdatesAloneStep, OwnRequestStep, RequestStep
<1>5. QED
  BY <1>2, <1>3, <1>4 DEF IInv

\* The types, the lock discipline of stop, the ownership of the flag, the place of
\* every metrics task and what has become of every request sent are invariant.
THEOREM Invariance == Spec => []IInv
<1>1. QED
  BY InitIInv, StepIInv, PTL DEF Spec

\* Never two streams, unless a stop finishes during a set-up.
THEOREM SingleStream == Spec => []SingleUnlessRaced
<1>1. IInv => SingleUnlessRaced
  <2>1. SUFFICES ASSUME Ownership, NEW s \in Running, NEW t \in Running
                 PROVE  s = t
    BY DEF IInv, SingleUnlessRaced, SingleSubscription
  <2>2. \A c, d \in Callers : pc[c] = "save" /\ pc[d] = "save" => c = d
    BY <2>1 DEF Ownership, SettingUp, SetUp
  <2>3. handle # NoSub => \A c \in Callers : pc[c] # "save"
    BY <2>1 DEF Ownership, SettingUp, SetUp
  <2>4. s # NoSub /\ t # NoSub
    BY NothingAssumption DEF Running
  <2>5. QED
    BY <2>1, <2>2, <2>3, <2>4 DEF Ownership, WithinReach
<1>2. QED
  BY <1>1, Invariance, PTL

\* Every stream is within reach of stop, unless a stop finishes during a set-up.
THEOREM StreamsWithinReach == Spec => []Stoppable
<1>1. IInv => Stoppable
  BY DEF IInv, Ownership, Stoppable
<1>2. QED
  BY <1>1, Invariance, PTL

\* When no call is changing it, current_request is what the server applies, unless
\* calls have overlapped.
THEOREM UpdatesAlwaysSettle == Spec => []UpdatesSettle
<1>1. IInv => UpdatesSettle
  <2>1. SUFFICES ASSUME IInv, ~raced, ~crossed, lock = NoCaller,
                        \A c \in Callers : ~InUpdate(c),
                        NEW s \in Running, control = s, channel[s] = <<>>
                 PROVE  request = server[s]
    BY DEF UpdatesSettle
  <2>2. \A c \in Callers : pc[c] \notin {"stopRequest", "stopActive", "updateWrite"}
    BY <2>1, NothingAssumption DEF IInv, LockDiscipline, InUpdate, Updating
  <2>3. control # NoSub /\ task[control] = "running" /\ LastRequest(control) = server[s]
    BY <2>1, NothingAssumption DEF Running, LastRequest
  <2>4. QED
    BY <2>1, <2>2, <2>3 DEF IInv, RequestFollows
<1>2. QED
  BY <1>1, Invariance, PTL

\* A stop that overlaps no set-up leaves nothing behind, also after a failed
\* connection and after a stream that has ended by itself.
THEOREM StopLeavesNothing == Spec => StopIsFinal
<1> DEFINE Final(c) ==
      pc[c] = "stopActive" /\ pc'[c] = "idle" /\ ~raced' =>
        /\ ~active' /\ handle' = NoSub /\ control' = NoSub
        /\ ~crossed' => request' = NoRequest
        /\ \A s \in Subs :
             /\ task'[s] # "running"
             /\ monitor'[s] = "running" => server'[s] = NoRequest
<1>1. IInv /\ [Next]_vars => [\A c \in Callers : Final(c)]_vars
  <2>1. SUFFICES ASSUME IInv, Next, NEW c \in Callers,
                        pc[c] = "stopActive", pc'[c] = "idle", ~raced'
                 PROVE  Final(c)
    BY DEF vars
  <2>2. StopActive(c)
    <3>1. pc \in [Callers -> {"idle"} \cup SetUp \cup Stopping \cup Updating]
      BY <2>1 DEF IInv, TypeOK
    <3>2. \A d \in Callers : \A from, to : Goes(d, from, to) => d = c /\ from = "stopActive"
      BY <2>1, <3>1 DEF Goes
    <3>3. \A s \in Subs : ~StreamTask(s)
      BY <2>1 DEF StreamTask, Forward, StreamEnds, AbortLands
    <3>4. PICK d \in Callers : Call(d) \/ Subscribe(d) \/ Stop(d) \/ Update(d)
      BY <2>1, <3>3 DEF Next
    <3>5. ~Call(d)
      BY <3>2 DEF Call, Claim, StopCall, UpdateSender
    <3>6. ~Subscribe(d)
      BY <3>2 DEF Subscribe, Connect, ConnectFails, SetRequest, SetControl, SpawnStream,
                  SaveHandle, Returns
    <3>7. ~Update(d)
      BY <3>2 DEF Update, UpdateRead, UpdateFindsNone, UpdateSend, UpdateSendFails,
                  UpdateWrite, Returns
    <3>8. StopActive(d)
      BY <3>2, <3>4, <3>5, <3>6, <3>7 DEF Stop, StopTake, StopControl, StopRequest
    <3>9. QED
      BY <3>2, <3>8 DEF StopActive, Returns
  <2>3. \A d \in Callers : ~SettingUp(d)
    BY <2>1, <2>2 DEF StopActive, IInv, TypeOK
  <2>4. handle = NoSub
    BY <2>1, NothingAssumption DEF IInv, LockDiscipline
  <2>5. control = NoSub /\ (~crossed => request = NoRequest)
    BY <2>1, <2>3 DEF IInv, StopLeaves, SettingUp, SetUp
  <2>6. ~raced
    BY <2>1, <2>2 DEF StopActive
  <2>7. \A s \in Subs : task[s] # "running" /\ (monitor[s] = "running" => server[s] = NoRequest)
    BY <2>1, <2>3, <2>4, <2>6, NothingAssumption
    DEF IInv, Ownership, WithinReach, Running, Wired, SettingUp, SetUp
  <2>8. QED
    BY <2>2, <2>4, <2>5, <2>7 DEF StopActive, tasks, wire
<1>2. QED
  BY <1>1, Invariance, PTL DEF Spec, StopIsFinal
=============================================================================
