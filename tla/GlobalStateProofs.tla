-------------------------- MODULE GlobalStateProofs --------------------------
(***************************************************************************)
(* Proofs about GlobalState, for any number of threads, slots and shards   *)
(* and every batch that is no larger than the capacity: cleanup never      *)
(* removes the newest slot, although cleanups overlap and their victims    *)
(* are stale when they are removed.                                        *)
(***************************************************************************)
EXTENDS GlobalState, FiniteSetTheorems, TLAPS

\* Cutting the sorted slots to fewer than there are leaves out a newer one than
\* any that is kept.
LEMMA OldestHaveNewer ==
  ASSUME NEW S \in SUBSET Slots, NEW n \in Nat, Cardinality(S) > n,
         NEW v \in Oldest(S, n)
  PROVE  v \in S /\ \E f \in S : f > v
<1>1. v \in S /\ IsFiniteSet(S) /\ S \subseteq Nat
  BY SlotsAssumption, FS_Subset DEF Oldest
<1>2. SUFFICES ASSUME ~ \E f \in S : f > v
               PROVE  FALSE
  BY <1>1
<1>3. {w \in S : w < v} = S \ {v}
  <2>1. ASSUME NEW w \in S
        PROVE  w < v <=> w # v
    <3>1. w \in Nat /\ v \in Nat /\ ~(w > v)
      BY <1>1, <1>2
    <3>2. QED
      BY <3>1
  <2>2. QED
    BY <1>1, <2>1
<1>4. Cardinality(S \ {v}) = Cardinality(S) - 1 /\ Cardinality(S) \in Nat
  BY <1>1, FS_RemoveElement, FS_CardinalityType
<1>5. Cardinality(S \ {v}) < n
  BY <1>3 DEF Oldest
<1>6. QED
  BY <1>4, <1>5

-----------------------------------------------------------------------------
\* Every step keeps the types.
LEMMA TypeStep ==
  ASSUME TypeOK, [Next]_vars
  PROVE  TypeOK'
<1> USE DEF TypeOK, PcState, Goes, shared, local, history
<1>1. ASSUME NEW t \in Threads, LoadCount(t)
      PROVE  TypeOK'
  BY <1>1 DEF LoadCount
<1>2. ASSUME NEW t \in Threads, LoadGen(t)
      PROVE  TypeOK'
  BY <1>2 DEF LoadGen
<1>3. ASSUME NEW t \in Threads, CasWins(t)
      PROVE  TypeOK'
  <2>1. generation' \in 0..MaxGen /\ 0 \in 0..MaxGen
    BY <1>3, BoundsAssumption DEF CasWins
  <2>2. pc' \in [Threads -> PcState] /\ gen' \in [Threads -> 0..MaxGen]
    BY <1>3, <2>1 DEF CasWins
  <2>3. todo' \in [Threads -> SUBSET Shards] /\ overlapped' \in BOOLEAN
    BY <1>3 DEF CasWins
  <2>4. QED
    BY <1>3, <2>1, <2>2, <2>3 DEF CasWins
<1>4. ASSUME NEW t \in Threads, CasLoses(t)
      PROVE  TypeOK'
  <2>1. 0 \in 0..MaxGen
    BY BoundsAssumption
  <2>2. QED
    BY <1>4, <2>1 DEF CasLoses
<1>5. ASSUME NEW t \in Threads, Collect(t)
      PROVE  TypeOK'
  BY <1>5 DEF Collect
<1>6. ASSUME NEW t \in Threads, Choose(t)
      PROVE  TypeOK'
  <2>1. Oldest(found[t], Batch) \in SUBSET Slots
    BY DEF Oldest
  <2>2. QED
    BY <1>6, <2>1 DEF Choose
<1>7. ASSUME NEW t \in Threads, Remove(t)
      PROVE  TypeOK'
  BY <1>7 DEF Remove
<1>8. ASSUME NEW t \in Threads, Subtract(t)
      PROVE  TypeOK'
  <2>1. slot_count' \in 0..(W - 1)
    BY <1>8, BoundsAssumption DEF Subtract, Decremented
  <2>2. pc' \in [Threads -> PcState]
    BY <1>8 DEF Subtract
  <2>3. QED
    BY <1>8, <2>1, <2>2 DEF Subtract
<1>9. ASSUME NEW t \in Threads, Entry(t)
      PROVE  TypeOK'
  <2>1. slot_count' \in 0..(W - 1)
    BY <1>9, BoundsAssumption DEF Entry, Incremented
  <2>2. slot_data' \in SUBSET Slots /\ pc' \in [Threads -> PcState]
    BY <1>9 DEF Entry
  <2>3. overlapped' \in BOOLEAN
    BY <1>9 DEF Entry
  <2>4. QED
    BY <1>9, <2>1, <2>2, <2>3 DEF Entry
<1>10. ASSUME NEW t \in Threads, Clear(t)
       PROVE  TypeOK'
  <2>1. overlapped' \in BOOLEAN
    BY <1>10 DEF Clear
  <2>2. QED
    BY <1>10, <2>1 DEF Clear
<1>11. ASSUME NEW t \in Threads, ClearShard(t)
       PROVE  TypeOK'
  BY <1>11 DEF ClearShard
<1>12. ASSUME NEW t \in Threads, ClearCount(t)
       PROVE  TypeOK'
  <2>1. 0 \in 0..(W - 1)
    <3>1. Cardinality(Slots) \in Nat /\ Cardinality(Threads) \in Nat
      BY SlotsAssumption, ThreadsAssumption, FS_CardinalityType
    <3>2. QED
      BY <3>1, BoundsAssumption
  <2>2. QED
    BY <1>12, <2>1 DEF ClearCount
<1>13. ASSUME NEW t \in Threads, ClearGen(t)
       PROVE  TypeOK'
  <2>1. 0 \in 0..MaxGen
    BY BoundsAssumption
  <2>2. QED
    BY <1>13, <2>1 DEF ClearGen
<1>14. CASE UNCHANGED vars
  BY <1>14 DEF vars
<1>15. QED
  BY <1>1, <1>2, <1>3, <1>4, <1>5, <1>6, <1>7, <1>8, <1>9, <1>10, <1>11, <1>12,
     <1>13, <1>14
  DEF Next, Cleanup, ClearAll

\* Only clear_all_data clears.
LEMMA ClearingStep ==
  ASSUME TypeOK, ClearingIsClear, [Next]_vars
  PROVE  ClearingIsClear'
<1>1. CASE UNCHANGED vars
  BY <1>1 DEF ClearingIsClear, vars
<1>2. ASSUME NEW t \in Threads, Cleanup(t) \/ Entry(t)
      PROVE  ClearingIsClear'
  BY <1>2
  DEF TypeOK, ClearingIsClear, Cleanup, LoadCount, LoadGen, CasWins, CasLoses, Collect,
      Choose, Remove, Subtract, Entry, Goes, history, shared, local
<1>3. ASSUME NEW t \in Threads, ClearAll(t)
      PROVE  ClearingIsClear'
  BY <1>3
  DEF TypeOK, ClearingIsClear, ClearAll, Clear, ClearShard, ClearCount, ClearGen, Goes,
      history, shared, local
<1>4. QED
  BY <1>1, <1>2, <1>3 DEF Next

\* If the map keeps something at least as new as all it had, whatever was found
\* in it is matched and every victim stays outdated.
LEMMA NewerStays ==
  ASSUME TypeOK, VictimsOutdated, slot_data' \subseteq Slots,
         \A n \in slot_data : \E m \in slot_data' : m >= n
  PROVE  /\ \A t \in Threads : \A f \in found[t] : \E n \in slot_data' : n >= f
         /\ \A t \in Threads : \A v \in victims[t] : \E n \in slot_data' : n > v
<1>1. slot_data \subseteq Nat /\ slot_data' \subseteq Nat
      /\ \A t \in Threads : found[t] \subseteq Nat /\ victims[t] \subseteq Nat
  BY SlotsAssumption DEF TypeOK
<1>2. ASSUME NEW t \in Threads, NEW f \in found[t]
      PROVE  \E n \in slot_data' : n >= f
  <2>1. PICK n \in slot_data : n >= f
    BY DEF VictimsOutdated
  <2>2. PICK m \in slot_data' : m >= n
    OBVIOUS
  <2>3. f \in Nat /\ n \in Nat /\ m \in Nat
    BY <1>1
  <2>4. QED
    BY <2>1, <2>2, <2>3
<1>3. ASSUME NEW t \in Threads, NEW v \in victims[t]
      PROVE  \E n \in slot_data' : n > v
  <2>1. PICK n \in slot_data : n > v
    BY DEF VictimsOutdated
  <2>2. PICK m \in slot_data' : m >= n
    OBVIOUS
  <2>3. v \in Nat /\ n \in Nat /\ m \in Nat
    BY <1>1
  <2>4. QED
    BY <2>1, <2>2, <2>3
<1>4. QED
  BY <1>2, <1>3

\* A removed victim leaves something newer behind.
LEMMA RemoveLeavesNewer ==
  ASSUME TypeOK, VictimsOutdated, NEW t \in Threads, Remove(t)
  PROVE  /\ \A n \in slot_data : \E m \in slot_data' : m >= n
         /\ \A s \in slot_data \ slot_data' : \E m \in slot_data' : m > s
<1>1. PICK v \in victims[t] : slot_data' = slot_data \ {v}
  BY DEF Remove
<1>2. slot_data \subseteq Nat /\ v \in Nat
  BY SlotsAssumption DEF TypeOK
<1>3. PICK n \in slot_data : n > v
  BY DEF VictimsOutdated
<1>4. n \in slot_data' /\ n \in Nat
  BY <1>1, <1>2, <1>3
<1>5. \A s \in slot_data \ slot_data' : s = v
  BY <1>1
<1>6. \A k \in slot_data : k \in slot_data' \/ k = v
  BY <1>1
<1>7. \A k \in slot_data : k >= k
  BY <1>2
<1>8. n >= v
  BY <1>2, <1>3, <1>4
<1>9. QED
  BY <1>3, <1>4, <1>5, <1>6, <1>7, <1>8

LEMMA OutdatedStep ==
  ASSUME TypeOK, ClearingIsClear, ~cleared => VictimsOutdated, [Next]_vars, ~cleared'
  PROVE  VictimsOutdated'
<1>1. ~cleared
  BY DEF Next, Cleanup, LoadCount, LoadGen, CasWins, CasLoses, Collect, Choose, Remove,
         Subtract, Entry, ClearAll, Clear, ClearShard, ClearCount, ClearGen, history, vars
<1>2. VictimsOutdated
  BY <1>1
<1>3. slot_data \subseteq Nat
  BY SlotsAssumption DEF TypeOK
<1>4. CASE UNCHANGED <<slot_data, found, victims>>
  BY <1>2, <1>4 DEF VictimsOutdated
<1>5. ASSUME NEW t \in Threads, Collect(t)
      PROVE  VictimsOutdated'
  <2>1. PICK S \in todo[t] : found' = [found EXCEPT ![t] = @ \cup (S \cap slot_data)]
    BY <1>5 DEF Collect
  <2>2. slot_data' = slot_data /\ victims' = victims
    BY <1>5 DEF Collect, shared
  <2>3. \A u \in Threads : \A f \in found'[u] : f \in found[u] \/ f \in slot_data
    BY <2>1 DEF TypeOK
  <2>4. \A f \in slot_data : f >= f
    BY <1>3
  <2>5. QED
    BY <1>2, <2>2, <2>3, <2>4 DEF VictimsOutdated
<1>6. ASSUME NEW t \in Threads, Choose(t)
      PROVE  VictimsOutdated'
  <2>1. slot_data' = slot_data /\ found' = [found EXCEPT ![t] = {}]
    BY <1>6 DEF Choose, shared
  <2>2. \A u \in Threads : \A f \in found'[u] : f \in found[u]
    BY <2>1 DEF TypeOK
  <2>3. ASSUME NEW u \in Threads, NEW v \in victims'[u]
        PROVE  \E n \in slot_data : n > v
    <3>1. CASE v \in victims[u]
      BY <1>2, <3>1 DEF VictimsOutdated
    <3>2. CASE v \notin victims[u]
      <4>1. /\ u = t
            /\ Cardinality(found[t]) > MaxSlots
            /\ v \in Oldest(found[t], Batch)
        <5>1. IsFiniteSet(found[t])
          BY SlotsAssumption, FS_Subset DEF TypeOK
        <5>2. Cardinality(found[t]) \in Nat
          BY <5>1, FS_CardinalityType
        <5>3. victims' # victims
          BY <3>2
        <5>4. /\ ~(Cardinality(found[t]) <= MaxSlots)
              /\ victims' = [victims EXCEPT ![t] = Oldest(found[t], Batch)]
          BY <1>6, <5>3 DEF Choose
        <5>5. u = t /\ v \in Oldest(found[t], Batch)
          BY <3>2, <5>4 DEF TypeOK
        <5>6. QED
          BY <5>2, <5>4, <5>5, LimitsAssumption
      <4>2. PICK f \in found[t] : f > v /\ v \in found[t]
        <5>1. Cardinality(found[t]) > Batch
          <6>1. Cardinality(found[t]) \in Nat
            BY SlotsAssumption, FS_Subset, FS_CardinalityType DEF TypeOK
          <6>2. QED
            BY <4>1, <6>1, LimitsAssumption
        <5>2. found[t] \in SUBSET Slots /\ Batch \in Nat
          BY LimitsAssumption DEF TypeOK
        <5>3. QED
          BY <4>1, <5>1, <5>2, OldestHaveNewer
      <4>3. PICK n \in slot_data : n >= f
        BY <1>2 DEF VictimsOutdated
      <4>4. f \in Nat /\ v \in Nat /\ n \in Nat
        BY <1>3, <4>2, SlotsAssumption DEF TypeOK
      <4>5. QED
        BY <4>2, <4>3, <4>4
    <3>3. QED
      BY <3>1, <3>2
  <2>4. QED
    BY <1>2, <2>1, <2>2, <2>3 DEF VictimsOutdated
<1>7. ASSUME NEW t \in Threads, Remove(t)
      PROVE  VictimsOutdated'
  <2>1. \A n \in slot_data : \E m \in slot_data' : m >= n
    BY <1>2, <1>7, RemoveLeavesNewer
  <2>2. slot_data' \subseteq Slots /\ found' = found
    BY <1>7 DEF Remove, TypeOK
  <2>3. \A u \in Threads : victims'[u] \subseteq victims[u]
    BY <1>7 DEF Remove, TypeOK
  <2>4. QED
    BY <1>2, <2>1, <2>2, <2>3, NewerStays DEF VictimsOutdated
<1>8. ASSUME NEW t \in Threads, Entry(t)
      PROVE  VictimsOutdated'
  <2>1. slot_data \subseteq slot_data' /\ slot_data' \subseteq Slots
    BY <1>8 DEF Entry, TypeOK
  <2>2. \A n \in slot_data : \E m \in slot_data' : m >= n
    BY <1>3, <2>1
  <2>3. found' = found /\ victims' = victims
    BY <1>8 DEF Entry, local
  <2>4. QED
    BY <1>2, <2>1, <2>2, <2>3, NewerStays DEF VictimsOutdated
<1>9. ASSUME NEW t \in Threads, ClearAll(t)
      PROVE  VictimsOutdated'
  BY <1>1, <1>9
  DEF ClearAll, Clear, ClearShard, ClearCount, ClearGen, Goes, ClearingIsClear
<1>10. ASSUME NEW t \in Threads,
              LoadCount(t) \/ LoadGen(t) \/ CasWins(t) \/ CasLoses(t) \/ Subtract(t)
       PROVE  VictimsOutdated'
  BY <1>4, <1>10 DEF LoadCount, LoadGen, CasWins, CasLoses, Subtract, shared, local
<1>11. QED
  BY <1>4, <1>5, <1>6, <1>7, <1>8, <1>9, <1>10 DEF Next, Cleanup, vars

-----------------------------------------------------------------------------
\* overlapped is never reset.
LEMMA OverlapStays ==
  ASSUME TypeOK, [Next]_vars, ~overlapped'
  PROVE  ~overlapped
BY DEF Next, Cleanup, LoadCount, LoadGen, CasWins, CasLoses, Collect, Choose, Remove,
       Subtract, Entry, ClearAll, Clear, ClearShard, ClearCount, ClearGen, history, vars,
       TypeOK

\* One cleanup or clear at a time as long as overlapped says so.
LEMMA OneAtATimeStep ==
  ASSUME TypeOK, ClearingIsClear, OneAtATime, [Next]_vars
  PROVE  OneAtATime'
<1> USE DEF TypeOK, OneAtATime, Cleaning, SomeClearing, Goes, shared, local, history
<1>1. CASE UNCHANGED vars
  BY <1>1 DEF vars
<1>2. ASSUME NEW t \in Threads, LoadCount(t)
      PROVE  OneAtATime'
  BY <1>2 DEF LoadCount
<1>3. ASSUME NEW t \in Threads, LoadGen(t)
      PROVE  OneAtATime'
  BY <1>3 DEF LoadGen
<1>4. ASSUME NEW t \in Threads, CasWins(t)
      PROVE  OneAtATime'
  <2>1. pc' = [pc EXCEPT ![t] = "collect"] /\ found' = found /\ victims' = victims
        /\ pc[t] = "cas"
    BY <1>4 DEF CasWins
  <2>2. ~overlapped' => ~overlapped /\ ~SomeClearing /\ \A u \in Threads : ~Cleaning(u)
    BY <1>4 DEF CasWins
  <2>3. ASSUME ~overlapped'
        PROVE  \A u \in Threads : (Cleaning(u)' => u = t) /\ pc'[u] # "clear"
    BY <2>1, <2>2, <2>3
  <2>4. \A u \in Threads : found[u] # {} => pc'[u] = "collect"
    BY <2>1
  <2>5. \A u \in Threads : victims[u] # {} => pc'[u] \in {"remove", "subtract"}
    BY <2>1
  <2>6. \A u, v \in Threads : pc'[u] = "clear" /\ pc'[v] = "clear" => u = v
    BY <2>1
  <2>7. QED
    BY <2>1, <2>3, <2>4, <2>5, <2>6
<1>5. ASSUME NEW t \in Threads, CasLoses(t)
      PROVE  OneAtATime'
  BY <1>5 DEF CasLoses
<1>6. ASSUME NEW t \in Threads, Collect(t)
      PROVE  OneAtATime'
  BY <1>6 DEF Collect
<1>7. ASSUME NEW t \in Threads, Choose(t)
      PROVE  OneAtATime'
  BY <1>7 DEF Choose
<1>8. ASSUME NEW t \in Threads, Remove(t)
      PROVE  OneAtATime'
  BY <1>8 DEF Remove
<1>9. ASSUME NEW t \in Threads, Subtract(t)
      PROVE  OneAtATime'
  BY <1>9 DEF Subtract
<1>10. ASSUME NEW t \in Threads, Entry(t)
       PROVE  OneAtATime'
  BY <1>10 DEF Entry
<1>11. ASSUME NEW t \in Threads, Clear(t)
       PROVE  OneAtATime'
  <2>1. pc' = [pc EXCEPT ![t] = "clear"] /\ found' = found /\ victims' = victims
        /\ pc[t] = "idle"
    BY <1>11 DEF Clear
  <2>2. \A u \in Threads : pc[u] # "clear"
    BY <1>11 DEF Clear, ClearingIsClear
  <2>3. ASSUME ~overlapped'
        PROVE  \A u \in Threads : ~Cleaning(u)'
    BY <1>11, <2>1, <2>3 DEF Clear
  <2>4. \A u \in Threads : found[u] # {} => pc'[u] = "collect"
    BY <2>1
  <2>5. \A u \in Threads : victims[u] # {} => pc'[u] \in {"remove", "subtract"}
    BY <2>1
  <2>6. \A u, v \in Threads : pc'[u] = "clear" /\ pc'[v] = "clear" => u = v
    BY <2>1, <2>2
  <2>7. QED
    BY <2>1, <2>3, <2>4, <2>5, <2>6
<1>12. ASSUME NEW t \in Threads, ClearShard(t) \/ ClearCount(t) \/ ClearGen(t)
       PROVE  OneAtATime'
  BY <1>12 DEF ClearShard, ClearCount, ClearGen
<1>13. QED
  BY <1>1, <1>2, <1>3, <1>4, <1>5, <1>6, <1>7, <1>8, <1>9, <1>10, <1>11, <1>12
  DEF Next, Cleanup, ClearAll

\* What a thread is about to remove is still there.
LEMMA NothingLostStep ==
  ASSUME TypeOK, OneAtATime, NothingLost, [Next]_vars
  PROVE  NothingLost'
<1>1. SUFFICES ASSUME ~overlapped'
               PROVE  NothingLost'
  BY DEF NothingLost
<1>2. ~overlapped
  BY <1>1, OverlapStays
<1> USE DEF TypeOK, Goes, shared, local, history
<1>3. CASE UNCHANGED <<slot_data, found, victims, todo, pc, overlapped>>
  BY <1>3 DEF NothingLost
<1>4. ASSUME NEW t \in Threads, LoadCount(t) \/ LoadGen(t) \/ CasLoses(t) \/ Subtract(t)
      PROVE  NothingLost'
  BY <1>2, <1>4 DEF NothingLost, LoadCount, LoadGen, CasLoses, Subtract
<1>5. ASSUME NEW t \in Threads, CasWins(t)
      PROVE  NothingLost'
  BY <1>2, <1>5 DEF NothingLost, CasWins
<1>6. ASSUME NEW t \in Threads, Collect(t)
      PROVE  NothingLost'
  BY <1>2, <1>6 DEF NothingLost, Collect
<1>7. ASSUME NEW t \in Threads, Choose(t)
      PROVE  NothingLost'
  <2>1. Oldest(found[t], Batch) \subseteq found[t]
    BY DEF Oldest
  <2>2. QED
    BY <1>2, <1>7, <2>1 DEF NothingLost, Choose
<1>8. ASSUME NEW t \in Threads, Remove(t)
      PROVE  NothingLost'
  <2>1. \A u \in Threads : u # t => found[u] = {} /\ victims[u] = {} /\ pc[u] # "clear"
    BY <1>2, <1>8 DEF OneAtATime, Cleaning, SomeClearing, Remove
  <2>2. PICK v \in victims[t] :
          /\ slot_data' = slot_data \ {v}
          /\ victims' = [victims EXCEPT ![t] = @ \ {v}]
    BY <1>8 DEF Remove
  <2>3. found[t] = {}
    BY <1>8 DEF Remove, OneAtATime
  <2>4. QED
    BY <1>2, <1>8, <2>1, <2>2, <2>3 DEF NothingLost, Remove
<1>9. ASSUME NEW t \in Threads, Entry(t)
      PROVE  NothingLost'
  <2>1. PICK s \in Slots :
          /\ slot_data' = slot_data \cup {s}
          /\ overlapped' = (overlapped \/ (SomeClearing /\ s \notin slot_data))
    BY <1>9 DEF Entry
  <2>2. \A u \in Threads : pc'[u] = "clear" => pc[u] = "clear" /\ slot_data' = slot_data
    BY <1>1, <1>9, <2>1 DEF Entry, SomeClearing
  <2>3. QED
    BY <1>2, <1>9, <2>1, <2>2 DEF NothingLost, Entry
<1>10. ASSUME NEW t \in Threads, Clear(t)
       PROVE  NothingLost'
  <2>1. pc' = [pc EXCEPT ![t] = "clear"] /\ todo' = [todo EXCEPT ![t] = Shards]
        /\ slot_data' = slot_data /\ found' = found /\ victims' = victims
    BY <1>10 DEF Clear
  <2>2. slot_data \subseteq UNION Shards
    BY ShardsAssumption
  <2>3. QED
    BY <1>2, <2>1, <2>2 DEF NothingLost
<1>11. ASSUME NEW t \in Threads, ClearShard(t)
       PROVE  NothingLost'
  <2>1. \A u \in Threads : found[u] = {} /\ victims[u] = {}
    BY <1>2, <1>11 DEF ClearShard, OneAtATime, SomeClearing, Cleaning
  <2>2. \A u \in Threads : pc[u] = "clear" => u = t
    BY <1>11 DEF ClearShard, OneAtATime
  <2>3. slot_data \subseteq UNION todo[t]
    BY <1>2, <1>11 DEF ClearShard, NothingLost
  <2>4. PICK S \in todo[t] : todo' = [todo EXCEPT ![t] = @ \ {S}] /\ slot_data' = slot_data \ S
    BY <1>11 DEF ClearShard
  <2>5. slot_data' \subseteq UNION (todo[t] \ {S})
    BY <2>3, <2>4
  <2>6. QED
    BY <1>11, <2>1, <2>2, <2>4, <2>5 DEF NothingLost, ClearShard
<1>12. ASSUME NEW t \in Threads, ClearCount(t) \/ ClearGen(t)
       PROVE  NothingLost'
  BY <1>2, <1>12 DEF NothingLost, ClearCount, ClearGen
<1>13. QED
  BY <1>3, <1>4, <1>5, <1>6, <1>7, <1>8, <1>9, <1>10, <1>11, <1>12
  DEF Next, Cleanup, ClearAll, vars

\* A set changed in one place has its cardinality changed by one.
LEMMA OneMore ==
  ASSUME NEW S, IsFiniteSet(S), NEW x
  PROVE  /\ Cardinality(S) \in Nat
         /\ x \notin S => Cardinality(S \cup {x}) = Cardinality(S) + 1
         /\ x \in S => Cardinality(S \ {x}) = Cardinality(S) - 1
BY FS_CardinalityType, FS_AddElement, FS_RemoveElement

LEMMA FiniteParts ==
  ASSUME NEW S \in SUBSET Slots, NEW R \in SUBSET Threads
  PROVE  /\ IsFiniteSet(S) /\ IsFiniteSet(R)
         /\ Cardinality(S) \in Nat /\ Cardinality(R) \in Nat
         /\ Cardinality(S) + Cardinality(R) < W
<1>1. /\ Cardinality(Slots) \in Nat /\ Cardinality(Threads) \in Nat
      /\ IsFiniteSet(S) /\ Cardinality(S) <= Cardinality(Slots)
      /\ IsFiniteSet(R) /\ Cardinality(R) <= Cardinality(Threads)
  BY SlotsAssumption, ThreadsAssumption, FS_Subset, FS_CardinalityType
<1>2. Cardinality(S) \in Nat /\ Cardinality(R) \in Nat
  BY <1>1, FS_CardinalityType
<1>3. QED
  BY <1>1, <1>2, BoundsAssumption

\* Every step that changes the map or the number of removals under way changes the
\* counter with it.
LEMMA CountStep ==
  ASSUME TypeOK, TypeOK', OneAtATime, NothingLost, CountExact, [Next]_vars
  PROVE  CountExact'
<1>1. SUFFICES ASSUME ~overlapped', ~SomeClearing'
               PROVE  slot_count' = Cardinality(slot_data') + Cardinality(Removing')
  BY DEF CountExact
<1>2. ~overlapped
  BY <1>1, OverlapStays
<1>3. /\ IsFiniteSet(slot_data) /\ IsFiniteSet(Removing)
      /\ Cardinality(slot_data) \in Nat /\ Cardinality(Removing) \in Nat
      /\ Cardinality(slot_data) + Cardinality(Removing) < W
  <2>1. slot_data \in SUBSET Slots /\ Removing \in SUBSET Threads
    BY DEF TypeOK, Removing
  <2>2. QED
    BY <2>1, FiniteParts
<1> USE DEF TypeOK, Goes, shared, local, history
<1>4. ASSUME UNCHANGED <<slot_data, slot_count>>, ~SomeClearing, Removing' = Removing
      PROVE  slot_count' = Cardinality(slot_data') + Cardinality(Removing')
  BY <1>2, <1>4 DEF CountExact
<1>5. CASE UNCHANGED vars
  <2>1. Removing' = Removing /\ ~SomeClearing
    BY <1>1, <1>5 DEF Removing, SomeClearing, vars
  <2>2. QED
    BY <1>4, <1>5, <2>1 DEF vars
<1>6. ASSUME NEW t \in Threads,
             LoadCount(t) \/ LoadGen(t) \/ CasWins(t) \/ CasLoses(t) \/ Collect(t) \/ Choose(t)
               \/ ClearGen(t)
      PROVE  slot_count' = Cardinality(slot_data') + Cardinality(Removing')
  <2>1. UNCHANGED <<slot_data, slot_count>>
    BY <1>6 DEF LoadCount, LoadGen, CasWins, CasLoses, Collect, Choose, ClearGen
  <2>2. pc[t] \notin {"clear", "subtract"} /\ pc'[t] # "subtract"
        /\ \A u \in Threads : u # t => pc'[u] = pc[u]
    BY <1>6 DEF LoadCount, LoadGen, CasWins, CasLoses, Collect, Choose, ClearGen
  <2>3. Removing' = Removing
    BY <2>2 DEF Removing
  <2>4. ~SomeClearing
    BY <1>1, <2>2 DEF SomeClearing
  <2>5. QED
    BY <1>4, <2>1, <2>3, <2>4
<1>7. ASSUME NEW t \in Threads, Remove(t)
      PROVE  slot_count' = Cardinality(slot_data') + Cardinality(Removing')
  <2>1. PICK v \in victims[t] : slot_data' = slot_data \ {v}
    BY <1>7 DEF Remove
  <2>2. v \in slot_data
    BY <1>2 DEF NothingLost
  <2>3. Removing' = Removing \cup {t} /\ t \notin Removing
    BY <1>7 DEF Remove, Removing
  <2>4. ~SomeClearing
    BY <1>2, <1>7 DEF Remove, OneAtATime, Cleaning
  <2>5. slot_count' = slot_count
    BY <1>7 DEF Remove
  <2>6. slot_count = Cardinality(slot_data) + Cardinality(Removing)
    BY <1>2, <2>4 DEF CountExact
  <2>7. Cardinality(slot_data') = Cardinality(slot_data) - 1
    BY <1>3, <2>1, <2>2, OneMore
  <2>8. Cardinality(Removing') = Cardinality(Removing) + 1
    BY <1>3, <2>3, OneMore
  <2>9. QED
    BY <1>3, <2>5, <2>6, <2>7, <2>8
<1>8. ASSUME NEW t \in Threads, Subtract(t)
      PROVE  slot_count' = Cardinality(slot_data') + Cardinality(Removing')
  <2>1. Removing' = Removing \ {t} /\ t \in Removing
    BY <1>8 DEF Subtract, Removing
  <2>2. ~SomeClearing
    BY <1>2, <1>8 DEF Subtract, OneAtATime, Cleaning
  <2>3. slot_count = Cardinality(slot_data) + Cardinality(Removing)
    BY <1>2, <2>2 DEF CountExact
  <2>4. Cardinality(Removing') = Cardinality(Removing) - 1 /\ Cardinality(Removing') \in Nat
    BY <1>3, <2>1, OneMore, FS_RemoveElement, FS_CardinalityType
  <2>5. slot_data' = slot_data /\ slot_count' = Decremented
    BY <1>8 DEF Subtract
  <2>6. QED
    BY <1>3, <2>3, <2>4, <2>5 DEF Decremented
<1>9. ASSUME NEW t \in Threads, Entry(t)
      PROVE  slot_count' = Cardinality(slot_data') + Cardinality(Removing')
  <2>1. PICK s \in Slots :
          /\ slot_data' = slot_data \cup {s}
          /\ slot_count' = IF s \in slot_data THEN slot_count ELSE Incremented
    BY <1>9 DEF Entry
  <2>2. Removing' = Removing /\ ~SomeClearing
    BY <1>1, <1>9 DEF Entry, Removing, SomeClearing
  <2>3. slot_count = Cardinality(slot_data) + Cardinality(Removing)
    BY <1>2, <2>2 DEF CountExact
  <2>4. CASE s \in slot_data
    BY <2>1, <2>2, <2>3, <2>4, slot_data \cup {s} = slot_data
  <2>5. CASE s \notin slot_data
    <3>1. Cardinality(slot_data') = Cardinality(slot_data) + 1
      BY <1>3, <2>1, <2>5, OneMore
    <3>2. Cardinality(slot_data') + Cardinality(Removing') < W
      <4>1. slot_data' \in SUBSET Slots /\ Removing' \in SUBSET Threads
        BY DEF Removing
      <4>2. QED
        BY <4>1, FiniteParts
    <3>3. slot_count + 1 < W
      BY <1>3, <2>2, <2>3, <3>1, <3>2
    <3>4. QED
      BY <1>3, <2>1, <2>2, <2>3, <2>5, <3>1, <3>3, BoundsAssumption DEF Incremented
  <2>6. QED
    BY <2>4, <2>5
<1>10. ASSUME NEW t \in Threads, Clear(t) \/ ClearShard(t)
       PROVE  FALSE
  BY <1>1, <1>10 DEF Clear, ClearShard, SomeClearing
<1>11. ASSUME NEW t \in Threads, ClearCount(t)
       PROVE  slot_count' = Cardinality(slot_data') + Cardinality(Removing')
  <2>1. slot_data' = {} /\ slot_count' = 0
    BY <1>2, <1>11 DEF ClearCount, NothingLost
  <2>2. Removing' = {}
    BY <1>2, <1>11 DEF ClearCount, Removing, OneAtATime, Cleaning, SomeClearing
  <2>3. QED
    BY <2>1, <2>2, FS_EmptySet
<1>12. QED
  BY <1>5, <1>6, <1>7, <1>8, <1>9, <1>10, <1>11 DEF Next, Cleanup, ClearAll

-----------------------------------------------------------------------------
LEMMA InitIInv == Init => IInv
<1>1. SUFFICES ASSUME Init
               PROVE  IInv
  OBVIOUS
<1>2. 0 \in 0..(W - 1) /\ 0 \in 0..MaxGen
  <2>1. Cardinality(Slots) \in Nat /\ Cardinality(Threads) \in Nat
    BY SlotsAssumption, ThreadsAssumption, FS_CardinalityType
  <2>2. QED
    BY <2>1, BoundsAssumption
<1>3. TypeOK
  BY <1>1, <1>2 DEF Init, TypeOK, PcState
<1>4. ClearingIsClear /\ VictimsOutdated
  BY <1>1 DEF Init, ClearingIsClear, VictimsOutdated
<1>5. OneAtATime /\ NothingLost
  BY <1>1 DEF Init, OneAtATime, NothingLost, Cleaning, SomeClearing
<1>6. CountExact
  <2>1. Removing = {}
    BY <1>1 DEF Init, Removing
  <2>2. QED
    BY <1>1, <2>1, FS_EmptySet DEF Init, CountExact
<1>7. QED
  BY <1>3, <1>4, <1>5, <1>6 DEF IInv

LEMMA StepIInv == IInv /\ [Next]_vars => IInv'
  BY TypeStep, ClearingStep, OutdatedStep, OneAtATimeStep, NothingLostStep, CountStep
  DEF IInv

\* Types hold, and something newer than each victim is in the map.
THEOREM Invariance == Spec => []IInv
<1>1. QED
  BY InitIInv, StepIInv, PTL DEF Spec

\* The counter is exact unless cleanups or a clear overlap, for any number of threads.
THEOREM CountIsExact == Spec => []CountExact
<1>1. IInv => CountExact
  BY DEF IInv
<1>2. QED
  BY <1>1, Invariance, PTL

\* The newest slot is never removed, whatever the interleaving.
THEOREM NewestIsKept == Spec => NewestKept
<1>1. IInv /\ [Next]_vars =>
        [~cleared' => \A s \in slot_data \ slot_data' : \E n \in slot_data' : n > s]_vars
  <2>1. SUFFICES ASSUME IInv, Next, ~cleared', NEW s \in slot_data \ slot_data'
                 PROVE  \E n \in slot_data' : n > s
    BY DEF vars
  <2>2. ~cleared
    BY <2>1 DEF Next, Cleanup, LoadCount, LoadGen, CasWins, CasLoses, Collect, Choose,
                Remove, Subtract, Entry, ClearAll, Clear, ClearShard, ClearCount, ClearGen,
                history
  <2>3. PICK t \in Threads : Remove(t)
    BY <2>1, <2>2
    DEF Next, Cleanup, LoadCount, LoadGen, CasWins, CasLoses, Collect, Choose, Subtract,
        Entry, ClearAll, Clear, ClearShard, ClearCount, ClearGen, shared, IInv,
        ClearingIsClear
  <2>4. QED
    BY <2>1, <2>2, <2>3, RemoveLeavesNewer DEF IInv
<1>2. QED
  BY <1>1, Invariance, PTL DEF Spec, NewestKept
=============================================================================
