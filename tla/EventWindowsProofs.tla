-------------------------- MODULE EventWindowsProofs --------------------------
(***************************************************************************)
(* Proofs about EventWindows, for any number of threads, kinds and records *)
(* and every length of a window: the windows add up, and no live rate      *)
(* counts events from before its window.                                   *)
(***************************************************************************)
EXTENDS EventWindows, FiniteSetTheorems, TLAPS

LEMMA BetweenIsNumber ==
  ASSUME NEW k \in Kinds
  PROVE  Between(k) \in Nat
<1>1. IsFiniteSet({t \in Threads : adding[t] = "window" /\ kind[t] = k})
  BY ThreadsAssumption, FS_Subset
<1>2. QED
  BY <1>1, FS_CardinalityType DEF Between

\* A thread that counts an event as processed is between the two counters.
LEMMA BetweenGrows ==
  ASSUME TypeOK, NEW t \in Threads, NEW k \in Kinds, adding[t] = "idle",
         adding' = [adding EXCEPT ![t] = "window"], kind' = [kind EXCEPT ![t] = k],
         NEW j \in Kinds
  PROVE  Between(j)' = IF j = k THEN Between(j) + 1 ELSE Between(j)
<1> DEFINE In == {u \in Threads : adding[u] = "window" /\ kind[u] = j}
<1>1. IsFiniteSet(In) /\ t \notin In
  BY ThreadsAssumption, FS_Subset
<1>2. {u \in Threads : adding'[u] = "window" /\ kind'[u] = j}
        = IF j = k THEN In \cup {t} ELSE In
  BY DEF TypeOK
<1>3. Cardinality(In \cup {t}) = Cardinality(In) + 1
  BY <1>1, FS_AddElement
<1>4. QED
  BY <1>2, <1>3 DEF Between

LEMMA BetweenShrinks ==
  ASSUME TypeOK, NEW t \in Threads, adding[t] = "window",
         adding' = [adding EXCEPT ![t] = "idle"], kind' = kind, NEW j \in Kinds
  PROVE  Between(j)' = IF j = kind[t] THEN Between(j) - 1 ELSE Between(j)
<1> DEFINE In == {u \in Threads : adding[u] = "window" /\ kind[u] = j}
<1>1. IsFiniteSet(In) /\ (j = kind[t] <=> t \in In)
  BY ThreadsAssumption, FS_Subset
<1>2. {u \in Threads : adding'[u] = "window" /\ kind'[u] = j} = In \ {t}
  BY DEF TypeOK
<1>3. t \in In => Cardinality(In \ {t}) = Cardinality(In) - 1
  BY <1>1, FS_RemoveElement
<1>4. t \notin In => In \ {t} = In
  OBVIOUS
<1>5. QED
  BY <1>1, <1>2, <1>3, <1>4 DEF Between

LEMMA BetweenStays ==
  ASSUME UNCHANGED recorders, NEW k \in Kinds
  PROVE  Between(k)' = Between(k)
BY DEF recorders, Between

-----------------------------------------------------------------------------
\* A step of the recording threads keeps the invariant.
LEMMA RecordStep ==
  ASSUME IInv, NEW t \in Threads, Record(t)
  PROVE  IInv'
<1> USE DEF IInv, TypeOK, history, CloserStates, ReaderStates
<1>0. \A k \in Kinds : Between(k) \in Nat
  BY BetweenIsNumber
<1>1. ASSUME NEW k \in Kinds, AddProcessed(t, k)
      PROVE  IInv'
  <2>1. TypeOK'
    BY <1>1 DEF AddProcessed
  <2>2. WindowsAddUp'
    <3>1. \A j \in Kinds : Between(j)' = IF j = k THEN Between(j) + 1 ELSE Between(j)
      BY <1>1, BetweenGrows DEF AddProcessed
    <3>2. \A j \in Kinds : processed'[j] = IF j = k THEN processed[j] + 1 ELSE processed[j]
      BY <1>1 DEF AddProcessed
    <3>3. closed' = closed /\ inWindow' = inWindow /\ late' = late
      BY <1>1 DEF AddProcessed
    <3>4. QED
      BY <1>0, <3>1, <3>2, <3>3 DEF WindowsAddUp
  <2>3. LoadedIsThere' /\ StartsInOrder'
    BY <1>1 DEF AddProcessed, LoadedIsThere, StartsInOrder
  <2>4. QED
    BY <2>1, <2>2, <2>3
<1>2. ASSUME AddInWindow(t)
      PROVE  IInv'
  <2>1. TypeOK'
    BY <1>2 DEF AddInWindow, AddNoted
  <2>2. WindowsAddUp'
    <3>1. \A j \in Kinds :
            Between(j)' = IF j = kind[t] THEN Between(j) - 1 ELSE Between(j)
      BY <1>2, BetweenShrinks DEF AddInWindow
    <3>2. \A j \in Kinds :
            /\ inWindow'[j] = IF j = kind[t] THEN inWindow[j] + 1 ELSE inWindow[j]
            /\ late[j] => late'[j]
      BY <1>2 DEF AddInWindow, AddNoted
    <3>3. closed' = closed /\ processed' = processed
      BY <1>2 DEF AddInWindow
    <3>4. \A j \in Kinds : closed[j] \in Nat /\ inWindow[j] \in Nat /\ processed[j] \in Nat
      OBVIOUS
    <3>5. \A j \in Kinds :
            closed'[j] + inWindow'[j] + Between(j)' = closed[j] + inWindow[j] + Between(j)
      BY <1>0, <3>1, <3>2, <3>3, <3>4
    <3>6. QED
      BY <3>2, <3>3, <3>5 DEF WindowsAddUp
  <2>3. LoadedIsThere'
    <3>1. closer' = closer /\ closer.kind \in Kinds /\ closer.count \in Nat
      BY <1>2 DEF AddInWindow
    <3>2. /\ inWindow[closer.kind] \in Nat
          /\ inWindow'[closer.kind] =
               IF closer.kind = kind[t] THEN inWindow[closer.kind] + 1
                                        ELSE inWindow[closer.kind]
      BY <1>2, <3>1 DEF AddInWindow
    <3>3. /\ late[closer.kind] => late'[closer.kind]
          /\ closer.kind = kind[t] /\ Closing(closer.kind) => late'[closer.kind]
      BY <1>2, <3>1 DEF AddInWindow, AddNoted
    <3>4. CASE closer.kind = kind[t]
      BY <3>1, <3>2, <3>3, <3>4 DEF LoadedIsThere, Closing
    <3>5. CASE closer.kind # kind[t]
      BY <3>1, <3>2, <3>3, <3>5 DEF LoadedIsThere
    <3>6. QED
      BY <3>4, <3>5
  <2>4. StartsInOrder'
    BY <1>2, BoundsAssumption DEF AddInWindow, AddNoted, StartsInOrder, Times
  <2>5. QED
    BY <2>1, <2>2, <2>3, <2>4
<1>3. QED
  BY <1>1, <1>2 DEF Record

\* So does a step of the background task.
LEMMA CloseStep ==
  ASSUME IInv, Close
  PROVE  IInv'
<1> USE BoundsAssumption DEF IInv, TypeOK, history, counters, CloserStates, ReaderStates, Times
<1>0. \A k \in Kinds : Between(k)' = Between(k) /\ Between(k) \in Nat
  <2>1. UNCHANGED recorders
    BY DEF Close, CloserLooks, CloserLoadsStart, CloserLoadsCount, CloserStoresRate,
           CloserStoresZero, CloserStoresStart
  <2>2. QED
    BY <2>1, BetweenStays, BetweenIsNumber
<1> USE DEF recorders
<1>1. ASSUME NEW k \in Kinds, CloserLooks(k)
      PROVE  IInv'
  <2>1. TypeOK'
    BY <1>1 DEF CloserLooks
  <2>2. WindowsAddUp'
    BY <1>0, <1>1 DEF CloserLooks, WindowsAddUp
  <2>3. LoadedIsThere' /\ StartsInOrder'
    BY <1>1 DEF CloserLooks, LoadedIsThere, StartsInOrder
  <2>4. QED
    BY <2>1, <2>2, <2>3
<1>2. CASE CloserLoadsStart
  <2>1. TypeOK'
    <3>1. closer' \in CloserStates
      BY <1>2 DEF CloserLoadsStart, CloserRests
    <3>2. QED
      BY <1>2, <3>1 DEF CloserLoadsStart
  <2>2. WindowsAddUp'
    BY <1>0, <1>2 DEF CloserLoadsStart, WindowsAddUp
  <2>3. LoadedIsThere' /\ StartsInOrder'
    BY <1>2 DEF CloserLoadsStart, CloserRests, LoadedIsThere, StartsInOrder
  <2>4. QED
    BY <2>1, <2>2, <2>3
<1>3. CASE CloserLoadsCount
  <2>1. TypeOK'
    BY <1>3 DEF CloserLoadsCount
  <2>2. WindowsAddUp'
    BY <1>0, <1>3 DEF CloserLoadsCount, WindowsAddUp
  <2>3. LoadedIsThere' /\ StartsInOrder'
    BY <1>3 DEF CloserLoadsCount, LoadedIsThere, StartsInOrder
  <2>4. QED
    BY <2>1, <2>2, <2>3
<1>4. CASE CloserStoresRate
  <2>1. TypeOK'
    BY <1>4 DEF CloserStoresRate
  <2>2. WindowsAddUp'
    BY <1>0, <1>4 DEF CloserStoresRate, WindowsAddUp
  <2>3. LoadedIsThere' /\ StartsInOrder'
    BY <1>4 DEF CloserStoresRate, LoadedIsThere, StartsInOrder
  <2>4. QED
    BY <2>1, <2>2, <2>3
<1>5. CASE CloserStoresZero
  <2>1. TypeOK'
    BY <1>5 DEF CloserStoresZero
  <2>2. WindowsAddUp'
    BY <1>0, <1>5 DEF CloserStoresZero, WindowsAddUp, LoadedIsThere
  <2>3. LoadedIsThere' /\ StartsInOrder'
    BY <1>5 DEF CloserStoresZero, LoadedIsThere, StartsInOrder
  <2>4. QED
    BY <2>1, <2>2, <2>3
<1>6. CASE CloserStoresStart
  <2>1. TypeOK'
    <3>1. closer' \in CloserStates
      BY <1>6 DEF CloserStoresStart, CloserRests
    <3>2. start' \in [Kinds -> Times]
      BY <1>6 DEF CloserStoresStart
    <3>3. QED
      BY <1>6, <3>1, <3>2 DEF CloserStoresStart
  <2>2. WindowsAddUp'
    BY <1>0, <1>6 DEF CloserStoresStart, WindowsAddUp
  <2>3. LoadedIsThere' /\ StartsInOrder'
    BY <1>6 DEF CloserStoresStart, CloserRests, LoadedIsThere, StartsInOrder
  <2>4. QED
    BY <2>1, <2>2, <2>3
<1>7. QED
  BY <1>1, <1>2, <1>3, <1>4, <1>5, <1>6 DEF Close

\* A reader changes nothing but its own locals.
LEMMA ReadStep ==
  ASSUME IInv, Read
  PROVE  IInv'
<1> USE BoundsAssumption DEF IInv, history, counters, recorders, ReaderStates, Times
<1>1. UNCHANGED <<clock, counters, recorders, closer, history>>
  BY DEF Read, ReaderLooks, ReaderLoadsCount
<1>2. reader' \in ReaderStates /\ (reader'.step = "count" => reader'.start <= start[reader'.kind])
  <2>1. ASSUME NEW k \in Kinds, ReaderLooks(k)
        PROVE  reader' \in ReaderStates /\ reader'.start <= start[reader'.kind]
    BY <2>1 DEF ReaderLooks, TypeOK
  <2>2. CASE ReaderLoadsCount
    BY <2>2 DEF ReaderLoadsCount, TypeOK
  <2>3. QED
    BY <2>1, <2>2 DEF Read
<1>3. WindowsAddUp' /\ LoadedIsThere'
  BY <1>1 DEF WindowsAddUp, LoadedIsThere, Between
<1>4. TypeOK'
  BY <1>1, <1>2 DEF TypeOK
<1>5. StartsInOrder'
  BY <1>1, <1>2 DEF StartsInOrder
<1>6. QED
  BY <1>3, <1>4, <1>5

-----------------------------------------------------------------------------
\* The inductive invariant: types, sums, and the order of starts and events.
THEOREM Invariant == Spec => []IInv
<1>1. Init => IInv
  <2> SUFFICES ASSUME Init PROVE IInv
    OBVIOUS
  <2>1. TypeOK
    BY BoundsAssumption DEF Init, TypeOK, CloserStates, ReaderStates, Times
  <2>2. WindowsAddUp
    <3>1. \A k \in Kinds : {t \in Threads : adding[t] = "window" /\ kind[t] = k} = {}
      BY DEF Init
    <3>2. \A k \in Kinds : Between(k) = 0
      BY <3>1, FS_EmptySet DEF Between
    <3>3. QED
      BY <3>2 DEF Init, WindowsAddUp
  <2>3. LoadedIsThere /\ StartsInOrder
    BY DEF Init, LoadedIsThere, StartsInOrder
  <2>4. QED
    BY <2>1, <2>2, <2>3 DEF IInv
<1>2. IInv /\ [Next]_vars => IInv'
  <2> SUFFICES ASSUME IInv, [Next]_vars PROVE IInv'
    OBVIOUS
  <2>1. CASE UNCHANGED vars
    BY <2>1 DEF vars, counters, recorders, history, IInv, TypeOK, WindowsAddUp,
                LoadedIsThere, StartsInOrder, Between
  <2>2. CASE TimePasses /\ UNCHANGED <<counters, recorders, closer, reader, history>>
    <3>1. TypeOK' /\ StartsInOrder'
      BY <2>2, BoundsAssumption
         DEF TimePasses, counters, recorders, history, IInv, TypeOK, StartsInOrder, Times,
             CloserStates
    <3>2. WindowsAddUp' /\ LoadedIsThere'
      BY <2>2 DEF counters, recorders, history, IInv, WindowsAddUp, LoadedIsThere, Between
    <3>3. QED
      BY <3>1, <3>2 DEF IInv
  <2>3. QED
    BY <2>1, <2>2, RecordStep, CloseStep, ReadStep DEF Next
<1>3. QED
  BY <1>1, <1>2, PTL DEF Spec

\* No event is counted in two windows, and one that is in none was recorded while
\* its window was being closed.
THEOREM WindowsAlwaysAddUp == Spec => []WindowsAddUp
<1>1. IInv => WindowsAddUp
  BY DEF IInv
<1>2. QED
  BY <1>1, Invariant, PTL

\* The count that a reader divides by the age of a window is of that window.
THEOREM LiveRateHonest == Spec => []LiveRateNotOverstated
<1>1. ASSUME IInv
      PROVE  LiveRateNotOverstated
  <2> SUFFICES ASSUME reader.step = "count", inWindow[reader.kind] > 0
               PROVE  reader.start <= oldest[reader.kind]
    BY DEF LiveRateNotOverstated
  <2>1. /\ reader.kind \in Kinds /\ reader.start \in Nat
        /\ start[reader.kind] \in Nat /\ oldest[reader.kind] \in Nat
    BY <1>1, BoundsAssumption DEF IInv, TypeOK, ReaderStates, Times
  <2>2. reader.start <= start[reader.kind] /\ start[reader.kind] <= oldest[reader.kind]
    BY <1>1, <2>1 DEF IInv, StartsInOrder
  <2>3. QED
    BY <2>1, <2>2
<1>2. QED
  BY <1>1, Invariant, PTL
=============================================================================
