------------------------ MODULE ProcessingTimesProofs ------------------------
(***************************************************************************)
(* Proofs about ProcessingTimes, for any number of threads and records and *)
(* all times: the extreme values are those of the times recorded since a   *)
(* reset, and none is forgotten early while updates do not overlap.        *)
(***************************************************************************)
EXTENDS ProcessingTimes, FiniteSetTheorems, TLAPS

\* What an extreme value holds is a number.
LEMMA BitsAreNumbers ==
  /\ Bits \subseteq Nat /\ Infinity \in Bits /\ 0 \in Bits
  /\ \A d \in Durations : d \in Bits /\ d # Infinity
  /\ \A e \in Sides : Nothing(e) \in Bits
BY DurationsAssumption DEF Bits, Nothing, Sides

-----------------------------------------------------------------------------
\* Every step keeps the types.
LEMMA TypeStep ==
  ASSUME TimesTypeOK, [TimesNext]_timesVars
  PROVE  TimesTypeOK'
<1> USE BitsAreNumbers DEF TimesTypeOK, PcState, Updating, Goes, extremes, sums, updater, timesHistory
<1>1. CASE UNCHANGED timesVars
  BY <1>1 DEF timesVars
<1>2. CASE TimePasses /\ UNCHANGED <<extremes, sums, pc, updater, timesHistory>>
  BY <1>2, BoundsAssumption DEF TimePasses, Times
<1>3. ASSUME NEW t \in Threads, NEW d \in Durations, Begin(t, d)
      PROVE  TimesTypeOK'
  BY <1>3 DEF Begin, Sides
<1>4. ASSUME NEW t \in Threads, LoadBits(t)
      PROVE  TimesTypeOK'
  BY <1>4 DEF LoadBits
<1>5. ASSUME NEW t \in Threads, CheckStamp(t)
      PROVE  TimesTypeOK'
  BY <1>5 DEF CheckStamp
<1>6. ASSUME NEW t \in Threads, Reset(t)
      PROVE  TimesTypeOK'
  BY <1>6 DEF Reset, Others
<1>7. ASSUME NEW t \in Threads, Restamp(t)
      PROVE  TimesTypeOK'
  BY <1>7 DEF Restamp
<1>8. ASSUME NEW t \in Threads, Exchange(t)
      PROVE  TimesTypeOK'
  BY <1>8 DEF Exchange
<1>9. ASSUME NEW t \in Threads, ExchangeFails(t)
      PROVE  TimesTypeOK'
  BY <1>9 DEF ExchangeFails
<1>10. ASSUME NEW t \in Threads, NotBetter(t)
       PROVE  TimesTypeOK'
  BY <1>10 DEF NotBetter, Leaves, Sides
<1>11. ASSUME NEW t \in Threads, Stamp(t)
       PROVE  TimesTypeOK'
  BY <1>11 DEF Stamp, Leaves, Sides
<1>12. ASSUME NEW t \in Threads, AddTotal(t)
       PROVE  TimesTypeOK'
  <2>1. Micros(duration[t]) \in Nat
    BY DurationsAssumption DEF Micros
  <2>2. QED
    BY <1>12, <2>1 DEF AddTotal
<1>13. ASSUME NEW t \in Threads, AddEvents(t)
       PROVE  TimesTypeOK'
  BY <1>13, BoundsAssumption DEF AddEvents, Times, Sides
<1>14. QED
  BY <1>1, <1>2, <1>3, <1>4, <1>5, <1>6, <1>7, <1>8, <1>9, <1>10, <1>11, <1>12, <1>13
     DEF TimesNext, Update

\* And so is every other time that is compared.
LEMMA Numbers ==
  ASSUME TimesTypeOK
  PROVE  /\ \A e \in Sides : bits[e] \in Nat /\ \A d \in seen[e] : d \in Nat
         /\ \A t \in Threads : duration[t] \in Nat /\ current[t] \in Nat /\ side[t] \in Sides
<1>1. Durations \cup {0} \subseteq Nat
  BY DurationsAssumption
<1>2. \A e \in Sides : bits[e] \in Nat /\ \A d \in seen[e] : d \in Nat
  <2>1. \A e \in Sides : bits[e] \in Bits /\ seen[e] \subseteq Durations \cup {0}
    BY DEF TimesTypeOK
  <2>2. QED
    BY <1>1, <2>1, BitsAreNumbers
<1>3. \A t \in Threads : duration[t] \in Nat /\ current[t] \in Nat /\ side[t] \in Sides
  <2>1. \A t \in Threads :
          duration[t] \in Durations \cup {0} /\ current[t] \in Bits /\ side[t] \in Sides
    BY DEF TimesTypeOK
  <2>2. QED
    BY <1>1, <2>1, BitsAreNumbers
<1>4. QED
  BY <1>2, <1>3

-----------------------------------------------------------------------------
Covering == BitsCover /\ LoadedCovered /\ ShortestNotNegative

\* A step of one thread keeps what is covered.
LEMMA UpdateCovers ==
  ASSUME TimesTypeOK, Covering, NEW t \in Threads, Update(t)
  PROVE  Covering'
<1> USE BitsAreNumbers, Numbers DEF TimesTypeOK, Goes, extremes, sums, updater, timesHistory
<1> USE DEF Covering, Updating, Sides, Beats
<1>1. CASE LoadBits(t)
  <2>1. BitsCover'
    BY <1>1 DEF LoadBits, BitsCover, LoadedCovered
  <2>2. LoadedCovered'
    BY <1>1 DEF LoadBits, LoadedCovered
  <2>3. ShortestNotNegative'
    BY <1>1 DEF LoadBits, ShortestNotNegative
  <2>4. QED
    BY <2>1, <2>2, <2>3
<1>2. CASE CheckStamp(t)
  <2>1. BitsCover'
    BY <1>2 DEF CheckStamp, BitsCover, LoadedCovered
  <2>2. LoadedCovered'
    BY <1>2 DEF CheckStamp, LoadedCovered
  <2>3. ShortestNotNegative'
    BY <1>2 DEF CheckStamp, ShortestNotNegative
  <2>4. QED
    BY <2>1, <2>2, <2>3
<1>3. CASE Reset(t)
  <2>1. BitsCover'
    BY <1>3 DEF Reset, Nothing, Others, BitsCover, LoadedCovered
  <2>2. LoadedCovered'
    <3> SUFFICES ASSUME NEW u \in Threads,
                        pc'[u] \in {"check", "restamp", "exchange"}, ~overtaken'[u]
                 PROVE  ~Beats(side'[u], current'[u], bits'[side'[u]])
      BY DEF LoadedCovered
    <3>1. CASE u = t
      <4>1. current'[u] = Nothing(side[u]) /\ bits'[side[u]] = Nothing(side[u]) /\ side' = side
        BY <1>3, <3>1 DEF Reset
      <4>2. Nothing(side[u]) \in Nat
        OBVIOUS
      <4>3. QED
        BY <4>1, <4>2
    <3>2. CASE u # t /\ side[u] # side[t]
      <4>1. pc[u] \in {"check", "restamp", "exchange"} /\ ~overtaken[u]
        BY <1>3, <3>2 DEF Reset
      <4>2. side' = side /\ current'[u] = current[u] /\ bits'[side[u]] = bits[side[u]]
        BY <1>3, <3>2 DEF Reset
      <4>3. ~Beats(side[u], current[u], bits[side[u]])
        BY <4>1 DEF LoadedCovered
      <4>4. QED
        BY <4>2, <4>3
    <3>3. CASE u # t /\ side[u] = side[t]
      BY <1>3, <3>3 DEF Reset, Others
    <3>4. QED
      BY <3>1, <3>2, <3>3
  <2>3. ShortestNotNegative'
    BY <1>3 DEF Reset, Nothing, Others, ShortestNotNegative
  <2>4. QED
    BY <2>1, <2>2, <2>3
<1>4. CASE Restamp(t)
  <2>1. BitsCover'
    BY <1>4 DEF Restamp, BitsCover, LoadedCovered
  <2>2. LoadedCovered'
    BY <1>4 DEF Restamp, LoadedCovered
  <2>3. ShortestNotNegative'
    BY <1>4 DEF Restamp, ShortestNotNegative
  <2>4. QED
    BY <2>1, <2>2, <2>3
<1>5. CASE Exchange(t)
  <2>1. BitsCover'
    BY <1>5 DEF Exchange, BitsCover, LoadedCovered
  <2>2. LoadedCovered'
    BY <1>5 DEF Exchange, LoadedCovered
  <2>3. ShortestNotNegative'
    BY <1>5 DEF Exchange, ShortestNotNegative
  <2>4. QED
    BY <2>1, <2>2, <2>3
<1>6. CASE ExchangeFails(t)
  <2>1. BitsCover'
    BY <1>6 DEF ExchangeFails, BitsCover, LoadedCovered
  <2>2. LoadedCovered'
    BY <1>6 DEF ExchangeFails, LoadedCovered
  <2>3. ShortestNotNegative'
    BY <1>6 DEF ExchangeFails, ShortestNotNegative
  <2>4. QED
    BY <2>1, <2>2, <2>3
<1>7. CASE NotBetter(t)
  <2>1. BitsCover'
    BY <1>7 DEF NotBetter, Leaves, BitsCover, LoadedCovered
  <2>2. LoadedCovered'
    BY <1>7 DEF NotBetter, Leaves, LoadedCovered
  <2>3. ShortestNotNegative'
    BY <1>7 DEF NotBetter, Leaves, ShortestNotNegative
  <2>4. QED
    BY <2>1, <2>2, <2>3
<1>8. CASE Stamp(t)
  <2>1. BitsCover'
    BY <1>8 DEF Stamp, Leaves, BitsCover, LoadedCovered
  <2>2. LoadedCovered'
    BY <1>8 DEF Stamp, Leaves, LoadedCovered
  <2>3. ShortestNotNegative'
    BY <1>8 DEF Stamp, Leaves, ShortestNotNegative
  <2>4. QED
    BY <2>1, <2>2, <2>3
<1>9. CASE AddTotal(t)
  <2>1. BitsCover'
    BY <1>9 DEF AddTotal, BitsCover, LoadedCovered
  <2>2. LoadedCovered'
    BY <1>9 DEF AddTotal, LoadedCovered
  <2>3. ShortestNotNegative'
    BY <1>9 DEF AddTotal, ShortestNotNegative
  <2>4. QED
    BY <2>1, <2>2, <2>3
<1>10. CASE AddEvents(t)
  <2>1. BitsCover'
    BY <1>10 DEF AddEvents, BitsCover, LoadedCovered
  <2>2. LoadedCovered'
    BY <1>10 DEF AddEvents, LoadedCovered
  <2>3. ShortestNotNegative'
    BY <1>10 DEF AddEvents, ShortestNotNegative
  <2>4. QED
    BY <2>1, <2>2, <2>3
<1>11. QED
  BY <1>1, <1>2, <1>3, <1>4, <1>5, <1>6, <1>7, <1>8, <1>9, <1>10 DEF Update

LEMMA CoveringStep ==
  ASSUME TimesTypeOK, Covering, [TimesNext]_timesVars
  PROVE  Covering'
<1>1. CASE UNCHANGED timesVars
  BY <1>1 DEF timesVars, extremes, updater, timesHistory, Covering, BitsCover, LoadedCovered,
              ShortestNotNegative
<1>2. CASE TimePasses /\ UNCHANGED <<extremes, sums, pc, updater, timesHistory>>
  BY <1>2 DEF extremes, updater, timesHistory, Covering, BitsCover, LoadedCovered,
              ShortestNotNegative
<1>3. ASSUME NEW t \in Threads, NEW d \in Durations, Begin(t, d)
      PROVE  Covering'
  BY <1>3 DEF Begin, Goes, extremes, updater, timesHistory, Updating, TimesTypeOK, Covering,
              BitsCover, LoadedCovered, ShortestNotNegative
<1>4. QED
  BY <1>1, <1>2, <1>3, UpdateCovers DEF TimesNext

-----------------------------------------------------------------------------
Fresh == Alone /\ StampFollows /\ ResetIsDue /\ NowIsPast

\* A step of one thread keeps what is known of the time stamps.
LEMMA UpdateFresh ==
  ASSUME TimesTypeOK, Fresh, NEW t \in Threads, Update(t)
  PROVE  Fresh'
<1> USE DEF TimesTypeOK, Goes, extremes, sums, updater, timesHistory
<1> USE DEF Fresh, Updating, Sides
<1>0. /\ \A e \in Sides : stamp[e] \in Nat /\ last[e] \in Nat
      /\ \A u \in Threads : now[u] \in Nat
  BY BoundsAssumption DEF Times
<1>1. CASE LoadBits(t)
  <2>1. Alone'
    BY <1>1 DEF LoadBits, Others, Alone
  <2>2. StampFollows'
    BY <1>1, <1>0 DEF LoadBits, Others, StampFollows, Alone
  <2>3. ResetIsDue'
    BY <1>1, <1>0 DEF LoadBits, Others, ResetIsDue, StampFollows, Alone, Since
  <2>4. NowIsPast'
    BY <1>1, <1>0, BoundsAssumption DEF LoadBits, Others, NowIsPast, Times
  <2>5. QED
    BY <2>1, <2>2, <2>3, <2>4
<1>2. CASE CheckStamp(t)
  <2>1. Alone'
    BY <1>2 DEF CheckStamp, Alone
  <2>2. StampFollows'
    BY <1>2, <1>0 DEF CheckStamp, StampFollows, Alone
  <2>3. ResetIsDue'
    <3>1. ASSUME ~crossed[side[t]], Since(now[t], stamp[side[t]]) > Stale, pc[t] = "check"
          PROVE  Since(now[t], last[side[t]]) > Stale
      <4>1. ~ \E u \in Threads : side[u] = side[t] /\ pc[u] = "stamp"
        BY <3>1 DEF Alone
      <4>2. last[side[t]] <= stamp[side[t]]
        BY <3>1, <4>1 DEF StampFollows
      <4>3. QED
        BY <1>0, <3>1, <4>2, StaleAssumption DEF Since
    <3>2. QED
      BY <1>2, <3>1 DEF CheckStamp, ResetIsDue
  <2>4. NowIsPast'
    BY <1>2, <1>0, BoundsAssumption DEF CheckStamp, NowIsPast, Times
  <2>5. QED
    BY <2>1, <2>2, <2>3, <2>4
<1>3. CASE Reset(t)
  <2>1. Alone'
    BY <1>3 DEF Reset, Alone
  <2>2. StampFollows'
    BY <1>3, <1>0 DEF Reset, StampFollows, Alone
  <2>3. ResetIsDue'
    BY <1>3, <1>0 DEF Reset, ResetIsDue, StampFollows, Alone, Since
  <2>4. NowIsPast'
    BY <1>3, <1>0, BoundsAssumption DEF Reset, NowIsPast, Times
  <2>5. QED
    BY <2>1, <2>2, <2>3, <2>4
<1>4. CASE Restamp(t)
  <2>1. Alone'
    BY <1>4 DEF Restamp, Alone
  <2>2. StampFollows'
    <3>1. ~crossed[side[t]] => last[side[t]] <= now[t]
      BY <1>4, <1>0, StaleAssumption DEF Restamp, ResetIsDue, Since
    <3>2. QED
      BY <1>4, <1>0, <3>1 DEF Restamp, StampFollows, Alone
  <2>3. ResetIsDue'
    BY <1>4, <1>0 DEF Restamp, ResetIsDue, StampFollows, Alone, Since
  <2>4. NowIsPast'
    BY <1>4, <1>0, BoundsAssumption DEF Restamp, NowIsPast, Times
  <2>5. QED
    BY <2>1, <2>2, <2>3, <2>4
<1>5. CASE Exchange(t)
  <2>1. Alone'
    BY <1>5 DEF Exchange, Alone
  <2>2. StampFollows'
    BY <1>5, <1>0 DEF Exchange, StampFollows, Alone
  <2>3. ResetIsDue'
    BY <1>5, <1>0 DEF Exchange, ResetIsDue, StampFollows, Alone, Since
  <2>4. NowIsPast'
    BY <1>5, <1>0, BoundsAssumption DEF Exchange, NowIsPast, Times
  <2>5. QED
    BY <2>1, <2>2, <2>3, <2>4
<1>6. CASE ExchangeFails(t)
  <2>1. Alone'
    BY <1>6 DEF ExchangeFails, Alone
  <2>2. StampFollows'
    BY <1>6, <1>0 DEF ExchangeFails, StampFollows, Alone
  <2>3. ResetIsDue'
    BY <1>6, <1>0 DEF ExchangeFails, ResetIsDue, StampFollows, Alone, Since
  <2>4. NowIsPast'
    BY <1>6, <1>0, BoundsAssumption DEF ExchangeFails, NowIsPast, Times
  <2>5. QED
    BY <2>1, <2>2, <2>3, <2>4
<1>7. CASE NotBetter(t)
  <2>1. Alone'
    BY <1>7 DEF NotBetter, Leaves, Alone
  <2>2. StampFollows'
    BY <1>7, <1>0 DEF NotBetter, Leaves, StampFollows, Alone
  <2>3. ResetIsDue'
    BY <1>7, <1>0 DEF NotBetter, Leaves, ResetIsDue, StampFollows, Alone, Since
  <2>4. NowIsPast'
    BY <1>7, <1>0, BoundsAssumption DEF NotBetter, Leaves, NowIsPast, Times
  <2>5. QED
    BY <2>1, <2>2, <2>3, <2>4
<1>8. CASE Stamp(t)
  <2>1. Alone'
    BY <1>8 DEF Stamp, Leaves, Alone
  <2>2. StampFollows'
    BY <1>8, <1>0 DEF Stamp, Leaves, StampFollows, Alone
  <2>3. ResetIsDue'
    BY <1>8, <1>0 DEF Stamp, Leaves, ResetIsDue, StampFollows, Alone, Since
  <2>4. NowIsPast'
    BY <1>8, <1>0, BoundsAssumption DEF Stamp, Leaves, NowIsPast, Times
  <2>5. QED
    BY <2>1, <2>2, <2>3, <2>4
<1>9. CASE AddTotal(t)
  <2>1. Alone'
    BY <1>9 DEF AddTotal, Alone
  <2>2. StampFollows'
    BY <1>9, <1>0 DEF AddTotal, StampFollows, Alone
  <2>3. ResetIsDue'
    BY <1>9, <1>0 DEF AddTotal, ResetIsDue, StampFollows, Alone, Since
  <2>4. NowIsPast'
    BY <1>9, <1>0, BoundsAssumption DEF AddTotal, NowIsPast, Times
  <2>5. QED
    BY <2>1, <2>2, <2>3, <2>4
<1>10. CASE AddEvents(t)
  <2>1. Alone'
    BY <1>10 DEF AddEvents, Alone
  <2>2. StampFollows'
    BY <1>10, <1>0 DEF AddEvents, StampFollows, Alone
  <2>3. ResetIsDue'
    BY <1>10, <1>0 DEF AddEvents, ResetIsDue, StampFollows, Alone, Since
  <2>4. NowIsPast'
    BY <1>10, <1>0, BoundsAssumption DEF AddEvents, NowIsPast, Times
  <2>5. QED
    BY <2>1, <2>2, <2>3, <2>4
<1>11. QED
  BY <1>1, <1>2, <1>3, <1>4, <1>5, <1>6, <1>7, <1>8, <1>9, <1>10 DEF Update

LEMMA FreshStep ==
  ASSUME TimesTypeOK, Fresh, [TimesNext]_timesVars
  PROVE  Fresh'
<1> USE DEF Fresh, Alone, StampFollows, ResetIsDue, NowIsPast, extremes, updater, timesHistory
<1>1. CASE UNCHANGED timesVars
  BY <1>1 DEF timesVars
<1>2. CASE TimePasses /\ UNCHANGED <<extremes, sums, pc, updater, timesHistory>>
  BY <1>2, BoundsAssumption DEF TimePasses, TimesTypeOK, Times
<1>3. ASSUME NEW t \in Threads, NEW d \in Durations, Begin(t, d)
      PROVE  Fresh'
  BY <1>3, BoundsAssumption DEF Begin, Goes, Updating, TimesTypeOK, Times
<1>4. QED
  BY <1>1, <1>2, <1>3, UpdateFresh DEF TimesNext

-----------------------------------------------------------------------------
\* The inductive invariant: types, what is covered, what is known of the stamps.
THEOREM Invariant == TimesSpec => []TimesInv
<1>1. TimesInit => TimesInv
  <2> SUFFICES ASSUME TimesInit PROVE TimesInv
    OBVIOUS
  <2>1. TimesTypeOK
    <3>1. 0 \in Times /\ "min" \in Sides /\ "idle" \in PcState
      BY BoundsAssumption DEF Times, Sides, PcState
    <3>2. bits \in [Sides -> Bits] /\ current \in [Threads -> Bits]
      BY BitsAreNumbers DEF TimesInit
    <3>3. QED
      BY <3>1, <3>2 DEF TimesInit, TimesTypeOK
  <2>2. Covering
    BY <2>1, BitsAreNumbers, DurationsAssumption
       DEF TimesInit, Covering, BitsCover, LoadedCovered, ShortestNotNegative, Nothing,
           Sides, Updating
  <2>3. Fresh
    BY DEF TimesInit, Fresh, Alone, StampFollows, ResetIsDue, NowIsPast, Sides, Updating
  <2>4. QED
    BY <2>1, <2>2, <2>3 DEF TimesInv, Covering, Fresh
<1>2. TimesInv /\ [TimesNext]_timesVars => TimesInv'
  BY TypeStep, CoveringStep, FreshStep DEF TimesInv, Covering, Fresh
<1>3. QED
  BY <1>1, <1>2, PTL DEF TimesSpec

\* What bits stand for.
LEMMA Values ==
  ASSUME NEW d \in Nat
  PROVE  /\ Value(d) \in Int
         /\ d <= Infinity => Value(d) = d /\ Value(d) >= 0
         /\ d > Infinity => ~(Value(d) >= 0)
BY DurationsAssumption DEF Value

\* No time that is not negative is lost to a race between threads, however their updates
\* interleave, and an extreme value is one of the times: the least of them, the greatest
\* of them; and a negative time shows as the maximum, never as the minimum.
THEOREM ExtremesAreExact == TimesSpec => []ExtremesExact
<1>1. ASSUME TimesInv PROVE ExtremesExact
  <2> DEFINE Counting(e) == {d \in seen[e] : Value(d) >= 0}
             low == bits["min"]
             high == bits["max"]
  <2>1. /\ low \in Nat /\ high \in Nat /\ Infinity \in Nat \ {0}
        /\ \A e \in Sides : \A d \in seen[e] : d \in Nat /\ d # Infinity
    <3>1. TimesTypeOK
      BY <1>1 DEF TimesInv
    <3>2. \A e \in Sides : seen[e] \subseteq Durations \cup {0}
      BY <3>1 DEF TimesTypeOK
    <3>3. QED
      BY <3>1, <3>2, Numbers, DurationsAssumption DEF Sides
  <2>2. /\ \A d \in seen["min"] : low <= d
        /\ low \in seen["min"] \cup {Infinity}
        /\ \A d \in seen["max"] : d <= high
        /\ high \in seen["max"] \cup {0}
    <3>1. BitsCover
      BY <1>1 DEF TimesInv
    <3>2. /\ \A d \in seen["min"] : ~(d < low)
          /\ low \in seen["min"] \cup {Infinity}
          /\ \A d \in seen["max"] : ~(d > high)
          /\ high \in seen["max"] \cup {0}
      BY <3>1 DEF BitsCover, Beats, Nothing, Sides
    <3>3. /\ \A d \in seen["min"] : d \in Nat
          /\ \A d \in seen["max"] : d \in Nat
      BY <2>1 DEF Sides
    <3> HIDE DEF low, high
    <3>4. QED
      BY <2>1, <3>2, <3>3
  <2>3. low <= Infinity
    BY <1>1 DEF TimesInv, ShortestNotNegative
  <2>4. /\ \A d \in seen["min"] : d \in Nat /\ d # Infinity
        /\ \A d \in seen["max"] : d \in Nat /\ d # Infinity
    BY <2>1 DEF Sides
  <2>5. /\ \A d \in Counting("min") : d \in seen["min"] /\ d < Infinity /\ Value(d) = d
        /\ \A d \in Counting("max") : d \in seen["max"] /\ d < Infinity /\ Value(d) = d
    BY <2>1, <2>4, Values
  <2>6. \A d \in seen["max"] \ Counting("max") : d > Infinity
    BY <2>1, <2>4, Values
  <2>7. Value(low) = low /\ Value(low) >= 0
    BY <2>1, <2>3, Values
  <2>8. low \in seen["min"] => low \in Counting("min")
    BY <2>7
  <2> HIDE DEF Counting, low, high
  <2>9. IF Counting("min") = {}
          THEN low = Infinity
          ELSE low \in Counting("min") /\ \A d \in Counting("min") : Value(low) <= Value(d)
    <3>1. CASE Counting("min") = {}
      BY <2>2, <2>8, <3>1
    <3>2. CASE Counting("min") # {}
      <4>1. \A d \in Counting("min") : low <= d /\ d < Infinity /\ d \in Nat /\ Value(d) = d
        BY <2>2, <2>4, <2>5
      <4>2. low # Infinity
        BY <2>1, <3>2, <4>1
      <4>3. QED
        BY <2>2, <2>7, <2>8, <3>2, <4>1, <4>2
    <3>3. QED
      BY <3>1, <3>2
  <2>10. CASE seen["max"] = {}
    BY <2>2, <2>9, <2>10 DEF ExtremesExact, Counting, low, high, Nothing
  <2>11. CASE seen["max"] # {} /\ Counting("max") = seen["max"]
    <3>1. high \in seen["max"]
      <4>1. PICK d \in seen["max"] : TRUE
        BY <2>11
      <4>2. high = 0 => d = 0
        BY <2>2, <2>4, <4>1
      <4>3. QED
        BY <2>2, <4>1, <4>2
    <3>2. \A d \in seen["max"] : Value(d) = d
      BY <2>5, <2>11
    <3>3. \A d \in seen["max"] : Value(d) <= Value(high)
      BY <2>2, <3>1, <3>2
    <3>4. QED
      BY <2>9, <2>11, <3>1, <3>3 DEF ExtremesExact, Counting, low, high, Nothing
  <2>12. CASE seen["max"] # {} /\ Counting("max") # seen["max"]
    <3>1. PICK d \in seen["max"] : d \notin Counting("max")
      BY <2>12 DEF Counting
    <3>2. d > Infinity /\ d <= high /\ d \in Nat
      BY <2>2, <2>4, <2>6, <3>1
    <3>3. high > Infinity /\ high # 0
      BY <2>1, <3>2
    <3>4. high \in seen["max"]
      BY <2>2, <3>3
    <3>5. high \notin Counting("max")
      BY <2>1, <2>5, <3>3
    <3>6. QED
      BY <2>9, <2>12, <3>4, <3>5 DEF ExtremesExact, Counting, low, high, Nothing
  <2>13. QED
    BY <2>10, <2>11, <2>12
<1>2. QED
  BY <1>1, Invariant, PTL

\* No extreme value is forgotten early unless updates of it have overlapped.
THEOREM FreshIsKept == TimesSpec => FreshKept
<1> DEFINE Due(e) ==
      bits[e] # Nothing(e) /\ bits'[e] = Nothing(e) =>
        crossed[e] \/ Since(clock, last[e]) > Stale
<1>1. ASSUME TimesInv, [TimesNext]_timesVars, NEW e \in Sides
      PROVE  Due(e)
  <2> USE <1>1 DEF TimesInv, TimesTypeOK, Goes, extremes, updater, timesHistory
  <2>1. CASE UNCHANGED timesVars
    BY <2>1 DEF timesVars
  <2>2. CASE TimePasses /\ UNCHANGED <<extremes, sums, pc, updater, timesHistory>>
    BY <2>2
  <2>3. ASSUME NEW t \in Threads, NEW d \in Durations, Begin(t, d)
        PROVE  Due(e)
    BY <2>3 DEF Begin
  <2>4. ASSUME NEW t \in Threads, Reset(t)
        PROVE  Due(e)
    <3>1. CASE e # side[t]
      BY <2>4, <3>1 DEF Reset
    <3>2. CASE e = side[t]
      <4>1. ~crossed[e] => Since(now[t], last[e]) > Stale
        BY <2>4, <3>2 DEF Reset, ResetIsDue
      <4>2. now[t] \in Nat /\ clock \in Nat /\ last[e] \in Nat /\ now[t] <= clock
        BY BoundsAssumption DEF Times, NowIsPast
      <4>3. QED
        BY <4>1, <4>2, StaleAssumption DEF Since
    <3>3. QED
      BY <3>1, <3>2
  <2>5. ASSUME NEW t \in Threads, Exchange(t)
        PROVE  Due(e)
    <3>1. CASE e # side[t]
      BY <2>5, <3>1 DEF Exchange
    <3>2. CASE e = side[t]
      <4>1. Beats(e, duration[t], bits[e]) /\ bits'[e] = duration[t]
        BY <2>5, <3>2 DEF Exchange
      <4>2. bits[e] \in Nat /\ duration[t] \in Nat /\ Infinity \in Nat
        BY Numbers, DurationsAssumption
      <4>3. e = "min" => bits[e] <= Infinity
        BY DEF ShortestNotNegative
      <4>4. bits'[e] # Nothing(e)
        BY <4>1, <4>2, <4>3 DEF Beats, Nothing
      <4>5. QED
        BY <4>4
    <3>3. QED
      BY <3>1, <3>2
  <2>6. ASSUME NEW t \in Threads, Update(t), bits' # bits
        PROVE  Reset(t) \/ Exchange(t)
    BY <2>6 DEF Update, LoadBits, CheckStamp, Restamp, ExchangeFails, NotBetter, Stamp,
                AddTotal, AddEvents
  <2>7. QED
    BY <2>1, <2>2, <2>3, <2>4, <2>5, <2>6 DEF TimesNext
<1>2. TimesInv /\ [TimesNext]_timesVars => [\A e \in Sides : Due(e)]_timesVars
  BY <1>1
<1>3. QED
  BY <1>2, Invariant, PTL DEF TimesSpec, FreshKept

-----------------------------------------------------------------------------
(* The average. *)

\* Threads that have added to total_time_us and not yet to total_events.
Uncounted == {t \in Threads : pc[t] = "events"}

\* How many times total is the sum of.
Summands == events + Cardinality(Uncounted)

\* Without a reset, a thread past its update of an extreme value is covered by it.
CoversPast ==
  \A t \in Threads :
    /\ ~overtaken[t]
    /\ \/ side[t] = "min" /\ pc[t] = "stamp"
       \/ side[t] = "max" /\ pc[t] # "idle"
       => bits["min"] <= duration[t]
    /\ \/ side[t] = "max" /\ pc[t] = "stamp"
       \/ pc[t] \in {"total", "events"}
       => side[t] = "max" /\ duration[t] <= bits["max"]

InRange ==
  bits["max"] < Infinity =>
    bits["min"] * Summands <= total /\ total <= bits["max"] * Summands

AverageInv == ~forgotten => CoversPast /\ InRange

LEMMA Multiples ==
  ASSUME NEW a \in Nat, NEW b \in Nat, NEW k \in Nat
  PROVE  /\ a * k \in Nat
         /\ a * (k + 1) = a * k + a
         /\ a <= b => a * k <= b * k
<1>1. a * k \in Nat /\ a * (k + 1) = a * k + a
  OBVIOUS
<1>2. ASSUME a <= b
      PROVE  a * k <= b * k
  <2>1. PICK c \in Nat : b = a + c
    <3>1. b - a \in Nat /\ b = a + (b - a)
      BY <1>2
    <3>2. QED
      BY <3>1
  <2>2. b * k = a * k + c * k
    BY <2>1
  <2>3. c * k \in Nat
    OBVIOUS
  <2>4. QED
    BY <1>1, <2>2, <2>3
<1>3. QED
  BY <1>1, <1>2

\* Lower and higher extreme values keep the sum in range.
LEMMA WiderRange ==
  ASSUME TimesTypeOK, InRange, bits' \in [Sides -> Bits], Summands \in Nat,
         Summands' = Summands, total' = total,
         bits'["min"] <= bits["min"], bits["max"] <= bits'["max"]
  PROVE  InRange'
<1>1. /\ bits["min"] \in Nat /\ bits["max"] \in Nat /\ bits'["min"] \in Nat
      /\ bits'["max"] \in Nat /\ total \in Nat /\ Infinity \in Nat
  BY BitsAreNumbers, DurationsAssumption DEF TimesTypeOK, Sides
<1>2. /\ bits'["min"] * Summands <= bits["min"] * Summands
      /\ bits["max"] * Summands <= bits'["max"] * Summands
      /\ bits'["min"] * Summands \in Nat /\ bits["min"] * Summands \in Nat
      /\ bits'["max"] * Summands \in Nat /\ bits["max"] * Summands \in Nat
  BY <1>1, Multiples
<1>3. bits'["max"] < Infinity => bits["max"] < Infinity
  BY <1>1
<1>4. ASSUME bits'["max"] < Infinity
      PROVE  bits'["min"] * Summands <= total /\ total <= bits'["max"] * Summands
  <2> DEFINE A == bits["min"] * Summands
             B == bits["max"] * Summands
             C == bits'["min"] * Summands
             D == bits'["max"] * Summands
  <2>1. A <= total /\ total <= B
    BY <1>3, <1>4 DEF InRange
  <2>2. C <= A /\ B <= D /\ A \in Nat /\ B \in Nat /\ C \in Nat /\ D \in Nat
    BY <1>2
  <2>3. C <= total /\ total <= D
    <3> HIDE DEF A, B, C, D
    <3>1. QED
      BY <1>1, <2>1, <2>2
  <2>4. QED
    BY <2>3
<1>5. QED
  BY <1>4 DEF InRange

\* The threads that are between the two sums.
LEMMA SummandsType ==
  ASSUME TimesTypeOK
  PROVE  IsFiniteSet(Uncounted) /\ Cardinality(Uncounted) \in Nat /\ Summands \in Nat
<1>1. IsFiniteSet(Uncounted)
  BY ThreadsAssumption, FS_Subset DEF Uncounted
<1>2. Cardinality(Uncounted) \in Nat
  BY <1>1, FS_CardinalityType
<1>3. QED
  BY <1>1, <1>2 DEF Summands, TimesTypeOK

\* A step elsewhere sums nothing.
LEMMA SameSummands ==
  ASSUME TimesTypeOK, NEW t \in Threads, NEW from, NEW to, Goes(t, from, to),
         from # "events", to # "events", events' = events
  PROVE  Summands' = Summands
<1>1. Uncounted' = Uncounted
  BY DEF Uncounted, Goes, TimesTypeOK
<1>2. QED
  BY <1>1 DEF Summands

\* What a thread compares its time with when it leaves an extreme value behind.
LEMMA LeavesCovered ==
  ASSUME TimesTypeOK, LoadedCovered, NEW t \in Threads, pc[t] = "exchange", ~overtaken[t],
         ~Beats(side[t], duration[t], current[t])
  PROVE  /\ side[t] = "min" => bits["min"] <= duration[t]
         /\ side[t] = "max" => duration[t] <= bits["max"]
<1>1. ~Beats(side[t], current[t], bits[side[t]])
  BY DEF LoadedCovered
<1>2. /\ duration[t] \in Nat /\ current[t] \in Nat /\ bits["min"] \in Nat /\ bits["max"] \in Nat
  BY Numbers DEF Sides
<1>3. QED
  BY <1>1, <1>2 DEF Beats

\* Threads past their updates stay covered.
LEMMA UpdateCoversPast ==
  ASSUME TimesTypeOK, Covering, CoversPast, NEW t \in Threads, Update(t), ~forgotten'
  PROVE  CoversPast'
<1> USE Numbers DEF TimesTypeOK, Goes, extremes, sums, updater, timesHistory, Sides
<1>0. /\ bits["min"] \in Nat /\ bits["max"] \in Nat
      /\ \A u \in Threads : duration[u] \in Nat /\ current[u] \in Nat
  OBVIOUS
<1>1. CASE LoadBits(t) \/ CheckStamp(t) \/ Restamp(t) \/ ExchangeFails(t)
  <2>1. CASE LoadBits(t)
    BY <2>1 DEF LoadBits, CoversPast
  <2>2. CASE CheckStamp(t)
    BY <2>2 DEF CheckStamp, CoversPast
  <2>3. CASE Restamp(t)
    BY <2>3 DEF Restamp, CoversPast
  <2>4. CASE ExchangeFails(t)
    BY <2>4 DEF ExchangeFails, CoversPast
  <2>5. QED
    BY <1>1, <2>1, <2>2, <2>3, <2>4
<1>2. CASE Reset(t)
  BY <1>2 DEF Reset
<1>3. CASE Exchange(t)
  <2>1. /\ side[t] = "min" => bits'["min"] <= bits["min"] /\ bits'["min"] = duration[t]
                              /\ bits'["max"] = bits["max"]
        /\ side[t] = "max" => bits["max"] <= bits'["max"] /\ bits'["max"] = duration[t]
                              /\ bits'["min"] = bits["min"]
        /\ side[t] \in {"min", "max"}
        /\ bits'["min"] \in Nat /\ bits'["max"] \in Nat
    BY <1>0, <1>3 DEF Exchange, Beats
  <2>2. UNCHANGED <<side, duration, overtaken>>
    BY <1>3 DEF Exchange
  <2>3. pc[t] = "exchange" /\ pc'[t] = "stamp" /\ \A u \in Threads \ {t} : pc'[u] = pc[u]
    BY <1>3 DEF Exchange
  <2>4. QED
    BY <1>0, <2>1, <2>2, <2>3 DEF CoversPast
<1>4. CASE NotBetter(t)
  <2>1. /\ side[t] = "min" => bits["min"] <= duration[t]
        /\ side[t] = "max" => duration[t] <= bits["max"]
    BY <1>4, LeavesCovered DEF NotBetter, Leaves, Covering, CoversPast
  <2>2. QED
    BY <1>4, <2>1 DEF NotBetter, Leaves, CoversPast
<1>5. CASE Stamp(t)
  BY <1>5 DEF Stamp, Leaves, CoversPast
<1>6. CASE AddTotal(t)
  BY <1>6 DEF AddTotal, CoversPast
<1>7. CASE AddEvents(t)
  BY <1>7 DEF AddEvents, CoversPast
<1>8. QED
  BY <1>1, <1>2, <1>3, <1>4, <1>5, <1>6, <1>7 DEF Update

\* And the sum in range.
LEMMA UpdateInRange ==
  ASSUME TimesTypeOK, TimesTypeOK', Covering, CoversPast, InRange, NEW t \in Threads, Update(t),
         ~forgotten'
  PROVE  InRange'
<1>0. Summands \in Nat
  BY SummandsType
<1>1. bits' \in [Sides -> Bits]
  BY DEF TimesTypeOK
<1>2. /\ bits["min"] \in Nat /\ bits["max"] \in Nat /\ duration[t] \in Nat
      /\ total \in Nat /\ Infinity \in Nat
  BY Numbers, DurationsAssumption DEF Sides, TimesTypeOK
<1>3. ASSUME bits' = bits, total' = total, Summands' = Summands
      PROVE  InRange'
  BY <1>3 DEF InRange
<1>4. CASE LoadBits(t) \/ CheckStamp(t) \/ Restamp(t) \/ NotBetter(t) \/ Stamp(t)
  <2>1. /\ bits' = bits /\ total' = total /\ events' = events
        /\ \E from, to : Goes(t, from, to) /\ from # "events" /\ to # "events"
    <3>1. CASE LoadBits(t)
      BY <3>1 DEF LoadBits, extremes, sums
    <3>2. CASE CheckStamp(t)
      BY <3>2 DEF CheckStamp, extremes, sums
    <3>3. CASE Restamp(t)
      BY <3>3 DEF Restamp, sums
    <3>4. CASE NotBetter(t)
      BY <3>4 DEF NotBetter, Leaves, extremes, sums
    <3>5. CASE Stamp(t)
      BY <3>5 DEF Stamp, Leaves, sums
    <3>6. QED
      BY <1>4, <3>1, <3>2, <3>3, <3>4, <3>5
  <2>2. Summands' = Summands
    BY <2>1, SameSummands
  <2>3. QED
    BY <1>3, <2>1, <2>2
<1>5. CASE ExchangeFails(t)
  BY <1>3, <1>5 DEF ExchangeFails, extremes, sums, Summands, Uncounted
<1>6. CASE Reset(t)
  BY <1>6 DEF Reset
<1>7. CASE Exchange(t)
  <2>1. Summands' = Summands /\ total' = total
    BY <1>7, SameSummands DEF Exchange, sums
  <2>2. bits'["min"] <= bits["min"] /\ bits["max"] <= bits'["max"]
    BY <1>2, <1>7 DEF Exchange, Beats, Sides, TimesTypeOK
  <2>3. QED
    BY <1>0, <1>1, <2>1, <2>2, WiderRange
<1>8. CASE AddTotal(t)
  <2>1. /\ bits' = bits /\ total' = total + Micros(duration[t]) /\ events' = events
        /\ pc[t] = "total" /\ pc' = [pc EXCEPT ![t] = "events"]
    BY <1>8 DEF AddTotal, Goes, extremes
  <2>2. Uncounted' = Uncounted \cup {t} /\ t \notin Uncounted
    BY <2>1 DEF Uncounted, TimesTypeOK
  <2>3. Summands' = Summands + 1
    <3>1. IsFiniteSet(Uncounted) /\ Cardinality(Uncounted) \in Nat
      BY SummandsType
    <3>2. Cardinality(Uncounted') = Cardinality(Uncounted) + 1
      BY <2>2, <3>1, FS_AddElement
    <3>3. events \in Nat
      BY DEF TimesTypeOK
    <3>4. QED
      BY <2>1, <3>1, <3>2, <3>3 DEF Summands
  <2>4. bits["min"] <= duration[t] /\ duration[t] <= bits["max"]
    BY <2>1 DEF CoversPast
  <2>5. ASSUME bits["max"] < Infinity
        PROVE  bits'["min"] * Summands' <= total' /\ total' <= bits'["max"] * Summands'
    <3> DEFINE A == bits["min"] * Summands
               B == bits["max"] * Summands
    <3>1. Micros(duration[t]) = duration[t]
      BY <1>2, <2>4, <2>5 DEF Micros
    <3>2. A <= total /\ total <= B
      BY <2>5 DEF InRange
    <3>3. /\ A \in Nat /\ B \in Nat
          /\ bits["min"] * (Summands + 1) = A + bits["min"]
          /\ bits["max"] * (Summands + 1) = B + bits["max"]
      BY <1>0, <1>2, Multiples
    <3>4. A + bits["min"] <= total + duration[t] /\ total + duration[t] <= B + bits["max"]
      <4> HIDE DEF A, B
      <4>1. QED
        BY <1>2, <2>4, <3>2, <3>3
    <3>5. QED
      BY <2>1, <2>3, <3>1, <3>3, <3>4
  <2>6. QED
    BY <2>1, <2>5 DEF InRange
<1>9. CASE AddEvents(t)
  <2>1. /\ bits' = bits /\ total' = total /\ events' = events + 1
        /\ pc[t] = "events" /\ pc' = [pc EXCEPT ![t] = "idle"]
    BY <1>9 DEF AddEvents, Goes, extremes
  <2>2. Uncounted' = Uncounted \ {t} /\ t \in Uncounted
    BY <2>1 DEF Uncounted, TimesTypeOK
  <2>3. Summands' = Summands
    <3>1. IsFiniteSet(Uncounted) /\ Cardinality(Uncounted) \in Nat
      BY SummandsType
    <3>2. Cardinality(Uncounted') = Cardinality(Uncounted) - 1
      BY <2>2, <3>1, FS_RemoveElement
    <3>3. events \in Nat
      BY DEF TimesTypeOK
    <3>4. QED
      BY <2>1, <3>1, <3>2, <3>3 DEF Summands
  <2>4. QED
    BY <1>3, <2>1, <2>3
<1>10. QED
  BY <1>4, <1>5, <1>6, <1>7, <1>8, <1>9 DEF Update

LEMMA AverageStep ==
  ASSUME TimesTypeOK, TimesTypeOK', Covering, AverageInv, [TimesNext]_timesVars
  PROVE  AverageInv'
<1>1. CASE UNCHANGED timesVars
  BY <1>1 DEF timesVars, extremes, sums, updater, timesHistory, AverageInv, CoversPast, InRange,
              Summands, Uncounted
<1>2. CASE TimePasses /\ UNCHANGED <<extremes, sums, pc, updater, timesHistory>>
  BY <1>2 DEF extremes, sums, updater, timesHistory, AverageInv, CoversPast, InRange,
              Summands, Uncounted
<1>3. ASSUME NEW t \in Threads, NEW d \in Durations, Begin(t, d)
      PROVE  AverageInv'
  <2>1. Summands' = Summands
    BY <1>3, SameSummands DEF Begin, sums
  <2>2. bits' = bits /\ total' = total /\ forgotten' = forgotten /\ overtaken' = overtaken
    BY <1>3 DEF Begin, extremes, sums, timesHistory
  <2>3. CoversPast => CoversPast'
    BY <1>3, <2>2 DEF Begin, Goes, CoversPast, TimesTypeOK
  <2>4. InRange => InRange'
    BY <2>1, <2>2 DEF InRange
  <2>5. QED
    BY <2>2, <2>3, <2>4 DEF AverageInv
<1>4. ASSUME NEW t \in Threads, Update(t)
      PROVE  AverageInv'
  <2>1. ~forgotten' => ~forgotten
    BY <1>4 DEF Update, LoadBits, CheckStamp, Reset, Restamp, Exchange, ExchangeFails, NotBetter,
                Stamp, AddTotal, AddEvents, timesHistory
  <2>2. QED
    BY <1>4, <2>1, UpdateCoversPast, UpdateInRange DEF AverageInv
<1>5. QED
  BY <1>1, <1>2, <1>3, <1>4 DEF TimesNext

\* With no update under way, nothing forgotten and no negative time recorded, the
\* average that is printed lies between the extreme values that are printed, whatever
\* order the threads' updates of the four atomics have taken.
THEOREM AverageIsInRange == TimesSpec => []AverageInRange
<1>1. TimesInit => AverageInv
  <2> SUFFICES ASSUME TimesInit
               PROVE  AverageInv
    OBVIOUS
  <2>1. CoversPast
    BY DEF TimesInit, CoversPast
  <2>2. Uncounted = {}
    BY DEF TimesInit, Uncounted
  <2>3. Summands = 0
    BY <2>2, FS_EmptySet DEF TimesInit, Summands
  <2>4. bits["min"] * Summands = 0 /\ bits["max"] * Summands = 0 /\ total = 0
    BY <2>3, DurationsAssumption DEF TimesInit, Sides, Nothing
  <2>5. QED
    BY <2>1, <2>4 DEF AverageInv, InRange
<1>2. TimesInv => TimesTypeOK /\ Covering
  BY DEF TimesInv, Covering
<1>3. TimesTypeOK /\ TimesTypeOK' /\ Covering /\ AverageInv /\ [TimesNext]_timesVars => AverageInv'
  BY AverageStep
<1>4. TimesTypeOK /\ AverageInv => AverageInRange
  <2> SUFFICES ASSUME TimesTypeOK, AverageInv, \A t \in Threads : pc[t] = "idle", ~forgotten,
                      bits["max"] < Infinity
               PROVE  bits["min"] * events <= total /\ total <= bits["max"] * events
    BY DEF AverageInRange
  <2>1. Uncounted = {}
    BY DEF Uncounted
  <2>2. Summands = events
    BY <2>1, FS_EmptySet DEF Summands, TimesTypeOK
  <2>3. QED
    BY <2>2 DEF AverageInv, InRange
<1>5. QED
  BY <1>1, <1>2, <1>3, <1>4, Invariant, PTL DEF TimesSpec
=============================================================================
