--------------------------- MODULE ProcessingTimes ---------------------------
(***************************************************************************)
(* AtomicProcessingTimeStats (streaming/common/metrics.rs): the shortest   *)
(* and the longest processing time, each with a time stamp and forgotten   *)
(* after ten seconds, and two sums for the average. Every thread updates   *)
(* them without a lock, the shortest time first.                           *)
(*                                                                         *)
(* Times are compared by the bits of an f64, read as an unsigned number.   *)
(* A processing time is that number here: Infinity is f64::INFINITY, and a *)
(* number above it is a negative time, whose highest bit is set. (The time *)
(* is a difference of two clocks; one is the wall clock.)                  *)
(***************************************************************************)
EXTENDS MetricsBase

CONSTANTS
  Durations,    \* the processing times recorded
  Infinity,
  Stale,        \* the age after which an extreme value is forgotten (10 s)
  MaxUpdates    \* how many times are recorded (bounds the model)

ASSUME DurationsAssumption ==
  Infinity \in Nat \ {0} /\ Durations \subseteq Nat \ {Infinity}
ASSUME StaleAssumption == Stale \in Nat

VARIABLES
  bits,         \* min_time_bits and max_time_bits
  stamp,        \* min_time_timestamp_nanos and max_time_timestamp_nanos
  total,        \* total_time_us
  events,       \* total_events
  pc,           \* where each thread is
  side,         \* which of the two extreme values it is at
  duration,     \* time_bits
  now,          \* now_nanos
  current,      \* current_min or current_max
  seen,         \* history: the times that an extreme value must cover
  overtaken,    \* history: a reset has come after the thread's load
  last,         \* history: the time at which an extreme value was recorded
  crossed,      \* history: two updates of an extreme value have overlapped
  forgotten     \* history: an extreme value has been reset

Sides == {"min", "max"}
extremes == <<bits, stamp>>
sums == <<total, events>>
updater == <<side, duration, now, current>>
timesHistory == <<seen, overtaken, last, crossed, forgotten>>
timesVars == <<clock, extremes, sums, pc, updater, timesHistory>>

Updating == {"check", "reset", "restamp", "exchange", "stamp"}
PcState == {"idle", "load", "total", "events"} \cup Updating
Bits == Durations \cup {0, Infinity}

TimesTypeOK ==
  /\ clock \in Times
  /\ bits \in [Sides -> Bits]
  /\ stamp \in [Sides -> Times]
  /\ total \in Nat
  /\ events \in Nat
  /\ pc \in [Threads -> PcState]
  /\ side \in [Threads -> Sides]
  /\ duration \in [Threads -> Durations \cup {0}]
  /\ now \in [Threads -> Times]
  /\ current \in [Threads -> Bits]
  /\ seen \in [Sides -> SUBSET (Durations \cup {0})]
  /\ overtaken \in [Threads -> BOOLEAN]
  /\ last \in [Sides -> Times]
  /\ crossed \in [Sides -> BOOLEAN]
  /\ forgotten \in BOOLEAN

\* What an extreme value is reset to.
Nothing(e) == IF e = "min" THEN Infinity ELSE 0

\* v displaces w.
Beats(e, v, w) == IF e = "min" THEN v < w ELSE v > w

TimesInit ==
  /\ clock = 0
  /\ bits = [e \in Sides |-> Nothing(e)]
  /\ stamp = [e \in Sides |-> 0]
  /\ total = 0
  /\ events = 0
  /\ pc = [t \in Threads |-> "idle"]
  /\ side = [t \in Threads |-> "min"]
  /\ duration = [t \in Threads |-> 0]
  /\ now = [t \in Threads |-> 0]
  /\ current = [t \in Threads |-> 0]
  /\ seen = [e \in Sides |-> {}]
  /\ overtaken = [t \in Threads |-> FALSE]
  /\ last = [e \in Sides |-> 0]
  /\ crossed = [e \in Sides |-> FALSE]
  /\ forgotten = FALSE

Goes(t, from, to) ==
  /\ pc[t] = from
  /\ pc' = [pc EXCEPT ![t] = to]

\* Some other thread is in the middle of its update of extreme value e.
Others(t, e) == {u \in Threads \ {t} : side[u] = e /\ pc[u] \in Updating}

-----------------------------------------------------------------------------
(* update *)

InProgress == {t \in Threads : pc[t] # "idle"}

\* The clock is read once, before both extreme values are updated.
Begin(t, d) ==
  /\ events + Cardinality(InProgress) < MaxUpdates
  /\ Goes(t, "idle", "load")
  /\ side' = [side EXCEPT ![t] = "min"]
  /\ duration' = [duration EXCEPT ![t] = d]
  /\ now' = [now EXCEPT ![t] = clock]
  /\ UNCHANGED <<clock, extremes, sums, current, timesHistory>>

LoadBits(t) ==
  /\ Goes(t, "load", "check")
  /\ current' = [current EXCEPT ![t] = bits[side[t]]]
  /\ overtaken' = [overtaken EXCEPT ![t] = FALSE]
  /\ crossed' = [crossed EXCEPT ![side[t]] = @ \/ Others(t, side[t]) # {}]
  /\ UNCHANGED <<clock, extremes, sums, side, duration, now, seen, last, forgotten>>

CheckStamp(t) ==
  /\ Goes(t, "check",
          IF Since(now[t], stamp[side[t]]) > Stale THEN "reset" ELSE "exchange")
  /\ UNCHANGED <<clock, extremes, sums, updater, timesHistory>>

\* Mutant of Reset: the thread goes on with the value it had loaded.
ResetKeepsCurrent(t) ==
  /\ Goes(t, "reset", "restamp")
  /\ bits' = [bits EXCEPT ![side[t]] = Nothing(side[t])]
  /\ seen' = [seen EXCEPT ![side[t]] = {}]
  /\ overtaken' = [u \in Threads |-> u # t /\ (overtaken[u] \/ u \in Others(t, side[t]))]
  /\ forgotten' = TRUE
  /\ UNCHANGED <<clock, stamp, sums, updater, last, crossed>>

Reset(t) ==
  /\ Goes(t, "reset", "restamp")
  /\ bits' = [bits EXCEPT ![side[t]] = Nothing(side[t])]
  /\ current' = [current EXCEPT ![t] = Nothing(side[t])]
  /\ seen' = [seen EXCEPT ![side[t]] = {}]
  /\ overtaken' = [u \in Threads |-> u # t /\ (overtaken[u] \/ u \in Others(t, side[t]))]
  /\ forgotten' = TRUE
  /\ UNCHANGED <<clock, stamp, sums, side, duration, now, last, crossed>>

Restamp(t) ==
  /\ Goes(t, "restamp", "exchange")
  /\ stamp' = [stamp EXCEPT ![side[t]] = now[t]]
  /\ UNCHANGED <<clock, bits, sums, updater, timesHistory>>

\* Mutant of Exchange: a store instead of a compare-and-exchange.
StoreBlindly(t) ==
  /\ Beats(side[t], duration[t], current[t])
  /\ Goes(t, "exchange", "stamp")
  /\ bits' = [bits EXCEPT ![side[t]] = duration[t]]
  /\ seen' = [seen EXCEPT ![side[t]] = @ \cup {duration[t]}]
  /\ last' = [last EXCEPT ![side[t]] = now[t]]
  /\ UNCHANGED <<clock, stamp, sums, updater, overtaken, crossed, forgotten>>

Exchange(t) ==
  /\ Beats(side[t], duration[t], current[t])
  /\ bits[side[t]] = current[t]
  /\ Goes(t, "exchange", "stamp")
  /\ bits' = [bits EXCEPT ![side[t]] = duration[t]]
  /\ seen' = [seen EXCEPT ![side[t]] = @ \cup {duration[t]}]
  /\ last' = [last EXCEPT ![side[t]] = now[t]]
  /\ UNCHANGED <<clock, stamp, sums, updater, overtaken, crossed, forgotten>>

\* The exchange fails and tells the value it has found. (A spurious failure, which
\* finds the value expected, changes nothing.)
ExchangeFails(t) ==
  /\ Beats(side[t], duration[t], current[t])
  /\ bits[side[t]] # current[t]
  /\ pc[t] = "exchange"
  /\ current' = [current EXCEPT ![t] = bits[side[t]]]
  /\ overtaken' = [overtaken EXCEPT ![t] = FALSE]
  /\ UNCHANGED <<clock, extremes, sums, pc, side, duration, now, seen, last, crossed, forgotten>>

\* On to the other extreme value, or to the sums.
Leaves(t, from) ==
  /\ Goes(t, from, IF side[t] = "min" THEN "load" ELSE "total")
  /\ side' = [side EXCEPT ![t] = "max"]
  /\ current' = [current EXCEPT ![t] = 0]

NotBetter(t) ==
  /\ ~Beats(side[t], duration[t], current[t])
  /\ Leaves(t, "exchange")
  /\ seen' = IF overtaken[t]
               THEN seen
               ELSE [seen EXCEPT ![side[t]] = @ \cup {duration[t]}]
  /\ overtaken' = [overtaken EXCEPT ![t] = FALSE]
  /\ UNCHANGED <<clock, extremes, sums, duration, now, last, crossed, forgotten>>

\* Mutant of Stamp: the time stamp is left as it is.
StampsNothing(t) ==
  /\ Leaves(t, "stamp")
  /\ overtaken' = [overtaken EXCEPT ![t] = FALSE]
  /\ UNCHANGED <<clock, extremes, sums, duration, now, seen, last, crossed, forgotten>>

Stamp(t) ==
  /\ stamp' = [stamp EXCEPT ![side[t]] = now[t]]
  /\ Leaves(t, "stamp")
  /\ overtaken' = [overtaken EXCEPT ![t] = FALSE]
  /\ UNCHANGED <<clock, bits, sums, duration, now, seen, last, crossed, forgotten>>

\* Mutant of Micros: cut to a coarser unit.
CoarseMicros(d) == IF d > Infinity THEN 0 ELSE 2 * (d \div 2)

\* `as u64`: a negative time counts as zero.
Micros(d) == IF d > Infinity THEN 0 ELSE d

AddTotal(t) ==
  /\ Goes(t, "total", "events")
  /\ total' = total + Micros(duration[t])
  /\ UNCHANGED <<clock, extremes, events, updater, timesHistory>>

AddEvents(t) ==
  /\ Goes(t, "events", "idle")
  /\ events' = events + 1
  /\ side' = [side EXCEPT ![t] = "min"]
  /\ duration' = [duration EXCEPT ![t] = 0]
  /\ now' = [now EXCEPT ![t] = 0]
  /\ UNCHANGED <<clock, extremes, total, current, timesHistory>>

Update(t) ==
  LoadBits(t) \/ CheckStamp(t) \/ Reset(t) \/ Restamp(t) \/ Exchange(t)
    \/ ExchangeFails(t) \/ NotBetter(t) \/ Stamp(t) \/ AddTotal(t) \/ AddEvents(t)

TimesNext ==
  \/ \E t \in Threads : Update(t) \/ \E d \in Durations : Begin(t, d)
  \/ TimePasses /\ UNCHANGED <<extremes, sums, pc, updater, timesHistory>>

TimesSpec == TimesInit /\ [][TimesNext]_timesVars

-----------------------------------------------------------------------------
(* Safety. *)

\* The time that the bits d stand for: of negative ones, the greater the lower.
Value(d) == IF d > Infinity THEN Infinity - d ELSE d

\* No time is lost to a race, as far as times are not negative: of those recorded after
\* the last reset and not overtaken by it the minimum is the least, and the maximum the
\* greatest. To the minimum a negative time is as if it had not been recorded; the
\* maximum is none of the others from then on, until it is reset.
ExtremesExact ==
  LET Counting(e) == {d \in seen[e] : Value(d) >= 0} IN
  /\ IF Counting("min") = {}
       THEN bits["min"] = Nothing("min")
       ELSE /\ bits["min"] \in Counting("min")
            /\ \A d \in Counting("min") : Value(bits["min"]) <= Value(d)
  /\ IF seen["max"] = {} THEN bits["max"] = Nothing("max")
     ELSE IF Counting("max") = seen["max"]
       THEN /\ bits["max"] \in seen["max"]
            /\ \A d \in seen["max"] : Value(d) <= Value(bits["max"])
     ELSE bits["max"] \in seen["max"] \ Counting("max")

\* What the comments in update say of every time: that it replaces the minimum if it is
\* less, and the maximum if it is greater, so that none recorded since the last reset
\* lies beyond the two.
NoTimeBeyond ==
  /\ \A d \in seen["min"] : Value(bits["min"]) <= Value(d)
  /\ \A d \in seen["max"] : Value(d) <= Value(bits["max"])

\* An extreme value is not forgotten before its time, unless updates of it have
\* overlapped: the value and its time stamp are two atomics.
FreshKept ==
  [][\A e \in Sides :
       bits[e] # Nothing(e) /\ bits'[e] = Nothing(e) =>
         crossed[e] \/ Since(clock, last[e]) > Stale]_timesVars

\* With no update under way, nothing forgotten and no negative time recorded, the
\* average that is printed lies between the two extreme values that are printed.
AverageInRange ==
  (\A t \in Threads : pc[t] = "idle") /\ ~forgotten /\ bits["max"] < Infinity =>
    bits["min"] * events <= total /\ total <= bits["max"] * events

\* The inductive invariant behind ExtremesExact: by its bits, an extreme value is one of
\* the times it must cover and covers all of them; what a thread has loaded is no better
\* than it still is, unless a reset has come in between. No negative time becomes the
\* shortest, for its bits are above those of infinity.
BitsCover ==
  \A e \in Sides :
    /\ \A d \in seen[e] : ~Beats(e, d, bits[e])
    /\ bits[e] \in seen[e] \cup {Nothing(e)}

LoadedCovered ==
  \A t \in Threads :
    pc[t] \in {"check", "restamp", "exchange"} /\ ~overtaken[t] =>
      ~Beats(side[t], current[t], bits[side[t]])

ShortestNotNegative ==
  /\ bits["min"] <= Infinity
  /\ \A t \in Threads :
       side[t] = "min" /\ pc[t] \in Updating => current[t] <= Infinity

\* And the one behind FreshKept: while updates do not overlap, the time stamp is at
\* least the time of the value, or is about to be.
Alone ==
  \A e \in Sides : ~crossed[e] =>
    \A t, u \in Threads :
      side[t] = e /\ side[u] = e /\ pc[t] \in Updating /\ pc[u] \in Updating => t = u

StampFollows ==
  \A e \in Sides : ~crossed[e] =>
    /\ last[e] <= stamp[e] \/ \E t \in Threads : side[t] = e /\ pc[t] = "stamp"
    /\ \A t \in Threads : side[t] = e /\ pc[t] = "stamp" => now[t] = last[e]

ResetIsDue ==
  \A t \in Threads :
    pc[t] \in {"reset", "restamp"} /\ ~crossed[side[t]] =>
      Since(now[t], last[side[t]]) > Stale

NowIsPast == \A t \in Threads : now[t] <= clock

TimesInv ==
  /\ TimesTypeOK
  /\ BitsCover /\ LoadedCovered /\ ShortestNotNegative
  /\ Alone /\ StampFollows /\ ResetIsDue /\ NowIsPast
=============================================================================
