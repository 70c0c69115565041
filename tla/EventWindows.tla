---------------------------- MODULE EventWindows ----------------------------
(***************************************************************************)
(* AtomicEventMetrics (streaming/common/metrics.rs): every thread that     *)
(* processes events counts them in two counters of their kind, a           *)
(* background task closes the windows and starts new ones, and whoever     *)
(* prints the metrics divides the count of a window by its age.            *)
(*                                                                         *)
(* Every atomic operation is a step of its own; the local code after it    *)
(* belongs to that step. Every caller records one event at a time.         *)
(* process_count is only ever incremented and printed, and is left out.    *)
(***************************************************************************)
EXTENDS MetricsBase

CONSTANTS
  Kinds,        \* Transaction, Account, BlockMeta
  Window,       \* DEFAULT_METRICS_WINDOW_SECONDS
  MaxRecords    \* how many events are recorded, of each kind (bounds the model)

ASSUME WindowAssumption == Window \in Nat \ {0}
ASSUME KindsAssumption == Kinds # {}

VARIABLES
  processed,    \* events_processed of each kind
  inWindow,     \* events_in_window
  start,        \* window_start_nanos
  rate,         \* events_per_second, times Window
  adding,       \* where each thread is in add_events_processed
  kind,         \* the kind of event that each thread records
  closer,       \* the background task: its step, and what it has loaded
  reader,       \* one that prints the metrics, likewise
  oldest,       \* history: when the first event of the window was added
  closed,       \* history: the events of the closed windows
  late          \* history: an event was added while its window was being closed

counters == <<processed, inWindow, start, rate>>
recorders == <<adding, kind>>
history == <<oldest, closed, late>>
vars == <<clock, counters, recorders, closer, reader, history>>

CloserStates ==
  [step : {"idle", "start", "count", "rate", "zero", "restart"},
   kind : Kinds, now : Times, count : Nat]
ReaderStates == [step : {"idle", "count"}, kind : Kinds, start : Times]

TypeOK ==
  /\ clock \in Times
  /\ processed \in [Kinds -> Nat]
  /\ inWindow \in [Kinds -> Nat]
  /\ start \in [Kinds -> Times]
  /\ rate \in [Kinds -> Nat]
  /\ adding \in [Threads -> {"idle", "window"}]
  /\ kind \in [Threads -> Kinds]
  /\ closer \in CloserStates
  /\ reader \in ReaderStates
  /\ oldest \in [Kinds -> Times]
  /\ closed \in [Kinds -> Nat]
  /\ late \in [Kinds -> BOOLEAN]

Init ==
  /\ clock = 0
  /\ processed = [k \in Kinds |-> 0]
  /\ inWindow = [k \in Kinds |-> 0]
  /\ start = [k \in Kinds |-> 0]
  /\ rate = [k \in Kinds |-> 0]
  /\ \E k \in Kinds :
       /\ kind = [t \in Threads |-> k]
       /\ closer = [step |-> "idle", kind |-> k, now |-> 0, count |-> 0]
       /\ reader = [step |-> "idle", kind |-> k, start |-> 0]
  /\ adding = [t \in Threads |-> "idle"]
  /\ oldest = [k \in Kinds |-> 0]
  /\ closed = [k \in Kinds |-> 0]
  /\ late = [k \in Kinds |-> FALSE]

-----------------------------------------------------------------------------
(* add_events_processed *)

AddProcessed(t, k) ==
  /\ processed[k] < MaxRecords
  /\ adding[t] = "idle"
  /\ adding' = [adding EXCEPT ![t] = "window"]
  /\ kind' = [kind EXCEPT ![t] = k]
  /\ processed' = [processed EXCEPT ![k] = @ + 1]
  /\ UNCHANGED <<clock, inWindow, start, rate, closer, reader, history>>

\* The background task has loaded the count of the window, or is about to reset it.
Closing(k) == closer.kind = k /\ closer.step \in {"rate", "zero"}

AddNoted(t) ==
  /\ oldest' = [oldest EXCEPT ![kind[t]] = IF inWindow[kind[t]] = 0 THEN clock ELSE @]
  /\ late' = [late EXCEPT ![kind[t]] = @ \/ Closing(kind[t])]

AddInWindow(t) ==
  /\ adding[t] = "window"
  /\ adding' = [adding EXCEPT ![t] = "idle"]
  /\ inWindow' = [inWindow EXCEPT ![kind[t]] = @ + 1]
  /\ AddNoted(t)
  /\ UNCHANGED <<clock, processed, start, rate, kind, closer, reader, closed>>

-----------------------------------------------------------------------------
(* update_window_metrics, every half second, for one kind after the other *)

CloserLooks(k) ==
  /\ closer.step = "idle"
  /\ closer' = [closer EXCEPT !.step = "start", !.kind = k, !.now = clock]
  /\ UNCHANGED <<clock, counters, recorders, reader, history>>

\* At rest again; the locals are reset, to keep equal states equal.
CloserRests ==
  closer' = [step |-> "idle", kind |-> closer.kind, now |-> 0, count |-> 0]

CloserLoadsStart ==
  /\ closer.step = "start"
  /\ IF Since(closer.now, start[closer.kind]) >= Window
       THEN closer' = [closer EXCEPT !.step = "count"]
       ELSE CloserRests
  /\ UNCHANGED <<clock, counters, recorders, reader, history>>

\* The rate is left alone when the window has no events.
CloserLoadsCount ==
  /\ closer.step = "count"
  /\ LET n == inWindow[closer.kind]
     IN  closer' = [closer EXCEPT !.step = IF n > 0 THEN "rate" ELSE "zero", !.count = n]
  /\ UNCHANGED <<clock, counters, recorders, reader, history>>

\* Mutant of CloserStoresRate: the new window starts before the count is reset.
CloserStartsEarly ==
  /\ closer.step = "rate"
  /\ closer' = [closer EXCEPT !.step = "zero"]
  /\ rate' = [rate EXCEPT ![closer.kind] = closer.count]
  /\ start' = [start EXCEPT ![closer.kind] = closer.now]
  /\ UNCHANGED <<clock, processed, inWindow, recorders, reader, history>>

CloserStoresRate ==
  /\ closer.step = "rate"
  /\ closer' = [closer EXCEPT !.step = "zero"]
  /\ rate' = [rate EXCEPT ![closer.kind] = closer.count]
  /\ UNCHANGED <<clock, processed, inWindow, start, recorders, reader, history>>

\* Mutant of CloserStoresZero: what was loaded is not reset.
CloserKeepsCount ==
  /\ closer.step = "zero"
  /\ closer' = [closer EXCEPT !.step = "restart"]
  /\ closed' = [closed EXCEPT ![closer.kind] = @ + closer.count]
  /\ UNCHANGED <<clock, counters, recorders, reader, oldest, late>>

CloserStoresZero ==
  /\ closer.step = "zero"
  /\ closer' = [closer EXCEPT !.step = "restart"]
  /\ inWindow' = [inWindow EXCEPT ![closer.kind] = 0]
  /\ closed' = [closed EXCEPT ![closer.kind] = @ + closer.count]
  /\ UNCHANGED <<clock, processed, start, rate, recorders, reader, oldest, late>>

\* Mutant of CloserStoresStart: the clock is read once more for it.
CloserStoresNow ==
  /\ closer.step = "restart"
  /\ CloserRests
  /\ start' = [start EXCEPT ![closer.kind] = clock]
  /\ UNCHANGED <<clock, processed, inWindow, rate, recorders, reader, history>>

CloserStoresStart ==
  /\ closer.step = "restart"
  /\ CloserRests
  /\ start' = [start EXCEPT ![closer.kind] = closer.now]
  /\ UNCHANGED <<clock, processed, inWindow, rate, recorders, reader, history>>

-----------------------------------------------------------------------------
(* calculate_real_time_eps *)

ReaderLooks(k) ==
  /\ reader.step = "idle"
  /\ reader' = [step |-> "count", kind |-> k, start |-> start[k]]
  /\ UNCHANGED <<clock, counters, recorders, closer, history>>

\* The count is shown by the age of the window if the age is two seconds or more;
\* if not, or if the count is zero, the stored rate or an overall average is shown.
ReaderLoadsCount ==
  /\ reader.step = "count"
  /\ reader' = [step |-> "idle", kind |-> reader.kind, start |-> 0]
  /\ UNCHANGED <<clock, counters, recorders, closer, history>>

-----------------------------------------------------------------------------
Close ==
  \/ \E k \in Kinds : CloserLooks(k)
  \/ CloserLoadsStart \/ CloserLoadsCount \/ CloserStoresRate
  \/ CloserStoresZero \/ CloserStoresStart

Read == (\E k \in Kinds : ReaderLooks(k)) \/ ReaderLoadsCount

Record(t) == (\E k \in Kinds : AddProcessed(t, k)) \/ AddInWindow(t)

Next ==
  \/ \E t \in Threads : Record(t)
  \/ Close
  \/ Read
  \/ TimePasses /\ UNCHANGED <<counters, recorders, closer, reader, history>>

Spec == Init /\ [][Next]_vars

-----------------------------------------------------------------------------
(* Safety. *)

\* How many events of kind k are counted as processed but not yet in a window.
Between(k) == Cardinality({t \in Threads : adding[t] = "window" /\ kind[t] = k})

\* The windows add up: no event is counted in two windows, and one that is in none
\* was added between the load of its window's count and the reset of it.
WindowsAddUp ==
  \A k \in Kinds :
    LET counted == closed[k] + inWindow[k] + Between(k)
    IN  /\ counted <= processed[k]
        /\ ~late[k] => counted = processed[k]

\* A live rate is not overstated: the count that a reader is about to divide by the
\* age of a window has no event added before that window began.
LiveRateNotOverstated ==
  reader.step = "count" /\ inWindow[reader.kind] > 0 =>
    reader.start <= oldest[reader.kind]

\* The inductive invariant behind both: what the background task has loaded is what
\* the window still holds, and a window starts no later than its first event.
LoadedIsThere ==
  closer.step \in {"rate", "zero"} =>
    /\ closer.count <= inWindow[closer.kind]
    /\ ~late[closer.kind] => closer.count = inWindow[closer.kind]

StartsInOrder ==
  /\ \A k \in Kinds :
       start[k] <= clock /\ (inWindow[k] > 0 => start[k] <= oldest[k])
  /\ closer.step # "idle" => start[closer.kind] <= closer.now /\ closer.now <= clock
  /\ closer.step = "restart" /\ inWindow[closer.kind] > 0 =>
       closer.now <= oldest[closer.kind]
  /\ reader.step = "count" => reader.start <= start[reader.kind]

IInv == TypeOK /\ WindowsAddUp /\ LoadedIsThere /\ StartsInOrder
=============================================================================
