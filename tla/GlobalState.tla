----------------------------- MODULE GlobalState -----------------------------
(***************************************************************************)
(* The process-wide table of developer addresses by slot                   *)
(* (event_parser/core/global_state.rs), written by every thread that       *)
(* parses a token creation. It is a DashMap with a counter of its keys and *)
(* a generation counter beside it; an add that finds too many slots first  *)
(* removes a batch of the oldest.                                          *)
(*                                                                         *)
(* The map is locked one shard at a time, so iterating or clearing it      *)
(* takes one step per shard. Local variables are reset after their last    *)
(* use, to keep equal states equal. Only the keys are modelled: the two sets of   *)
(* addresses of a slot live and go with its key, and add_dev_address and   *)
(* add_bonk_dev_address differ only in which of them they insert into.     *)
(***************************************************************************)
EXTENDS Integers, FiniteSets

CONSTANTS
  Threads,
  Slots,        \* the slot numbers used
  Shards,       \* the shards of the map: a partition of Slots
  MaxSlots,     \* MAX_SLOTS
  Batch,        \* CLEANUP_BATCH_SIZE
  MaxGen,       \* how many cleanups are claimed (bounds the model)
  W             \* slot_count is a usize: it wraps modulo W

ASSUME SlotsAssumption == Slots \subseteq Nat /\ IsFiniteSet(Slots)
ASSUME ThreadsAssumption == IsFiniteSet(Threads)
ASSUME ShardsAssumption == UNION Shards = Slots
ASSUME LimitsAssumption ==
  MaxSlots \in Nat /\ Batch \in Nat \ {0} /\ Batch <= MaxSlots
ASSUME BoundsAssumption ==
  MaxGen \in Nat /\ W \in Nat /\ Cardinality(Slots) + Cardinality(Threads) < W

VARIABLES
  slot_data,    \* the slots that have an entry
  slot_count,
  generation,
  pc,           \* where each thread is
  gen,          \* the generation each thread has loaded
  todo,         \* the shards each thread has yet to visit
  found,        \* the slots each thread has collected
  victims,      \* the slots each thread has yet to remove
  overlapped,   \* history: a cleanup has overlapped another one, or a clear has
                \* overlapped a cleanup or the arrival of a new slot
  cleared       \* history: clear_all_data has been called

vars == <<slot_data, slot_count, generation, pc, gen, todo, found, victims,
          overlapped, cleared>>

shared == <<slot_data, slot_count, generation>>
local == <<gen, todo, found, victims>>
history == <<overlapped, cleared>>

PcState == {"idle", "gen", "cas", "collect", "remove", "subtract", "entry",
            "clear", "clearGen"}

TypeOK ==
  /\ slot_data \in SUBSET Slots
  /\ slot_count \in 0..(W - 1)
  /\ generation \in 0..MaxGen
  /\ pc \in [Threads -> PcState]
  /\ gen \in [Threads -> 0..MaxGen]
  /\ todo \in [Threads -> SUBSET Shards]
  /\ found \in [Threads -> SUBSET Slots]
  /\ victims \in [Threads -> SUBSET Slots]
  /\ overlapped \in BOOLEAN
  /\ cleared \in BOOLEAN

Init ==
  /\ slot_data = {}
  /\ slot_count = 0
  /\ generation = 0
  /\ pc = [t \in Threads |-> "idle"]
  /\ gen = [t \in Threads |-> 0]
  /\ todo = [t \in Threads |-> {}]
  /\ found = [t \in Threads |-> {}]
  /\ victims = [t \in Threads |-> {}]
  /\ overlapped = FALSE
  /\ cleared = FALSE

Goes(t, from, to) ==
  /\ pc[t] = from
  /\ pc' = [pc EXCEPT ![t] = to]

Cleaning(t) == pc[t] \in {"collect", "remove", "subtract"}
SomeClearing == \E t \in Threads : pc[t] = "clear"

-----------------------------------------------------------------------------
(* maybe_cleanup, at the beginning of every add *)

LoadCount(t) ==
  /\ Goes(t, "idle", IF slot_count <= MaxSlots THEN "entry" ELSE "gen")
  /\ UNCHANGED <<shared, local, history>>

LoadGen(t) ==
  /\ Goes(t, "gen", "cas")
  /\ gen' = [gen EXCEPT ![t] = generation]
  /\ UNCHANGED <<shared, todo, found, victims, history>>

CasWins(t) ==
  /\ Goes(t, "cas", "collect")
  /\ generation = gen[t]
  /\ generation < MaxGen
  /\ generation' = generation + 1
  /\ gen' = [gen EXCEPT ![t] = 0]
  /\ todo' = [todo EXCEPT ![t] = Shards]
  /\ overlapped' = (overlapped \/ SomeClearing \/ \E u \in Threads : Cleaning(u))
  /\ UNCHANGED <<slot_data, slot_count, found, victims, cleared>>

\* Another thread has changed the generation; or the weak exchange fails for
\* no reason at all.
CasLoses(t) ==
  /\ Goes(t, "cas", "entry")
  /\ gen' = [gen EXCEPT ![t] = 0]
  /\ UNCHANGED <<shared, todo, found, victims, history>>

Collect(t) ==
  /\ pc[t] = "collect"
  /\ \E S \in todo[t] :
       /\ todo' = [todo EXCEPT ![t] = @ \ {S}]
       /\ found' = [found EXCEPT ![t] = @ \cup (S \cap slot_data)]
  /\ UNCHANGED <<shared, pc, gen, victims, history>>

\* Mutant of Oldest: sorted the other way round.
Youngest(S, n) == {v \in S : Cardinality({w \in S : w > v}) < n}

\* The n oldest slots of S: sort_unstable, truncate.
Oldest(S, n) == {v \in S : Cardinality({w \in S : w < v}) < n}

\* Mutant of Choose: the collected slots are not cut to a batch.
ChooseAll(t) ==
  /\ todo[t] = {}
  /\ IF Cardinality(found[t]) <= MaxSlots
       THEN /\ Goes(t, "collect", "entry")
            /\ UNCHANGED victims
       ELSE /\ Goes(t, "collect", "remove")
            /\ victims' = [victims EXCEPT ![t] = found[t]]
  /\ found' = [found EXCEPT ![t] = {}]
  /\ UNCHANGED <<shared, gen, todo, history>>

Choose(t) ==
  /\ todo[t] = {}
  /\ IF Cardinality(found[t]) <= MaxSlots
       THEN /\ Goes(t, "collect", "entry")
            /\ UNCHANGED victims
       ELSE /\ Goes(t, "collect", "remove")
            /\ victims' = [victims EXCEPT ![t] = Oldest(found[t], Batch)]
  /\ found' = [found EXCEPT ![t] = {}]
  /\ UNCHANGED <<shared, gen, todo, history>>

Remove(t) ==
  /\ Goes(t, "remove", "subtract")
  /\ \E v \in victims[t] :
       /\ \A w \in victims[t] : v <= w
       /\ slot_data' = slot_data \ {v}
       /\ victims' = [victims EXCEPT ![t] = @ \ {v}]
  /\ UNCHANGED <<slot_count, generation, gen, todo, found, history>>

\* fetch_sub, whether or not the slot was still there.
Decremented == IF slot_count = 0 THEN W - 1 ELSE slot_count - 1

Subtract(t) ==
  /\ Goes(t, "subtract", IF victims[t] = {} THEN "entry" ELSE "remove")
  /\ slot_count' = Decremented
  /\ UNCHANGED <<slot_data, generation, local, history>>

-----------------------------------------------------------------------------
(* The rest of an add *)

Incremented == IF slot_count = W - 1 THEN 0 ELSE slot_count + 1

\* Mutant of Entry: the slot is counted before it is known to be new.
EntryAlwaysCounts(t) ==
  /\ Goes(t, "entry", "idle")
  /\ \E s \in Slots : slot_data' = slot_data \cup {s}
  /\ slot_count' = Incremented
  /\ UNCHANGED <<generation, local, history>>

\* entry() holds the lock of the slot's shard, also while or_insert_with counts
\* the slot that it is about to insert.
Entry(t) ==
  /\ Goes(t, "entry", "idle")
  /\ \E s \in Slots :
       /\ slot_data' = slot_data \cup {s}
       /\ slot_count' = IF s \in slot_data THEN slot_count ELSE Incremented
       /\ overlapped' = (overlapped \/ (SomeClearing /\ s \notin slot_data))
  /\ UNCHANGED <<generation, local, cleared>>

-----------------------------------------------------------------------------
(* clear_all_data (at most once in a run: this bounds the model) *)

Clear(t) ==
  /\ ~cleared
  /\ Goes(t, "idle", "clear")
  /\ todo' = [todo EXCEPT ![t] = Shards]
  /\ cleared' = TRUE
  /\ overlapped' = (overlapped \/ \E u \in Threads : Cleaning(u))
  /\ UNCHANGED <<shared, gen, found, victims>>

ClearShard(t) ==
  /\ pc[t] = "clear"
  /\ \E S \in todo[t] :
       /\ todo' = [todo EXCEPT ![t] = @ \ {S}]
       /\ slot_data' = slot_data \ S
  /\ UNCHANGED <<slot_count, generation, pc, gen, found, victims, history>>

ClearCount(t) ==
  /\ todo[t] = {}
  /\ Goes(t, "clear", "clearGen")
  /\ slot_count' = 0
  /\ UNCHANGED <<slot_data, generation, local, history>>

ClearGen(t) ==
  /\ Goes(t, "clearGen", "idle")
  /\ generation' = 0
  /\ UNCHANGED <<slot_data, slot_count, local, history>>

-----------------------------------------------------------------------------
Cleanup(t) ==
  LoadCount(t) \/ LoadGen(t) \/ CasWins(t) \/ CasLoses(t) \/ Collect(t) \/ Choose(t)
    \/ Remove(t) \/ Subtract(t)

ClearAll(t) == Clear(t) \/ ClearShard(t) \/ ClearCount(t) \/ ClearGen(t)

Next == \E t \in Threads : Cleanup(t) \/ Entry(t) \/ ClearAll(t)

Spec == Init /\ [][Next]_vars

-----------------------------------------------------------------------------
(* Safety. *)

\* Cleanup never removes the newest slot, however late its victims are removed
\* and whatever else is added or removed meanwhile: the developers of the slot
\* being parsed are not forgotten.
NewestKept ==
  [][~cleared' => \A s \in slot_data \ slot_data' : \E n \in slot_data' : n > s]_vars

\* The inductive invariant behind it: something newer than each victim is, and
\* will stay, in the map.
VictimsOutdated ==
  /\ \A t \in Threads : \A f \in found[t] : \E n \in slot_data : n >= f
  /\ \A t \in Threads : \A v \in victims[t] : \E n \in slot_data : n > v

ClearingIsClear == \A t \in Threads : pc[t] \in {"clear", "clearGen"} => cleared

\* As long as cleanups do not overlap and no clear meets a cleanup or a new slot,
\* the counter is exact, up to the slots whose removal is still to be counted: also
\* after a clear, which sets it to zero, and whatever is found, chosen and removed.
Removing == {t \in Threads : pc[t] = "subtract"}

CountExact ==
  ~overlapped /\ ~SomeClearing =>
    slot_count = Cardinality(slot_data) + Cardinality(Removing)

\* The inductive invariant behind it: one thread at a time has slots to remove, they
\* are all still there, and a clear leaves nothing in the shards it has visited.
OneAtATime ==
  /\ \A t \in Threads :
       /\ found[t] # {} => pc[t] = "collect"
       /\ victims[t] # {} => pc[t] \in {"remove", "subtract"}
  /\ \A t, u \in Threads : pc[t] = "clear" /\ pc[u] = "clear" => t = u
  /\ ~overlapped =>
       /\ \A t, u \in Threads : Cleaning(t) /\ Cleaning(u) => t = u
       /\ \A t \in Threads : Cleaning(t) => ~SomeClearing

NothingLost ==
  ~overlapped =>
    \A t \in Threads :
      /\ found[t] \subseteq slot_data
      /\ victims[t] \subseteq slot_data
      /\ pc[t] = "clear" => slot_data \subseteq UNION todo[t]

IInv ==
  /\ TypeOK
  /\ ClearingIsClear
  /\ ~cleared => VictimsOutdated
  /\ OneAtATime
  /\ NothingLost
  /\ CountExact

=============================================================================
