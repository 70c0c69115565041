--------------------------- MODULE BoundedDelivery ---------------------------
(***************************************************************************)
(* What an event processor promises the code that hands it messages,       *)
(* whatever its backpressure strategy: a message is admitted, refused or   *)
(* forgotten once; an admitted message is delivered to a callback at most  *)
(* once; never more than Capacity messages hold a place at a time; and a   *)
(* message is refused only while at least Permits others hold one.         *)
(*                                                                         *)
(* EventProcessor implements this specification with a lock-free queue (or *)
(* with one spawned task per message) and an atomic counter that is read   *)
(* in one step and updated in another.                                     *)
(***************************************************************************)
EXTENDS Integers, FiniteSets

CONSTANTS
  Msg,          \* the messages that can be offered
  Capacity,     \* how many may hold a place at once
  Permits,      \* how many must hold one before a message may be refused
  MayRefuse     \* whether refusing is part of the strategy

VARIABLES
  holding,      \* the messages that occupy a place
  outcome       \* what has become of each message

vars == <<holding, outcome>>

Outcome == {"new", "admitted", "delivered", "refused", "lost"}

TypeOK ==
  /\ holding \in SUBSET Msg
  /\ outcome \in [Msg -> Outcome]

Init ==
  /\ holding = {}
  /\ outcome = [m \in Msg |-> "new"]

Become(m, from, to) ==
  /\ outcome[m] = from
  /\ outcome' = [outcome EXCEPT ![m] = to]

Admit(m) ==
  /\ Cardinality(holding) < Capacity
  /\ Become(m, "new", "admitted")
  /\ holding' = holding \cup {m}

Refuse(m) ==
  /\ MayRefuse
  /\ Cardinality(holding) >= Permits
  /\ Become(m, "new", "refused")
  /\ UNCHANGED holding

\* The stream task is cancelled while it waits for a place.
Forget(m) ==
  /\ ~MayRefuse
  /\ Become(m, "new", "lost")
  /\ UNCHANGED holding

Deliver(m) ==
  /\ Become(m, "admitted", "delivered")
  /\ UNCHANGED holding

\* The message's parser or its callback panics.
Lose(m) ==
  /\ Become(m, "admitted", "lost")
  /\ UNCHANGED holding

Leave(m) ==
  /\ m \in holding
  /\ holding' = holding \ {m}
  /\ UNCHANGED outcome

Next == \E m \in Msg :
  Admit(m) \/ Refuse(m) \/ Forget(m) \/ Deliver(m) \/ Lose(m) \/ Leave(m)

Spec == Init /\ [][Next]_vars
=============================================================================
