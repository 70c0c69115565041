--------------------------- MODULE EventSelection ---------------------------
(***************************************************************************)
(* Which events reach which callback.  A subscription names the protocols  *)
(* it is interested in and may name the kinds of events it wants.  Its     *)
(* filter is used twice: to decide what the server is asked for            *)
(* (subscription.rs) and to choose the parsers a message meets             *)
(* (mutil/parser.rs, account_event_parser.rs).                             *)
(*                                                                         *)
(* Every subscription starts a processing thread with its own parsers and  *)
(* callback, and all of them take from the queue the client keeps: stop    *)
(* ends the stream and not the threads.  The strategy is Block; under Drop *)
(* a message is processed by its own subscription.  Capacities and the     *)
(* steps of the queue are in EventProcessor, those of the calls in         *)
(* YellowstoneClient.                                                      *)
(***************************************************************************)
EXTENDS ProtocolParsers, FiniteSets

CONSTANTS
  Lists,          \* lists of protocols a caller may pass
  Filters,        \* filters a caller may pass: sets of kinds, or NoFilter
  NoFilter,
  Updates,        \* messages the server has: a class and the kinds held
  MaxSubs,        \* a bound on the subscriptions
  MaxReceived     \* a bound on the messages received

VARIABLES
  subs,           \* the subscriptions made, in order
  active,         \* whether the last of them has not been stopped
  request,        \* the classes of messages the server has been asked for
  watching,       \* history: whether the last call named accounts to watch
  queue,          \* messages received and not processed
  received,       \* how many have been
  processed       \* history: messages processed, by whom, and what they gave

vars == <<subs, active, request, watching, queue, received, processed>>

(***************************************************************************)
(* Kinds, classes and filters.                                             *)
(***************************************************************************)

Classes == {"transaction", "account", "block"}

\* ACCOUNT_EVENT_TYPES; the last one has no parser.
AccountKinds == {a.event : a \in AllAccounts} \cup {"AccountBonkVestingRecord"}

BlockKinds == {"BlockMeta"}

\* include_transaction_event and its like: every other kind is a transaction's.
Includes(filter, class) ==
  \E kind \in filter :
    CASE class = "account"     -> kind \in AccountKinds
      [] class = "block"       -> kind \in BlockKinds
      [] class = "transaction" -> kind \notin AccountKinds \cup BlockKinds

Passes(filter, kind) == filter = NoFilter \/ kind \in filter

\* The transactions and accounts of a request, and the block metas of the first.
Asks(filter, class) == filter = NoFilter \/ Includes(filter, class)

TransactionFilter(filter) == {c \in {"transaction"} : Asks(filter, c)}
AccountFilter(filter, watch) == {c \in {"account"} : watch /\ Asks(filter, c)}
\* Mutant: block metas are always asked for.
BlocksMetaAlways(filter) == {"block"}

BlocksMeta(filter) == {c \in {"block"} : Asks(filter, c)}

(***************************************************************************)
(* What a message gives.                                                   *)
(***************************************************************************)

Occurrences(list, protocol) == Cardinality({i \in DOMAIN list : list[i] = protocol})

\* The instruction parsers and the account parsers a subscription's thread has.
InstructionTable(sub) ==
  {p \in AllParsers : Occurrences(sub.list, p.program) > 0 /\ Passes(sub.filter, p.event)}

AccountTable(sub) ==
  {a \in AllAccounts : Occurrences(sub.list, a.program) > 0 /\ Passes(sub.filter, a.event)}

\* instruction_configs is put together protocol by protocol as they are listed:
\* a protocol listed twice has its parsers there twice.
InstructionEvents(sub, kinds) ==
  {<<p.event, Occurrences(sub.list, p.program)>> :
     p \in {q \in InstructionTable(sub) : q.event \in kinds}}

\* The first account parser that fits returns.
AccountEvents(sub, kinds) ==
  {<<a.event, 1>> : a \in {b \in AccountTable(sub) : b.event \in kinds}}

\* Block metas meet no filter.
EventsOf(sub, update) ==
  CASE update.class = "transaction" -> InstructionEvents(sub, update.kinds)
    [] update.class = "account"     -> AccountEvents(sub, update.kinds)
    [] update.class = "block"       -> {<<"BlockMeta", 1>>}

\* The kinds a message of a class can hold.
Holds(class, kinds) ==
  CASE class = "transaction" -> kinds \cap (AccountKinds \cup BlockKinds) = {}
    [] class = "account"     -> kinds \subseteq AccountKinds
    [] class = "block"       -> kinds = {"BlockMeta"}

ASSUME ListsAssumption == Lists \subseteq Seq(Protocols)
ASSUME UpdatesAssumption ==
  \A update \in Updates : update.class \in Classes /\ Holds(update.class, update.kinds)

(***************************************************************************)
(* The client and its threads.                                             *)
(***************************************************************************)

Init ==
  /\ subs = <<>>
  /\ active = FALSE
  /\ request = {}
  /\ watching = FALSE
  /\ queue = <<>>
  /\ received = 0
  /\ processed = {}

Subscribe(list, filter, watch) ==
  /\ ~active
  /\ Len(subs) < MaxSubs
  /\ subs' = Append(subs, [list |-> list, filter |-> filter])
  /\ active' = TRUE
  /\ request' = TransactionFilter(filter) \cup AccountFilter(filter, watch) \cup BlocksMeta(filter)
  /\ watching' = watch
  /\ UNCHANGED <<queue, received, processed>>

\* Mutant: an update replaces the request, block metas included.
UpdateForgetsBlocks(watch) ==
  /\ active
  /\ request' = TransactionFilter(NoFilter) \cup AccountFilter(NoFilter, watch)
  /\ watching' = watch
  /\ UNCHANGED <<subs, active, queue, received, processed>>

\* update_subscription passes no filter: transactions and accounts are asked for
\* again whatever the kinds wanted; block metas stay as they were.
UpdateSubscription(watch) ==
  /\ active
  /\ request' = (request \cap {"block"})
                  \cup TransactionFilter(NoFilter) \cup AccountFilter(NoFilter, watch)
  /\ watching' = watch
  /\ UNCHANGED <<subs, active, queue, received, processed>>

Stop ==
  /\ active
  /\ active' = FALSE
  /\ request' = {}
  /\ UNCHANGED <<subs, watching, queue, received, processed>>

Receive(update) ==
  /\ active
  /\ update.class \in request
  /\ received < MaxReceived
  /\ received' = received + 1
  /\ queue' = Append(queue, [n |-> received', update |-> update, from |-> Len(subs)])
  /\ UNCHANGED <<subs, active, request, watching, processed>>

\* Mutant: the message stays in the queue.
ProcessPeeks(w) ==
  /\ queue # <<>>
  /\ processed' = processed \cup
       {[message |-> Head(queue), by |-> w, events |-> EventsOf(subs[w], Head(queue).update)]}
  /\ UNCHANGED <<subs, active, request, watching, queue, received>>

\* The thread of the wth subscription takes the oldest message.
Process(w) ==
  /\ queue # <<>>
  /\ processed' = processed \cup
       {[message |-> Head(queue), by |-> w, events |-> EventsOf(subs[w], Head(queue).update)]}
  /\ queue' = Tail(queue)
  /\ UNCHANGED <<subs, active, request, watching, received>>

Next ==
  \/ \E list \in Lists, filter \in Filters, watch \in BOOLEAN : Subscribe(list, filter, watch)
  \/ \E watch \in BOOLEAN : UpdateSubscription(watch)
  \/ Stop
  \/ \E update \in Updates : Receive(update)
  \/ \E w \in DOMAIN subs : Process(w)

Spec == Init /\ [][Next]_vars

(***************************************************************************)
(* Properties.                                                             *)
(***************************************************************************)

\* Types, and every message received is in the queue or processed.
TypeOK ==
  /\ \A s \in DOMAIN subs : subs[s].list \in Lists /\ subs[s].filter \in Filters
  /\ request \subseteq Classes
  /\ active => subs # <<>>
  /\ \A i \in DOMAIN queue : queue[i].update \in Updates /\ queue[i].from \in DOMAIN subs
  /\ Len(queue) + Cardinality(processed) = received

\* While a subscription lasts, and however often it was updated, the server has
\* been asked for every class of message that a wanted kind of event comes from;
\* for accounts, if the caller named any.
WantedIsAsked ==
  active => \A class \in Classes :
    /\ Asks(subs[Len(subs)].filter, class)
    /\ class = "account" => watching
    => class \in request

\* Whether a subscription wants a kind, by what the caller passed.
Wants(sub, kind) ==
  /\ Passes(sub.filter, kind)
  /\ kind \in BlockKinds \/ \E r \in AllParsers \cup AllAccounts :
       r.event = kind /\ \E i \in DOMAIN sub.list : sub.list[i] = r.program

\* A message processed by the thread of the subscription it was received for
\* gives the events wanted of it and no others, once each unless the caller
\* listed a protocol twice.  The filter in front (what is asked for) and the one
\* behind (which parsers there are) must agree: block metas have only the first.
OwnExact ==
  \A m \in processed :
    LET sub == subs[m.by] IN
    m.by = m.message.from =>
      /\ {e[1] : e \in m.events} = {kind \in m.message.update.kinds : Wants(sub, kind)}
      /\ \A e \in m.events :
           e[2] > 1 => \E i, j \in DOMAIN sub.list : i # j /\ sub.list[i] = sub.list[j]

\* In no subscription's tables is an instruction or an account taken for two of a
\* program's kinds: the discriminators of a program are not prefixes of each other,
\* though one program's have one byte and those of different programs coincide.
OneKindEach ==
  [][subs' # subs =>
       LET sub == subs'[Len(subs')] IN
       /\ \A p, q \in InstructionTable(sub) :
            p.program = q.program /\ DiscriminatorMatches(p.disc, q.disc) => p = q
       /\ \A a, b \in AccountTable(sub) :
            a.program = b.program /\ DiscriminatorMatches(a.disc, b.disc) => a = b]_vars

\* A message goes to the callback of the subscription it was received for.
CallbackIsOwn == \A m \in processed : m.by = m.message.from
=============================================================================
