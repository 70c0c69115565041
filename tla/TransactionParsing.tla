------------------------- MODULE TransactionParsing -------------------------
(***************************************************************************)
(* How a transaction becomes a series of events (traits.rs).  A task, that *)
(* is a processing thread or a spawned task of the event processor, walks  *)
(* the instructions of its transaction: those of a program it handles go   *)
(* to the parser that fits, and what the parser makes of them is completed *)
(* with a log found among the inner instructions, marked with what is      *)
(* known of the developers and handed to the callback.                     *)
(*                                                                         *)
(* A transaction comes from a block, with the keys of its lookup tables    *)
(* and its inner instructions (parse_transaction), or from a shred without *)
(* either (parse_versioned_transaction), and then its indices may name     *)
(* keys that are not there.                                                *)
(*                                                                         *)
(* Of an event only its kind, its keys, the people and amounts it names,   *)
(* the log it was completed with and its swap data are kept; times are     *)
(* left out.  The developer table is one set per platform and a step looks *)
(* at it or adds to it at once: its steps and its eviction are in          *)
(* GlobalState.                                                            *)
(***************************************************************************)
EXTENDS SwapData

CONSTANTS
  Tasks,       \* what parses transactions concurrently
  Txs,         \* transactions, full ones from blocks and others from shreds
  Batch,       \* a bound: how many of them one behaviour parses
  Programs,    \* the programs of the protocols subscribed to
  Kinds,       \* the kinds of events the subscriber's filter lets through, or all
  BotWallet,   \* the subscriber's own wallet
  IndexRange   \* how many values a u8 has

VARIABLES
  queue,       \* the transactions no task has taken yet
  tx,          \* the transaction of each task
  pc,          \* "idle", "parse", "merge", "callback" or "panicked"
  cursor,      \* where it is in the walk
  vec,         \* the account vector it resolves indices with
  found,       \* the parsers with an event of the current instruction to deliver
  ready,       \* the event about to be handed over
  devs,        \* the developers known, by platform
  begun,       \* history: how many events were delivered when it began
  sent,        \* history: where the events of its transaction came from
  delivered    \* history: the events handed to callbacks, in order

vars == <<queue, tx, pc, cursor, vec, found, ready, devs, begun, sent, delivered>>

(***************************************************************************)
(* The transaction.                                                        *)
(***************************************************************************)

Keys == DOMAIN ProgramOf
Bytes == 0 .. 255
Indices == 0 .. IndexRange - 1

\* An instruction: its program's index, the first and the number of its bytes, how
\* many of them are strings, and its accounts' indices; whom and which amounts its
\* data name, as which logs its data can be read and which direction of trade such a
\* log names.  The last four say what it did: of which inner instruction it is a log or
\* a transfer, and what that moved.
Instructions ==
  [prog : Indices, head : Seq(Bytes), bytes : Nat, text : Nat, accounts : Seq(Indices),
   user : Keys, creator : Keys, paid : Nat, got : Nat, spells : SUBSET {p.log : p \in AllParsers},
   direction : {"none", "buy", "sell"}, of : Nat, amount : Nat, role : {"none", "in", "out"}, mint : Keys]

Groups == [index : Nat, instructions : Seq(Instructions)]

Transactions ==
  [full : BOOLEAN, static : Seq(Keys), loaded : Seq(Keys),
   outer : Seq(Instructions), groups : Seq(Groups)]

\* Static keys, then those of the lookup tables: a shred has only the former.
Resolved(x) == x.static \o (IF x.full THEN x.loaded ELSE <<>>)

\* The filter takes parsers out of the table; the programs of a protocol stay, also
\* when none of its parsers is left.
Table == {p \in AllParsers : p.program \in Programs /\ p.event \in Kinds}

\* Half of the values of a u8: from there on an i8 is negative.
Half == IndexRange \div 2

\* No transaction has as many keys as an index has values (the runtime locks 128
\* accounts, a packet holds 38 keys), and the runtime has run the inner
\* instructions: their indices name keys of the transaction.  It runs 64
\* instructions at most, so that the place of one in its group fits into an i8, and
\* groups the inner ones by the outer one they belong to.
Wellformed(x) ==
  /\ x.groups = <<>> \/ Len(x.outer) <= IndexRange
  /\ \A g, h \in DOMAIN x.groups : x.groups[g].index = x.groups[h].index => g = h
  /\ Len(Resolved(x)) < IndexRange
  /\ \A g \in DOMAIN x.groups : Len(x.groups[g].instructions) < Half
  /\ \A g \in DOMAIN x.groups : \A j \in DOMAIN x.groups[g].instructions :
       LET instr == x.groups[g].instructions[j] IN
       /\ instr.prog < Len(Resolved(x))
       /\ \A i \in DOMAIN instr.accounts : instr.accounts[i] < Len(Resolved(x))

ASSUME RangeAssumption == IndexRange \in Nat \ {0, 1}
ASSUME TxsAssumption == /\ \A x \in Txs : x \in Transactions /\ Wellformed(x)
                        /\ None \notin Txs

\* The default key is the system program's, which no parser handles.
ASSUME KeysAssumption == Default \in Keys /\ ProgramOf[Default] \notin Programs

ASSUME NoneAssumption == None \notin [fromMint : Keys, toMint : Keys, paid : Nat, got : Nat]

\* should_handle, of the key at a zero-based index.
Handles(vector, idx) == idx < Len(vector) /\ ProgramOf[vector[idx + 1]] \in Programs

\* Mutant: only the static keys are looked at for a program.
HasProgramStatic(x) == \E i \in DOMAIN x.static : Handles(x.static, i - 1)

HasProgram(x) == \E i \in DOMAIN Resolved(x) : Handles(Resolved(x), i - 1)

First(indices) == CHOOSE i \in indices : \A k \in indices : i <= k

\* The elements of a sequence that are in a set, in their order: SelectSeq, as a
\* function that can be reasoned about.
Kept(s, S) ==
  LET kept[i \in 0 .. Len(s)] ==
        IF i = 0 THEN <<>> ELSE IF s[i] \in S THEN Append(kept[i - 1], s[i]) ELSE kept[i - 1]
  IN kept[Len(s)]

Position == [nth : Nat, inner : Nat]

\* A position is an outer instruction (inner = 0) or one of the nth inner group.
OuterWalk(x) == [i \in DOMAIN x.outer |-> [nth |-> i, inner |-> 0]]

InnerWalk(x) ==
  FlattenSeq([g \in DOMAIN x.groups |->
                [j \in DOMAIN x.groups[g].instructions |-> [nth |-> g, inner |-> j]]])

Walk(x) == (IF HasProgram(x) THEN OuterWalk(x) ELSE <<>>)
             \o (IF x.full THEN InnerWalk(x) ELSE <<>>)

InstructionAt(x, at) ==
  IF at.inner = 0 THEN x.outer[at.nth] ELSE x.groups[at.nth].instructions[at.inner]

\* The inner instructions a parser is given: for an outer instruction the first
\* group with the low byte of its index, for an inner one its own group, whole.
GroupAt(x, at) ==
  LET same == {g \in DOMAIN x.groups : x.groups[g].index = (at.nth - 1) % IndexRange}
  IN IF ~x.full THEN <<>>
     ELSE IF at.inner # 0 THEN x.groups[at.nth].instructions
     ELSE IF same = {} THEN <<>> ELSE x.groups[First(same)].instructions

(***************************************************************************)
(* Resolving accounts.                                                     *)
(***************************************************************************)

Largest(indices) == CHOOSE m \in {0} \cup {indices[i] : i \in DOMAIN indices} :
                      \A i \in DOMAIN indices : indices[i] <= m

\* Default keys are appended until there are as many keys as the largest index.
Padded(vector, indices) ==
  vector \o [i \in 1 .. (IF Largest(indices) > Len(vector)
                           THEN Largest(indices) - Len(vector) ELSE 0) |-> Default]

\* Mutant: an index may be the number of accounts.
ValidIndicesAtMost(indices, count) == \A i \in DOMAIN indices : indices[i] <= count % IndexRange

\* validate_account_indices_simd: the number of accounts is cast to a u8.
ValidIndices(indices, count) == \A i \in DOMAIN indices : indices[i] < count % IndexRange

\* build_account_pubkeys: an index past the end is passed over.
Named(vector, indices) ==
  LET inside == Kept(indices, 0 .. Len(vector) - 1)
  IN [i \in DOMAIN inside |-> vector[inside[i] + 1]]

(***************************************************************************)
(* Completing an event.                                                    *)
(***************************************************************************)

\* Layouts in which any bytes are a value: no flag, enum or string in them.
PlainLogs == {PumpFunMigrateLog, PumpSwapSellLog, PumpSwapCreatePoolLog,
              PumpSwapDepositLog, PumpSwapWithdrawLog}

\* The log parser gets all but the first 16 bytes of an inner instruction,
\* whatever these are; spells has the other layouts the bytes are a value of.
LayoutFits(parser, instr) ==
  /\ instr.bytes >= 16
  /\ Decodes(parser.log, instr.bytes - 16, instr.text)
  /\ parser.log \in PlainLogs \cup instr.spells

\* Bonk's parser refuses the log of a trade in the other direction than the event.
RightDirection(parser, instr) ==
  /\ parser.event \in BonkBuys => instr.direction = "buy"
  /\ parser.event \in BonkTrades \ BonkBuys => instr.direction = "sell"

LogDecodes(parser, instr) == LayoutFits(parser, instr) /\ RightDirection(parser, instr)

\* Mutant: a log is taken whichever direction it names.
LogForAnyDirection(parser, group) ==
  LET fits == {j \in DOMAIN group : LayoutFits(parser, group[j])}
  IN IF fits = {} THEN 0 ELSE First(fits)

\* The first inner instruction whose log decodes, 0 if none does.
LogFor(parser, group) ==
  LET fits == {j \in DOMAIN group : LogDecodes(parser, group[j])}
  IN IF fits = {} THEN 0 ELSE First(fits)

BonkLaunches == {"BonkInitialize", "BonkInitializeV2"}
Launches == {"PumpFunCreateToken"} \cup BonkLaunches

\* The people an instruction names, by the position its parser reads them from.
UserNamed(parser, named) ==
  CASE parser.event = "PumpFunCreateToken" -> named[8]
    [] parser.event \in PumpFunTrades      -> named[7]
    [] parser.event \in BonkTrades         -> named[1]
    [] OTHER                               -> Default

CreatorNamed(parser, instr, named) ==
  CASE parser.event = "PumpFunCreateToken" -> instr.creator
    [] parser.event \in BonkLaunches       -> named[2]
    [] OTHER                               -> Default

Event(parser, x, at, vector) ==
  LET instr == InstructionAt(x, at)
      named == Named(vector, instr.accounts)
  IN [kind |-> parser.event, program |-> parser.program, tx |-> x, at |-> at, keys |-> named,
      user |-> UserNamed(parser, named), creator |-> CreatorNamed(parser, instr, named),
      paid |-> instr.paid, got |-> instr.got, swap |-> None,
      log |-> 0, dev |-> FALSE, bot |-> FALSE]

\* merge: PumpFun's logs replace both people, Bonk's only the creator of a pool; the
\* amounts of a trade on pump.fun are the log's.
Merged(e, j, log) ==
  [e EXCEPT !.log = j,
            !.user = IF e.kind \in PumpFunTrades \cup {"PumpFunCreateToken"} THEN log.user ELSE @,
            !.creator = IF e.kind \in PumpFunTrades \cup Launches THEN log.creator ELSE @,
            !.paid = IF e.kind \in PumpFunTrades \cup PumpSwapTrades THEN log.paid ELSE @,
            !.got = IF e.kind \in PumpFunTrades \cup PumpSwapTrades THEN log.got ELSE @]

\* What an i8 makes of n, from -1 on: the bits are kept and read with a sign.
AsI8(n) == ((n + Half) % IndexRange) - Half

\* How many inner instructions are skipped: the zero-based place of an inner
\* instruction, -1 for an outer one, goes through an i8, and so does the place after it;
\* a negative one is as a usize past the end of every group.
Skipped(at, group) ==
  LET after == AsI8(AsI8(at.inner - 1) + 1) IN IF after < 0 THEN Len(group) ELSE after

\* Only an event with inner instructions has swap data, made before the log is
\* merged.
WithSwap(e, group, vector) ==
  IF group = <<>> THEN e
  ELSE [e EXCEPT !.swap = SwapOf(e.kind, e.keys, group, Skipped(e.at, group), vector)]

Completed(parser, x, at, vector) ==
  LET group == GroupAt(x, at)
      j == LogFor(parser, group)
      e == WithSwap(Event(parser, x, at, vector), group, vector)
  IN IF j = 0 THEN e ELSE Merged(e, j, group[j])

\* process_event: whom a creation makes a developer, whom a trade is looked up by.
Announced(e) ==
  CASE e.kind = "PumpFunCreateToken" -> {e.user} \cup ({e.creator} \ {Default})
    [] e.kind \in BonkLaunches       -> {e.creator}
    [] OTHER                         -> {}

LookedUp(e) ==
  CASE e.kind \in PumpFunTrades -> {e.user, e.creator}
    [] e.kind \in BonkTrades    -> {e.user}
    [] OTHER                    -> {}

\* The amounts of a trade on pump.fun are its own, not those of a transfer.
Priced(e) ==
  IF e.swap # None /\ e.kind \in PumpFunTrades \cup PumpSwapTrades
    THEN [e EXCEPT !.swap.paid = e.paid, !.swap.got = e.got]
    ELSE e

\* Mutant: only the user of a trade is looked up.
MarkedByUser(e, known) ==
  LET dev == LookedUp(e) # {} /\ e.user \in known
  IN [Priced(e) EXCEPT
        !.dev = dev,
        !.bot = e.kind \in PumpFunTrades \cup BonkTrades /\ ~dev /\ e.user = BotWallet]

Marked(e, known) ==
  LET dev == LookedUp(e) \cap known # {}
  IN [Priced(e) EXCEPT
        !.dev = dev,
        !.bot = e.kind \in PumpFunTrades \cup BonkTrades /\ ~dev /\ e.user = BotWallet]

(***************************************************************************)
(* The task.                                                               *)
(***************************************************************************)

Platforms == {"PumpFun", "Bonk"}
\* No event is about to be handed over.
NoEvent == [kind |-> "none"]

KnownOn(platform) == IF platform \in Platforms THEN devs[platform] ELSE {}

Init ==
  /\ queue \in {q \in SUBSET Txs : Cardinality(q) <= Batch}
  /\ tx = [t \in Tasks |-> None]
  /\ pc = [t \in Tasks |-> "idle"]
  /\ cursor = [t \in Tasks |-> 1]
  /\ vec = [t \in Tasks |-> <<>>]
  /\ found = [t \in Tasks |-> {}]
  /\ ready = [t \in Tasks |-> NoEvent]
  /\ devs = [p \in Platforms |-> {}]
  /\ begun = [t \in Tasks |-> 0]
  /\ sent = [t \in Tasks |-> <<>>]
  /\ delivered = <<>>

Begin(t, x) ==
  /\ pc[t] = "idle"
  /\ x \in queue
  /\ queue' = queue \ {x}
  /\ tx' = [tx EXCEPT ![t] = x]
  /\ pc' = [pc EXCEPT ![t] = "parse"]
  /\ cursor' = [cursor EXCEPT ![t] = 1]
  /\ vec' = [vec EXCEPT ![t] = Resolved(x)]
  /\ begun' = [begun EXCEPT ![t] = Len(delivered)]
  /\ sent' = [sent EXCEPT ![t] = <<>>]
  /\ UNCHANGED <<found, ready, devs, delivered>>

Here(t) == Walk(tx[t])[cursor[t]]
Current(t) == InstructionAt(tx[t], Here(t))

\* Mutant: the keys of the lookup tables are not there for inner instructions.
VectorStatic(t) ==
  IF Here(t).inner # 0 THEN tx[t].static ELSE Padded(vec[t], Current(t).accounts)

\* The vector the instruction is resolved with: padding stays for the outer
\* instructions that follow, the inner ones have the unpadded vector.
Vector(t) ==
  IF Here(t).inner # 0 THEN Resolved(tx[t])
  ELSE IF Handles(vec[t], Current(t).prog) THEN Padded(vec[t], Current(t).accounts)
  ELSE vec[t]

OutcomeOf(parser, instr, n) == Outcome(parser, instr.bytes - Len(parser.disc), n, instr.text)

\* The parsers of its program whose discriminator an instruction starts with.
Candidates(instr, vector) ==
  IF ~Handles(vector, instr.prog) \/ ~ValidIndices(instr.accounts, Len(vector)) THEN {}
  ELSE {p \in Table : /\ p.program = ProgramOf[vector[instr.prog + 1]]
                      /\ DiscriminatorMatches(instr.head, p.disc)}

\* Those of them that make something of it: "event", or "panic".
Giving(outcome, instr, vector) ==
  {p \in Candidates(instr, vector) :
     OutcomeOf(p, instr, Len(Named(vector, instr.accounts))) = outcome}

AtInstruction(t) == pc[t] = "parse" /\ cursor[t] <= Len(Walk(tx[t]))

\* An inner program index is used without a check, an outer one is not.
Panics(t) ==
  \/ Here(t).inner # 0 /\ Current(t).prog >= Len(Vector(t))
  \/ Giving("panic", Current(t), Vector(t)) # {}

Parse(t) ==
  LET results == Giving("event", Current(t), Vector(t)) IN
  /\ AtInstruction(t)
  /\ ~Panics(t)
  /\ vec' = [vec EXCEPT ![t] = Vector(t)]
  /\ found' = [found EXCEPT ![t] = results]
  /\ IF results = {}
       THEN cursor' = [cursor EXCEPT ![t] = @ + 1] /\ UNCHANGED pc
       ELSE pc' = [pc EXCEPT ![t] = "merge"] /\ UNCHANGED cursor
  /\ UNCHANGED <<queue, tx, ready, devs, begun, sent, delivered>>

\* The panic unwinds the task: nothing of this transaction is parsed any more.
ParsePanics(t) ==
  /\ AtInstruction(t)
  /\ Panics(t)
  /\ pc' = [pc EXCEPT ![t] = "panicked"]
  /\ UNCHANGED <<queue, tx, cursor, vec, found, ready, devs, begun, sent, delivered>>

\* Mutant of Merge: of a launch only the user becomes known, not the creator.
MergeForgetsCreator(t, parser) ==
  LET e == Completed(parser, tx[t], Here(t), vec[t]) IN
  /\ pc[t] = "merge"
  /\ ready' = [ready EXCEPT ![t] = Marked(e, KnownOn(e.program))]
  /\ devs' = [p \in Platforms |-> IF p = e.program THEN devs[p] \cup (Announced(e) \cap {e.user})
                                                   ELSE devs[p]]
  /\ found' = [found EXCEPT ![t] = @ \ {parser}]
  /\ pc' = [pc EXCEPT ![t] = "callback"]
  /\ UNCHANGED <<queue, tx, cursor, vec, begun, sent, delivered>>

\* The configurations come out of a HashMap: in any order.
Merge(t, parser) ==
  LET e == Completed(parser, tx[t], Here(t), vec[t]) IN
  /\ pc[t] = "merge"
  /\ ready' = [ready EXCEPT ![t] = Marked(e, KnownOn(e.program))]
  /\ devs' = [p \in Platforms |-> IF p = e.program THEN devs[p] \cup Announced(e) ELSE devs[p]]
  /\ found' = [found EXCEPT ![t] = @ \ {parser}]
  /\ pc' = [pc EXCEPT ![t] = "callback"]
  /\ UNCHANGED <<queue, tx, cursor, vec, begun, sent, delivered>>

Callback(t) ==
  /\ pc[t] = "callback"
  /\ delivered' = Append(delivered, [body |-> ready[t], task |-> t, begun |-> begun[t]])
  /\ sent' = [sent EXCEPT ![t] = Append(@, Here(t))]
  /\ ready' = [ready EXCEPT ![t] = NoEvent]
  /\ IF found[t] = {}
       THEN /\ pc' = [pc EXCEPT ![t] = "parse"]
            /\ cursor' = [cursor EXCEPT ![t] = @ + 1]
       ELSE /\ pc' = [pc EXCEPT ![t] = "merge"]
            /\ UNCHANGED cursor
  /\ UNCHANGED <<queue, tx, vec, found, devs, begun>>

Finish(t) ==
  /\ pc[t] = "parse"
  /\ cursor[t] > Len(Walk(tx[t]))
  /\ pc' = [pc EXCEPT ![t] = "idle"]
  /\ UNCHANGED <<queue, tx, cursor, vec, found, ready, devs, begun, sent, delivered>>

Next ==
  \E t \in Tasks :
    \/ \E x \in queue : Begin(t, x)
    \/ \E parser \in found[t] : Merge(t, parser)
    \/ Parse(t) \/ ParsePanics(t) \/ Callback(t) \/ Finish(t)

Spec == Init /\ [][Next]_vars

(***************************************************************************)
(* Properties.                                                             *)
(***************************************************************************)

Positions(x) == {Walk(x)[i] : i \in DOMAIN Walk(x)}

\* Types of the variables.
TypeOK ==
  /\ queue \subseteq Txs
  /\ tx \in [Tasks -> Txs \cup {None}]
  /\ pc \in [Tasks -> {"idle", "parse", "merge", "callback", "panicked"}]
  /\ cursor \in [Tasks -> Nat \ {0}]
  /\ vec \in [Tasks -> Seq(Keys)]
  /\ found \in [Tasks -> SUBSET Table]
  /\ DOMAIN ready = Tasks
  /\ devs \in [Platforms -> SUBSET Keys]
  /\ begun \in [Tasks -> 0 .. Len(delivered)]
  /\ sent \in [Tasks -> Seq(Position)]
  /\ delivered \in Seq({delivered[n] : n \in DOMAIN delivered})

\* Every event handed over, with the transaction it was made from.
Events == {delivered[n].body : n \in DOMAIN delivered}

\* The keys of an event are, one for one, those its instruction names; a key is
\* the default one exactly where the transaction does not have it.  Padding, the
\* validation and the filling of the account vector (traits.rs 114-134, 245-251)
\* must agree for that, or the keys after a missing one move up by a place.
KeysAreNamed ==
  \A e \in Events :
    LET indices == InstructionAt(e.tx, e.at).accounts IN
    /\ Len(e.keys) = Len(indices)
    /\ \A i \in DOMAIN indices :
         e.keys[i] = IF indices[i] < Len(Resolved(e.tx)) THEN Resolved(e.tx)[indices[i] + 1]
                                                         ELSE Default

\* Whether an instruction is one for a parser, said without the walk.
IsFor(x, instr, parser) ==
  /\ instr.prog < Len(Resolved(x))
  /\ parser.program = ProgramOf[Resolved(x)[instr.prog + 1]]
  /\ DiscriminatorMatches(instr.head, parser.disc)

\* Whether a parser makes an event of an instruction, given all its accounts.
Accepts(x, instr) ==
  \E p \in Table : IsFor(x, instr, p) /\ OutcomeOf(p, instr, Len(instr.accounts)) = "event"

Resolvable(x, at) ==
  LET indices == InstructionAt(x, at).accounts
  IN \A i \in DOMAIN indices : indices[i] < Len(Resolved(x))

AllPositions(x) == OuterWalk(x) \o (IF x.full THEN InnerWalk(x) ELSE <<>>)

Resolvables(x) == {at \in Position : Resolvable(x, at)}

Wanted(x) == Kept(AllPositions(x), {at \in Resolvables(x) : Accepts(x, InstructionAt(x, at))})

\* A transaction parsed to its end has given one event for every instruction,
\* outer ones first and then inner ones, whose accounts it has and that a parser
\* accepts; one whose parsing panicked has given the first of them.  Neither what
\* an earlier instruction padded nor another task is of any influence.
NothingMissed ==
  \A t \in Tasks : tx[t] # None =>
    LET got == Kept(sent[t], Resolvables(tx[t])) IN
    /\ IsPrefix(got, Wanted(tx[t]))
    /\ pc[t] = "idle" => got = Wanted(tx[t])

\* The logs of the transaction that decode as the one of an event's kind, among
\* the inner instructions of the outer instruction the event belongs to.
OuterIndex(e) == IF e.at.inner = 0 THEN e.at.nth - 1 ELSE e.tx.groups[e.at.nth].index

LogsFor(e) ==
  LET parser == CHOOSE p \in Table : p.event = e.kind
  IN UNION {{<<g, j>> : j \in {k \in DOMAIN e.tx.groups[g].instructions :
                                  LogDecodes(parser, e.tx.groups[g].instructions[k])}} :
              g \in {h \in DOMAIN e.tx.groups : e.tx.full /\ e.tx.groups[h].index = OuterIndex(e)}}

\* The outer instruction or inner instruction an inner one is the log of.
EmitterOf(e, log) == e.tx.groups[log[1]].instructions[log[2]].of

\* An event whose outer instruction left a single log of its kind is completed
\* with that log; without any it keeps what the instruction says.
LogWhenAlone ==
  \A e \in Events :
    /\ Cardinality(LogsFor(e)) = 1 =>
         \E log \in LogsFor(e) : /\ e.log = log[2]
                                 /\ EmitterOf(e, log) = e.at.inner
    /\ LogsFor(e) = {} => e.log = 0

\* What an instruction does that runs to its end: where a log that decodes as its
\* parser's is in its group, one is that it left itself.
LogsAreLeft ==
  \A x \in Txs : \A at \in Positions(x), p \in Table :
    LET group == GroupAt(x, at)
        logs == {j \in DOMAIN group : LogDecodes(p, group[j])}
    IN IsFor(x, InstructionAt(x, at), p) /\ logs # {} => \E j \in logs : group[j].of = at.inner

\* No event is completed with the log another instruction left.
LogIsOwn ==
  \A e \in Events :
    e.log # 0 => \E log \in LogsFor(e) : e.log = log[2] /\ EmitterOf(e, log) = e.at.inner

\* Whether a launch announced someone a trade is looked up by.
Tells(launch, trade) ==
  /\ launch.program = trade.program
  /\ Announced(launch) \cap LookedUp(trade) # {}

\* A trade by or of a developer whose launch was handed over before the trade's
\* transaction was begun, or by the same task, is marked as such; and a marked
\* trade has such a launch, handed over or about to be.
DevMarksExact ==
  \A n \in DOMAIN delivered :
    LET trade == delivered[n] IN
    /\ (\E m \in 1 .. n - 1 : /\ Tells(delivered[m].body, trade.body)
                              /\ m <= trade.begun \/ delivered[m].task = trade.task)
         => trade.body.dev
    /\ trade.body.dev =>
         \E e \in Events \cup ({ready[t] : t \in Tasks} \ {NoEvent}) : Tells(e, trade.body)

\* The transfers an event's own instruction made, by their places in its group.
OwnTransfers(e) ==
  LET group == GroupAt(e.tx, e.at)
  IN {i \in DOMAIN group : i # e.at.inner /\ group[i].of = e.at.inner
                            /\ IsSystem(group[i], Resolved(e.tx))}

\* Those that moved tokens into or out of the pool, and that the parser can read.
Moves(e, role) ==
  LET group == GroupAt(e.tx, e.at)
  IN {i \in OwnTransfers(e) : group[i].role = role /\ IsTransfer(group[i])}

\* Nothing comes between an event's instruction and the transfers it made.
TransfersFollow(e) ==
  \A i \in OwnTransfers(e) : (e.at.inner + 1) .. i \subseteq OwnTransfers(e)

\* One side of a trade is told as its own instruction's transfer tells it, in amount
\* and, unless the trade names no mints, in mint; and it is told if it can be.
SideTold(e, role, mint, amount) ==
  LET group == GroupAt(e.tx, e.at) IN
  /\ amount # 0 => \E i \in Moves(e, role) :
                     amount = group[i].amount /\ mint \in {Default, group[i].mint}
  /\ Moves(e, role) # {} /\ TransfersFollow(e) => amount # 0

\* The swap data of a trade is made of what its own instruction moved, also when
\* several trades share a group, one of them goes back through the same pool, or
\* a transfer with a fee, which the parser cannot read, comes in between.
SwapIsOwn ==
  \A e \in Events : e.kind \in PoolTrades =>
    IF e.swap = None
      THEN TransfersFollow(e) => Moves(e, "in") \cup Moves(e, "out") = {}
      ELSE /\ SideTold(e, "in", e.swap.fromMint, e.swap.paid)
           /\ SideTold(e, "out", e.swap.toMint, e.swap.got)

\* The keys an instruction names, default ones for those the transaction has not.
KeysOf(x, at) ==
  LET indices == InstructionAt(x, at).accounts
  IN [i \in DOMAIN indices |->
        IF indices[i] < Len(Resolved(x)) THEN Resolved(x)[indices[i] + 1] ELSE Default]

\* For which side of a trade the parser takes a transfer, and whose mint it says.
TakenFor(e, i) ==
  LET a == Side(e.kind, e.keys, 1)
      b == Side(e.kind, e.keys, 2)
      instr == GroupAt(e.tx, e.at)[i]
      from == Source(instr, Resolved(e.tx))
      to == Destination(instr, Resolved(e.tx))
  IN IF <<from, to>> \in PaysIn(a, b)
       THEN [role |-> "in", mint |-> IF from = b.user THEN b.mint ELSE a.mint]
     ELSE IF <<from, to>> \in PaysOut(a, b)
       THEN [role |-> "out", mint |-> IF to = a.user THEN a.mint ELSE b.mint]
     ELSE [role |-> "none", mint |-> Default]

\* What an instruction of a pool does that runs to its end: it moves tokens between
\* the accounts it names, after it has begun; and what else follows it directly moves
\* none between them.
TransfersAreMade ==
  \A x \in Txs : \A at \in Positions(x), p \in Table :
    LET e == [kind |-> p.event, tx |-> x, at |-> at, keys |-> KeysOf(x, at)]
        group == GroupAt(x, at)
        own == OwnTransfers(e)
        after == {i \in DOMAIN group : i > at.inner /\ \A k \in at.inner + 1 .. i :
                                                      IsSystem(group[k], Resolved(x))}
    IN p.event \in PoolTrades /\ IsFor(x, InstructionAt(x, at), p) =>
         /\ \A i \in own : i > at.inner
         /\ \A i \in own \cup after : IsTransfer(group[i]) =>
              /\ TakenFor(e, i).role = IF i \in own THEN group[i].role ELSE "none"
              /\ TakenFor(e, i).role # "none" => /\ group[i].amount # 0
                                                 /\ TakenFor(e, i).mint \in {Default, group[i].mint}

\* A task panics only where a parser's guard asks for fewer accounts or less data
\* than the parser then reads.
UnderGuarded ==
  {"PumpFunCreateToken", "PumpFunBuy", "PumpFunSell", "PumpSwapBuy", "PumpSwapSell",
   "BonkInitialize", "BonkInitializeV2", "BonkMigrateToAmm", "BonkMigrateToCpswap"}

PanicOnlyUnderGuarded ==
  \A t \in Tasks : pc[t] = "panicked" =>
    \E p \in Table :
      p.event \in UnderGuarded /\ DiscriminatorMatches(Current(t).head, p.disc)

(***************************************************************************)
(* The inductive invariant behind these.                                   *)
(***************************************************************************)

\* Where in the walk a task can be, by what it is doing.
WalkOK ==
  \A t \in Tasks :
    /\ pc[t] # "idle" => tx[t] # None
    /\ tx[t] # None =>
         /\ cursor[t] <= Len(Walk(tx[t])) + 1
         /\ pc[t] = "idle" => cursor[t] = Len(Walk(tx[t])) + 1
         /\ pc[t] \in {"merge", "callback", "panicked"} => cursor[t] <= Len(Walk(tx[t]))

\* The vector of a task is the keys of its transaction and then default keys; these
\* never make it longer than an index can reach.
VectorOK ==
  \A t \in Tasks : tx[t] # None =>
    LET keys == Resolved(tx[t]) IN
    /\ Len(keys) <= Len(vec[t])
    /\ Len(vec[t]) < IndexRange
    /\ \A i \in DOMAIN vec[t] : vec[t][i] = IF i <= Len(keys) THEN keys[i] ELSE Default

\* What an event says of where it comes from, and what was read there.
Genuine(e) ==
  LET group == GroupAt(e.tx, e.at) IN
  /\ e.tx \in Txs /\ e.at \in Positions(e.tx)
  /\ \E p \in Table : /\ e.kind = p.event /\ e.program = p.program
                      /\ IsFor(e.tx, InstructionAt(e.tx, e.at), p)
                      /\ e.log = LogFor(p, group)
  /\ e.keys = KeysOf(e.tx, e.at)
  /\ e.kind \in PoolTrades =>
       e.swap = IF group = <<>> THEN None
                ELSE SwapOf(e.kind, e.keys, group, e.at.inner, Resolved(e.tx))

\* An instruction has one parser, which then gives one event and leaves none.
OneEventEach ==
  \A t \in Tasks :
    /\ pc[t] \in {"merge", "callback"} => Giving("event", Current(t), vec[t]) # {}
    /\ IF pc[t] = "merge" THEN \E p \in Giving("event", Current(t), vec[t]) : found[t] = {p}
                          ELSE found[t] = {}
    /\ IF pc[t] = "callback" THEN Genuine(ready[t]) ELSE ready[t] = NoEvent

Known == Events \cup ({ready[t] : t \in Tasks} \ {NoEvent})

\* A developer is known from some launch, and every launch handed over or about to
\* be made its people known; what is about to be is marked as DevMarksExact has it.
DevsOK ==
  /\ \A e \in Known : Genuine(e) /\ (e.program \in Platforms => Announced(e) \subseteq devs[e.program])
  /\ \A p \in Platforms : \A d \in devs[p] : \E e \in Known : e.program = p /\ d \in Announced(e)
  /\ \A t \in Tasks : pc[t] = "callback" =>
       /\ (\E m \in DOMAIN delivered : /\ Tells(delivered[m].body, ready[t])
                                       /\ m <= begun[t] \/ delivered[m].task = t) => ready[t].dev
       /\ ready[t].dev => \E e \in Known : Tells(e, ready[t])

\* What a task has sent of what there is to be found in the part it has walked.
SentOK ==
  \A t \in Tasks : tx[t] # None =>
    Kept(sent[t], Resolvables(tx[t]))
      = Kept(SubSeq(Walk(tx[t]), 1, cursor[t] - 1),
             {at \in Resolvables(tx[t]) : Accepts(tx[t], InstructionAt(tx[t], at))})

\* These together are kept by every step.
IInv ==
  /\ TypeOK
  /\ WalkOK
  /\ VectorOK
  /\ OneEventEach
  /\ DevsOK
  /\ DevMarksExact
  /\ SentOK
  /\ PanicOnlyUnderGuarded
=============================================================================
