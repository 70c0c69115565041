------------------------ MODULE EventSelectionProofs ------------------------
(***************************************************************************)
(* What TLAPS proves of EventSelection, for any lists, filters, messages   *)
(* and bounds: what is asked for, what is given, and that the parsers of a *)
(* subscription tell apart what they are for.                              *)
(***************************************************************************)
EXTENDS EventSelection, FiniteSetTheorems, TLAPS

(***************************************************************************)
(* The request.                                                            *)
(***************************************************************************)

\* The subscriptions are a sequence, and not the empty one while one is active.
SubsOK ==
  /\ subs \in Seq([list : Lists, filter : Filters])
  /\ active => subs # <<>>

LEMMA SubsOKInit == Init => SubsOK
  BY DEF Init, SubsOK

LEMMA SubsOKNext == SubsOK /\ [Next]_vars => SubsOK'
<1> SUFFICES ASSUME SubsOK, [Next]_vars PROVE SubsOK'
  OBVIOUS
<1>1. ASSUME NEW list \in Lists, NEW filter \in Filters, NEW watch \in BOOLEAN,
             Subscribe(list, filter, watch)
      PROVE  SubsOK'
  <2>1. [list |-> list, filter |-> filter] \in [list : Lists, filter : Filters]
    OBVIOUS
  <2>2. QED BY <1>1, <2>1 DEF Subscribe, SubsOK
<1>2. CASE Stop
  BY <1>2 DEF Stop, SubsOK
<1>3. CASE UNCHANGED <<subs, active>>
  BY <1>3 DEF SubsOK
<1>4. QED
  BY <1>1, <1>2, <1>3 DEF Next, vars, UpdateSubscription, Receive, Process

\* What a request for no filter at all asks for.
LEMMA NoFilterAsksAll == \A class : Asks(NoFilter, class)
  BY DEF Asks

\* The request of a subscription that was just made has every class it wants.
LEMMA FirstRequest ==
  ASSUME NEW filter, NEW watch \in BOOLEAN, NEW class \in Classes,
         Asks(filter, class), class = "account" => watch
  PROVE  class \in TransactionFilter(filter) \cup AccountFilter(filter, watch) \cup BlocksMeta(filter)
  BY DEF Classes, TransactionFilter, AccountFilter, BlocksMeta

LEMMA WantedNext == SubsOK /\ WantedIsAsked /\ [Next]_vars => WantedIsAsked'
<1> SUFFICES ASSUME SubsOK, WantedIsAsked, [Next]_vars PROVE WantedIsAsked'
  OBVIOUS
<1>1. ASSUME NEW list \in Lists, NEW filter \in Filters, NEW watch \in BOOLEAN,
             Subscribe(list, filter, watch)
      PROVE  WantedIsAsked'
  <2>1. subs'[Len(subs')].filter = filter
    BY <1>1 DEF Subscribe, SubsOK
  <2>2. QED BY <1>1, <2>1, FirstRequest DEF Subscribe, WantedIsAsked
<1>2. ASSUME NEW watch \in BOOLEAN, UpdateSubscription(watch) PROVE WantedIsAsked'
  <2> SUFFICES ASSUME NEW class \in Classes,
                      Asks(subs[Len(subs)].filter, class), class = "account" => watch
               PROVE  class \in request'
    BY <1>2 DEF UpdateSubscription, WantedIsAsked
  <2>1. CASE class = "block"
    BY <1>2, <2>1 DEF UpdateSubscription, WantedIsAsked
  <2>2. CASE class # "block"
    BY <1>2, <2>2, NoFilterAsksAll
       DEF UpdateSubscription, Classes, TransactionFilter, AccountFilter
  <2>3. QED BY <2>1, <2>2
<1>3. CASE Stop
  BY <1>3 DEF Stop, WantedIsAsked
<1>4. ASSUME UNCHANGED <<subs, active, request, watching>> PROVE WantedIsAsked'
  BY <1>4 DEF WantedIsAsked
<1>5. QED
  BY <1>1, <1>2, <1>3, <1>4 DEF Next, vars, Receive, Process

\* While a subscription lasts the server has been asked for every class of
\* message that a wanted kind comes from: subscribe builds the request from the
\* filter, update_subscription asks for more and keeps the block metas.
THEOREM RequestCoversFilter == Spec => []WantedIsAsked
<1>1. Init => SubsOK /\ WantedIsAsked
  BY SubsOKInit DEF Init, WantedIsAsked
<1>2. SubsOK /\ WantedIsAsked /\ [Next]_vars => (SubsOK /\ WantedIsAsked)'
  BY SubsOKNext, WantedNext
<1>3. QED BY <1>1, <1>2, PTL DEF Spec

(***************************************************************************)
(* What a subscription's own messages give.                                *)
(***************************************************************************)

\* The kinds of events that accounts give, by name.
AccountNames ==
  {"AccountPumpSwapGlobalConfig", "AccountPumpSwapPool",
   "AccountPumpFunBondingCurve", "AccountPumpFunGlobal", "AccountBonkPoolState",
   "AccountBonkGlobalConfig", "AccountBonkPlatformConfig",
   "AccountRaydiumCpmmAmmConfig", "AccountRaydiumCpmmPoolState",
   "AccountRaydiumClmmAmmConfig", "AccountRaydiumClmmPoolState",
   "AccountRaydiumClmmTickArrayState", "AccountRaydiumAmmV4AmmInfo",
   "AccountBonkVestingRecord"}

LEMMA AccountKindsNamed == AccountKinds \subseteq AccountNames
<1> SUFFICES ASSUME NEW protocol \in Protocols, NEW i \in DOMAIN AccountsOf(protocol)
             PROVE  AccountsOf(protocol)[i].event \in AccountNames
  BY DEF AccountKinds, AllAccounts, AccountNames
<1> USE DEF AccountsOf, Account, AccountNames
<1>1. CASE protocol = "PumpFun"
  BY <1>1 DEF AccountPumpFunBondingCurve, AccountPumpFunGlobal
<1>2. CASE protocol = "PumpSwap"
  BY <1>2 DEF AccountPumpSwapGlobalConfig, AccountPumpSwapPool
<1>3. CASE protocol = "Bonk"
  BY <1>3 DEF AccountBonkPoolState, AccountBonkGlobalConfig, AccountBonkPlatformConfig
<1>4. CASE protocol = "Cpmm"
  BY <1>4 DEF AccountRaydiumCpmmAmmConfig, AccountRaydiumCpmmPoolState
<1>5. CASE protocol = "Clmm"
  BY <1>5 DEF AccountRaydiumClmmAmmConfig, AccountRaydiumClmmPoolState,
         AccountRaydiumClmmTickArrayState
<1>6. CASE protocol = "AmmV4"
  BY <1>6 DEF AccountRaydiumAmmV4AmmInfo
<1>7. QED
  BY <1>1, <1>2, <1>3, <1>4, <1>5, <1>6 DEF Protocols

\* No instruction is parsed to a kind of event that an account gives.
LEMMA KindsApart == \A p \in AllParsers : p.event \notin AccountKinds
<1> SUFFICES ASSUME NEW protocol \in Protocols, NEW i \in DOMAIN ParsersOf(protocol)
             PROVE  ParsersOf(protocol)[i].event \notin AccountNames
  BY AccountKindsNamed DEF AllParsers
<1> USE DEF ParsersOf, Parser, AccountNames
<1>1. CASE protocol = "PumpFun"
  <2>1. PumpFunCreateToken.event = "PumpFunCreateToken"
    BY DEF PumpFunCreateToken
  <2>2. PumpFunBuy.event = "PumpFunBuy"
    BY DEF PumpFunBuy
  <2>3. PumpFunSell.event = "PumpFunSell"
    BY DEF PumpFunSell
  <2>4. PumpFunMigrate.event = "PumpFunMigrate"
    BY DEF PumpFunMigrate
  <2>5. QED
    BY <1>1, <2>1, <2>2, <2>3, <2>4 DEF PumpFunParsers
<1>2. CASE protocol = "PumpSwap"
  BY <1>2 DEF PumpSwapParsers, PumpSwapBuy, PumpSwapSell, PumpSwapCreatePool,
         PumpSwapDeposit, PumpSwapWithdraw
<1>3. CASE protocol = "Bonk"
  <2>1. BonkBuyExactIn.event = "BonkBuyExactIn"
    BY DEF BonkBuyExactIn
  <2>2. BonkBuyExactOut.event = "BonkBuyExactOut"
    BY DEF BonkBuyExactOut
  <2>3. BonkSellExactIn.event = "BonkSellExactIn"
    BY DEF BonkSellExactIn
  <2>4. BonkSellExactOut.event = "BonkSellExactOut"
    BY DEF BonkSellExactOut
  <2>5. BonkInitialize.event = "BonkInitialize"
    BY DEF BonkInitialize
  <2>6. BonkInitializeV2.event = "BonkInitializeV2"
    BY DEF BonkInitializeV2
  <2>7. BonkMigrateToAmm.event = "BonkMigrateToAmm"
    BY DEF BonkMigrateToAmm
  <2>8. BonkMigrateToCpswap.event = "BonkMigrateToCpswap"
    BY DEF BonkMigrateToCpswap
  <2>9. QED
    BY <1>3, <2>1, <2>2, <2>3, <2>4, <2>5, <2>6, <2>7, <2>8 DEF BonkParsers
<1>4. CASE protocol = "Cpmm"
  BY <1>4 DEF CpmmParsers, CpmmSwapBaseInput, CpmmSwapBaseOutput, CpmmDeposit,
         CpmmInitialize, CpmmWithdraw
<1>5. CASE protocol = "Clmm"
  BY <1>5 DEF ClmmParsers, ClmmSwap, ClmmSwapV2, ClmmClosePosition,
         ClmmDecreaseLiquidityV2, ClmmCreatePool, ClmmIncreaseLiquidityV2,
         ClmmOpenPositionWithToken22Nft, ClmmOpenPositionV2
<1>6. CASE protocol = "AmmV4"
  BY <1>6 DEF AmmV4Parsers, AmmV4SwapBaseInput, AmmV4SwapBaseOutput, AmmV4Deposit,
         AmmV4Initialize2, AmmV4Withdraw, AmmV4WithdrawPnl
<1>7. QED
  BY <1>1, <1>2, <1>3, <1>4, <1>5, <1>6 DEF Protocols

LEMMA BlockApart == \A kind \in AccountKinds : kind \notin BlockKinds
  BY AccountKindsNamed DEF AccountNames, BlockKinds

\* A protocol occurs in a list if it is there, and twice only if it is there twice.
LEMMA OccurrencesCount ==
  ASSUME NEW list \in Seq(Protocols), NEW protocol
  PROVE  /\ Occurrences(list, protocol) \in Nat
         /\ Occurrences(list, protocol) > 0 <=> \E i \in DOMAIN list : list[i] = protocol
         /\ Occurrences(list, protocol) > 1 =>
              \E i, j \in DOMAIN list : i # j /\ list[i] = protocol /\ list[j] = protocol
<1> DEFINE Places == {i \in DOMAIN list : list[i] = protocol}
<1>1. IsFiniteSet(Places) /\ Cardinality(Places) \in Nat
  <2>1. IsFiniteSet(1 .. Len(list))
    BY FS_Interval
  <2>2. Places \subseteq 1 .. Len(list)
    OBVIOUS
  <2>3. QED
    BY <2>1, <2>2, FS_Subset, FS_CardinalityType
<1>2. Cardinality(Places) = 0 <=> Places = {}
  BY <1>1, FS_EmptySet
<1>3. ASSUME Cardinality(Places) > 1
      PROVE  \E i, j \in Places : i # j
  <2>1. PICK i \in Places : TRUE
    BY <1>1, <1>2, <1>3
  <2>2. Places # {i}
    <3>1. Cardinality({i}) = 1
      BY FS_Singleton
    <3> HIDE DEF Places
    <3>2. ASSUME Places = {i}
          PROVE  Cardinality(Places) = 1
      BY <3>1, <3>2, Zenon
    <3>3. QED
      BY <1>3, <3>2
  <2>3. QED
    BY <2>1, <2>2
<1>4. Occurrences(list, protocol) = Cardinality(Places)
  BY DEF Occurrences
<1>5. Occurrences(list, protocol) > 0 <=> Places # {}
  BY <1>1, <1>2, <1>4
<1>6. QED
  BY <1>1, <1>3, <1>4, <1>5

\* The subscriptions that can be made.
SubsMade == [list : Lists, filter : Filters]

\* A message gives a subscription exactly the events wanted of it, if block metas
\* come only to those who asked for them.
LEMMA EventsExact ==
  ASSUME NEW sub \in SubsMade, NEW update \in Updates,
         update.class = "block" => Asks(sub.filter, "block")
  PROVE  /\ {e[1] : e \in EventsOf(sub, update)} = {kind \in update.kinds : Wants(sub, kind)}
         /\ \A e \in EventsOf(sub, update) :
              e[2] > 1 => \E i, j \in DOMAIN sub.list : i # j /\ sub.list[i] = sub.list[j]
<1>1. sub.list \in Seq(Protocols)
  BY ListsAssumption DEF SubsMade
<1>2. \A protocol : Occurrences(sub.list, protocol) > 0 <=>
                      \E i \in DOMAIN sub.list : sub.list[i] = protocol
  BY <1>1, OccurrencesCount
<1>3. \A protocol : Occurrences(sub.list, protocol) > 1 =>
                      \E i, j \in DOMAIN sub.list : i # j /\ sub.list[i] = sub.list[j]
  BY <1>1, OccurrencesCount
<1> HIDE DEF Occurrences
<1>4. CASE update.class = "transaction"
  <2>1. EventsOf(sub, update) = InstructionEvents(sub, update.kinds)
    BY <1>4 DEF EventsOf
  <2>2. \A kind \in update.kinds : kind \notin AccountKinds /\ kind \notin BlockKinds
    BY <1>4, UpdatesAssumption DEF Holds
  <2>3. ASSUME NEW kind \in update.kinds
        PROVE  Wants(sub, kind) <=> \E p \in InstructionTable(sub) : p.event = kind
    <3>1. \A a \in AllAccounts : a.event # kind
      BY <2>2 DEF AccountKinds
    <3>2. QED
      BY <1>2, <2>2, <3>1 DEF Wants, InstructionTable
  <2>4. {e[1] : e \in EventsOf(sub, update)}
          = {kind \in update.kinds : \E p \in InstructionTable(sub) : p.event = kind}
    <3>1. \A p \in InstructionTable(sub) : p.event \in update.kinds =>
            \E e \in EventsOf(sub, update) : e[1] = p.event
      <4>1. ASSUME NEW p \in InstructionTable(sub), p.event \in update.kinds
            PROVE  <<p.event, Occurrences(sub.list, p.program)>> \in EventsOf(sub, update)
        BY <2>1, <4>1 DEF InstructionEvents
      <4>2. QED
        BY <4>1
    <3>2. \A e \in EventsOf(sub, update) :
            \E p \in InstructionTable(sub) : p.event = e[1] /\ e[1] \in update.kinds
      BY <2>1 DEF InstructionEvents
    <3>3. QED
      BY <3>1, <3>2
  <2>5. \A e \in EventsOf(sub, update) :
          \E p \in InstructionTable(sub) : e[2] = Occurrences(sub.list, p.program)
    BY <2>1 DEF InstructionEvents
  <2>6. QED
    BY <1>3, <2>3, <2>4, <2>5
<1>5. CASE update.class = "account"
  <2>1. EventsOf(sub, update) = AccountEvents(sub, update.kinds)
    BY <1>5 DEF EventsOf
  <2>2. \A kind \in update.kinds : kind \in AccountKinds
    BY <1>5, UpdatesAssumption DEF Holds
  <2>3. ASSUME NEW kind \in update.kinds
        PROVE  Wants(sub, kind) <=> \E a \in AccountTable(sub) : a.event = kind
    <3>1. \A p \in AllParsers : p.event # kind
      BY <2>2, KindsApart
    <3>2. kind \notin BlockKinds
      BY <2>2, BlockApart
    <3>3. QED
      BY <1>2, <3>1, <3>2 DEF Wants, AccountTable
  <2>4. {e[1] : e \in EventsOf(sub, update)}
          = {kind \in update.kinds : \E a \in AccountTable(sub) : a.event = kind}
    <3>1. \A a \in AccountTable(sub) : a.event \in update.kinds =>
            \E e \in EventsOf(sub, update) : e[1] = a.event
      <4>1. ASSUME NEW a \in AccountTable(sub), a.event \in update.kinds
            PROVE  <<a.event, 1>> \in EventsOf(sub, update)
        BY <2>1, <4>1 DEF AccountEvents
      <4>2. QED
        BY <4>1
    <3>2. \A e \in EventsOf(sub, update) :
            \E a \in AccountTable(sub) : a.event = e[1] /\ e[1] \in update.kinds
      BY <2>1 DEF AccountEvents
    <3>3. QED
      BY <3>1, <3>2
  <2>5. \A e \in EventsOf(sub, update) : e[2] = 1
    BY <2>1 DEF AccountEvents
  <2>6. QED
    BY <2>3, <2>4, <2>5
<1>6. CASE update.class = "block"
  <2>1. EventsOf(sub, update) = {<<"BlockMeta", 1>>}
    BY <1>6 DEF EventsOf
  <2>2. update.kinds = {"BlockMeta"}
    BY <1>6, UpdatesAssumption DEF Holds
  <2>3. Wants(sub, "BlockMeta")
    BY <1>6 DEF Wants, Asks, Passes, Includes, BlockKinds
  <2>4. QED
    BY <2>1, <2>2, <2>3
<1>7. QED
  BY <1>4, <1>5, <1>6, UpdatesAssumption DEF Classes

\* A message that waits or was processed is one the subscription it was received for
\* has asked for, as far as block metas go: nothing behind the request filters them.
Answers(message) ==
  /\ message.update \in Updates
  /\ message.from \in DOMAIN subs
  /\ message.update.class = "block" => Asks(subs[message.from].filter, "block")

ExactInv ==
  /\ SubsOK
  /\ active /\ "block" \in request => Asks(subs[Len(subs)].filter, "block")
  /\ queue \in Seq([n : Nat, update : Updates, from : Nat])
  /\ received \in Nat
  /\ \A i \in DOMAIN queue : Answers(queue[i])
  /\ \A m \in processed :
       /\ Answers(m.message)
       /\ m.by \in DOMAIN subs
       /\ m.events = EventsOf(subs[m.by], m.message.update)

LEMMA ExactStep == ExactInv /\ [Next]_vars => ExactInv'
<1> SUFFICES ASSUME ExactInv, [Next]_vars PROVE ExactInv'
  OBVIOUS
<1>0. SubsOK'
  BY SubsOKNext DEF ExactInv
<1>1. ASSUME NEW list \in Lists, NEW filter \in Filters, NEW watch \in BOOLEAN,
             Subscribe(list, filter, watch)
      PROVE  ExactInv'
  <2>1. /\ subs'[Len(subs')].filter = filter
        /\ \A s \in DOMAIN subs : s \in DOMAIN subs' /\ subs'[s] = subs[s]
    BY <1>1 DEF Subscribe, ExactInv, SubsOK
  <2>2. "block" \in request' => Asks(filter, "block")
    BY <1>1 DEF Subscribe, TransactionFilter, AccountFilter, BlocksMeta
  <2>3. QED
    BY <1>0, <1>1, <2>1, <2>2 DEF Subscribe, ExactInv, Answers
<1>2. ASSUME NEW watch \in BOOLEAN, UpdateSubscription(watch)
      PROVE  ExactInv'
  <2>1. "block" \in request' => "block" \in request
    BY <1>2 DEF UpdateSubscription, TransactionFilter, AccountFilter
  <2>2. QED
    BY <1>0, <1>2, <2>1 DEF UpdateSubscription, ExactInv, Answers
<1>3. CASE Stop
  BY <1>0, <1>3 DEF Stop, ExactInv, Answers
<1>4. ASSUME NEW update \in Updates, Receive(update)
      PROVE  ExactInv'
  <2> DEFINE message == [n |-> received + 1, update |-> update, from |-> Len(subs)]
  <2>1. queue' = Append(queue, message) /\ UNCHANGED <<subs, active, request, processed>>
    BY <1>4 DEF Receive
  <2>2. Len(subs) \in DOMAIN subs /\ Len(subs) \in Nat
    BY <1>4 DEF Receive, ExactInv, SubsOK
  <2>3. message \in [n : Nat, update : Updates, from : Nat]
    BY <2>2 DEF ExactInv
  <2>4. Answers(message)
    BY <1>4, <2>2 DEF Receive, Answers, ExactInv
  <2>5. \A i \in DOMAIN queue' : queue'[i] = message \/ (i \in DOMAIN queue /\ queue'[i] = queue[i])
    BY <2>1, <2>3 DEF ExactInv
  <2>6. queue' \in Seq([n : Nat, update : Updates, from : Nat]) /\ received' \in Nat
    BY <1>4, <2>1, <2>3 DEF ExactInv, Receive
  <2> HIDE DEF message
  <2>7. \A i \in DOMAIN queue' : Answers(queue'[i])
    BY <2>4, <2>5 DEF ExactInv
  <2>8. QED
    BY <1>0, <2>1, <2>6, <2>7 DEF ExactInv, Answers
<1>5. ASSUME NEW w \in DOMAIN subs, Process(w)
      PROVE  ExactInv'
  <2> DEFINE new == [message |-> Head(queue), by |-> w,
                     events |-> EventsOf(subs[w], Head(queue).update)]
  <2>1. /\ UNCHANGED <<subs, active, request, received>>
        /\ processed' = processed \cup {new}
        /\ queue' = Tail(queue) /\ queue # <<>>
    BY <1>5 DEF Process
  <2>2. Head(queue) = queue[1] /\ 1 \in DOMAIN queue
    BY <2>1 DEF ExactInv
  <2>3. /\ queue' \in Seq([n : Nat, update : Updates, from : Nat])
        /\ \A i \in DOMAIN queue' : i + 1 \in DOMAIN queue /\ queue'[i] = queue[i + 1]
    BY <2>1 DEF ExactInv
  <2>4. Answers(Head(queue))
    BY <2>2 DEF ExactInv
  <2>5. \A i \in DOMAIN queue' : Answers(queue'[i])
    BY <2>3 DEF ExactInv
  <2>6. \A m \in processed' : /\ Answers(m.message)
                              /\ m.by \in DOMAIN subs
                              /\ m.events = EventsOf(subs[m.by], m.message.update)
    BY <2>1, <2>4 DEF ExactInv
  <2> HIDE DEF new
  <2>7. QED
    BY <1>0, <2>1, <2>3, <2>5, <2>6 DEF ExactInv, Answers
<1>6. CASE UNCHANGED vars
  BY <1>0, <1>6 DEF vars, ExactInv, Answers
<1>7. QED
  BY <1>1, <1>2, <1>3, <1>4, <1>5, <1>6 DEF Next

\* A message gives its own subscription exactly the events wanted of it, once each
\* unless a protocol was listed twice: the filter before the server and the parsers
\* behind it agree, whatever lists and filters are passed.
THEOREM OwnIsExact == Spec => []OwnExact
<1>1. Init => ExactInv
  BY SubsOKInit DEF Init, ExactInv
<1>2. ExactInv => OwnExact
  <2> SUFFICES ASSUME ExactInv, NEW m \in processed, m.by = m.message.from
               PROVE  /\ {e[1] : e \in m.events}
                           = {kind \in m.message.update.kinds : Wants(subs[m.by], kind)}
                      /\ \A e \in m.events :
                           e[2] > 1 => \E i, j \in DOMAIN subs[m.by].list :
                                         i # j /\ subs[m.by].list[i] = subs[m.by].list[j]
    BY DEF OwnExact
  <2>0. subs[m.by] \in SubsMade
    <3>1. subs \in Seq(SubsMade) /\ m.by \in DOMAIN subs
      BY DEF ExactInv, SubsOK, SubsMade
    <3>2. QED
      BY <3>1
  <2>1. /\ m.message.update \in Updates
        /\ m.events = EventsOf(subs[m.by], m.message.update)
        /\ m.message.update.class = "block" => Asks(subs[m.by].filter, "block")
    BY DEF ExactInv, Answers
  <2>2. QED
    BY <2>0, <2>1, EventsExact
<1>3. QED
  BY <1>1, <1>2, ExactStep, PTL DEF Spec

(***************************************************************************)
(* The messages.                                                           *)
(***************************************************************************)

\* Messages are numbered as they come; those that wait have the last numbers, in
\* order, and those processed the others, each once.
NumbersOK ==
  /\ request \subseteq Classes
  /\ \A i \in DOMAIN queue : queue[i].n = (received - Len(queue)) + i
  /\ \A m \in processed : m.message.n \in Nat /\ m.message.n <= received - Len(queue)
  /\ IsFiniteSet(processed) /\ Cardinality(processed) = received - Len(queue)

LEMMA NumbersStep == ExactInv /\ NumbersOK /\ [Next]_vars => NumbersOK'
<1> SUFFICES ASSUME ExactInv, NumbersOK, [Next]_vars PROVE NumbersOK'
  OBVIOUS
<1>1. ASSUME NEW list \in Lists, NEW filter \in Filters, NEW watch \in BOOLEAN,
             Subscribe(list, filter, watch)
      PROVE  NumbersOK'
  BY <1>1 DEF Subscribe, NumbersOK, Classes, TransactionFilter, AccountFilter, BlocksMeta
<1>2. ASSUME NEW watch \in BOOLEAN, UpdateSubscription(watch)
      PROVE  NumbersOK'
  BY <1>2 DEF UpdateSubscription, NumbersOK, Classes, TransactionFilter, AccountFilter
<1>3. CASE Stop
  BY <1>3 DEF Stop, NumbersOK
<1>4. ASSUME NEW update \in Updates, Receive(update)
      PROVE  NumbersOK'
  <2> DEFINE message == [n |-> received + 1, update |-> update, from |-> Len(subs)]
  <2>1. /\ queue' = Append(queue, message) /\ received' = received + 1
        /\ UNCHANGED <<request, processed>> /\ message.n = received + 1
    BY <1>4 DEF Receive
  <2>2. /\ received \in Nat /\ Len(queue) \in Nat /\ Len(queue') = Len(queue) + 1
        /\ \A i \in DOMAIN queue' : /\ i \in 1 .. Len(queue) + 1
                                    /\ i = Len(queue) + 1 => queue'[i] = message
                                    /\ i # Len(queue) + 1 => i \in DOMAIN queue /\ queue'[i] = queue[i]
    BY <2>1 DEF ExactInv
  <2> HIDE DEF message
  <2>3. \A i \in DOMAIN queue' : queue'[i].n = (received' - Len(queue')) + i
    BY <2>1, <2>2 DEF NumbersOK
  <2>4. received' - Len(queue') = received - Len(queue)
    BY <2>1, <2>2
  <2>5. QED BY <2>1, <2>3, <2>4 DEF NumbersOK
<1>5. ASSUME NEW w \in DOMAIN subs, Process(w)
      PROVE  NumbersOK'
  <2> DEFINE new == [message |-> Head(queue), by |-> w,
                     events |-> EventsOf(subs[w], Head(queue).update)]
             done == received - Len(queue)
  <2>1. /\ UNCHANGED <<request, received>> /\ processed' = processed \cup {new}
        /\ queue' = Tail(queue) /\ queue # <<>>
    BY <1>5 DEF Process
  <2>2. /\ Head(queue) = queue[1] /\ 1 \in DOMAIN queue
        /\ Len(queue) \in Nat /\ Len(queue') = Len(queue) - 1 /\ received \in Nat
        /\ \A i \in DOMAIN queue' : i \in Nat /\ i + 1 \in DOMAIN queue /\ queue'[i] = queue[i + 1]
    BY <2>1 DEF ExactInv
  <2>3. received' - Len(queue') = done + 1 /\ done \in Int
    BY <2>1, <2>2
  <2>4. new.message.n = done + 1
    BY <2>2 DEF NumbersOK
  <2>5. \A k \in DOMAIN queue : queue[k].n = done + k
    BY DEF NumbersOK
  <2>6. \A m \in processed : m.message.n \in Nat /\ m.message.n <= done
    BY DEF NumbersOK
  <2>7. IsFiniteSet(processed) /\ Cardinality(processed) = done
    BY DEF NumbersOK
  <2>8. done \in Nat
    BY <2>7, FS_CardinalityType DEF NumbersOK
  <2> HIDE DEF new, done
  <2>9. new \notin processed
    BY <2>3, <2>4, <2>6
  <2>10. IsFiniteSet(processed') /\ Cardinality(processed') = done + 1
    BY <2>1, <2>7, <2>9, FS_AddElement
  <2>11. \A m \in processed' : m.message.n \in Nat /\ m.message.n <= done + 1
    BY <2>1, <2>3, <2>4, <2>6, <2>8
  <2>12. \A i \in DOMAIN queue' : queue'[i].n = (done + 1) + i
    <3>1. ASSUME NEW i \in DOMAIN queue' PROVE queue'[i].n = done + (i + 1) /\ i \in Nat
      BY <2>2, <2>5, <3>1
    <3>2. QED BY <2>3, <3>1
  <2>13. QED BY <2>1, <2>3, <2>10, <2>11, <2>12 DEF NumbersOK
<1>6. CASE UNCHANGED vars
  BY <1>6 DEF vars, NumbersOK
<1>7. QED
  BY <1>1, <1>2, <1>3, <1>4, <1>5, <1>6 DEF Next

\* Whoever takes them, every message received is in the queue or has been processed
\* once: an old thread takes what it takes from the new one, and nothing is lost.
THEOREM TypeCorrect == Spec => []TypeOK
<1>1. Init => ExactInv /\ NumbersOK
  BY SubsOKInit, FS_EmptySet DEF Init, ExactInv, NumbersOK
<1>2. ExactInv /\ NumbersOK => TypeOK
  <2> SUFFICES ASSUME ExactInv, NumbersOK PROVE TypeOK
    OBVIOUS
  <2>1. \A s \in DOMAIN subs : subs[s].list \in Lists /\ subs[s].filter \in Filters
    <3>1. subs \in Seq(SubsMade)
      BY DEF ExactInv, SubsOK, SubsMade
    <3>2. \A s \in DOMAIN subs : subs[s] \in SubsMade
      BY <3>1
    <3>3. QED BY <3>2 DEF SubsMade
  <2>2. \A i \in DOMAIN queue : queue[i].update \in Updates /\ queue[i].from \in DOMAIN subs
    BY DEF ExactInv, Answers
  <2>3. request \subseteq Classes /\ (active => subs # <<>>)
    BY DEF ExactInv, SubsOK, NumbersOK
  <2>4. Len(queue) + Cardinality(processed) = received
    BY DEF ExactInv, NumbersOK
  <2>5. QED BY <2>1, <2>2, <2>3, <2>4 DEF TypeOK
<1>3. QED
  BY <1>1, <1>2, ExactStep, NumbersStep, PTL DEF Spec

(***************************************************************************)
(* The discriminators.                                                     *)
(***************************************************************************)

\* The entries of a table.
EntriesOf(table) == {table[i] : i \in DOMAIN table}

\* An entry's program, and the byte its discriminator starts with.
Tagged(r, program, first) ==
  /\ r.program = program
  /\ r.disc \in Seq(Nat) /\ r.disc # <<>> /\ r.disc[1] = first

\* The first byte of a discriminator agrees with another's, and the second if any.
BeginsLike(p, q) == p[1] = q[1] /\ (Len(q) > 1 => p[2] = q[2])

\* The entries of a table are of one program, and an instruction that starts with
\* one's discriminator does not start with another's.
ToldApart(S, program) ==
  /\ \A p \in S : p.program = program
  /\ \A p, q \in S : DiscriminatorMatches(p.disc, q.disc) => p = q

\* Two bytes suffice to tell entries apart.
LEMMA ToldByTwoBytes ==
  ASSUME NEW S, NEW program, \A r \in S : \E first : Tagged(r, program, first),
         \A p, q \in S : BeginsLike(p.disc, q.disc) => p = q
  PROVE  ToldApart(S, program)
<1>1. ASSUME NEW p \in Seq(Nat), NEW q \in Seq(Nat), q # <<>>, DiscriminatorMatches(p, q)
      PROVE  BeginsLike(p, q)
  <2>1. Len(q) \in Nat /\ Len(q) >= 1 /\ Len(p) >= Len(q) /\ SubSeq(p, 1, Len(q)) = q
    BY <1>1 DEF DiscriminatorMatches
  <2>2. \A i \in 1 .. Len(q) : p[i] = q[i]
    BY <2>1
  <2>3. QED BY <2>1, <2>2 DEF BeginsLike
<1>2. \A r \in S : r.program = program /\ r.disc \in Seq(Nat) /\ r.disc # <<>>
  BY DEF Tagged
<1>3. QED BY <1>1, <1>2 DEF ToldApart

LEMMA PumpFunTold == ToldApart(EntriesOf(PumpFunParsers), "PumpFun")
<1>1. Tagged(PumpFunCreateToken, "PumpFun", 24)
  BY DEF Tagged, PumpFunCreateToken, Parser
<1>2. Tagged(PumpFunBuy, "PumpFun", 102)
  BY DEF Tagged, PumpFunBuy, Parser
<1>3. Tagged(PumpFunSell, "PumpFun", 51)
  BY DEF Tagged, PumpFunSell, Parser
<1>4. Tagged(PumpFunMigrate, "PumpFun", 155)
  BY DEF Tagged, PumpFunMigrate, Parser
<1>5. EntriesOf(PumpFunParsers) = {PumpFunCreateToken, PumpFunBuy, PumpFunSell,
                                   PumpFunMigrate}
  BY DEF EntriesOf, PumpFunParsers
<1>6. /\ PumpFunCreateToken.disc[1] = 24 /\ PumpFunBuy.disc[1] = 102
      /\ PumpFunSell.disc[1] = 51 /\ PumpFunMigrate.disc[1] = 155
  BY <1>1, <1>2, <1>3, <1>4 DEF Tagged
<1>7. \A p, q \in EntriesOf(PumpFunParsers) : BeginsLike(p.disc, q.disc) => p = q
  BY <1>5, <1>6 DEF BeginsLike
<1>8. \A r \in EntriesOf(PumpFunParsers) : \E first : Tagged(r, "PumpFun", first)
  BY <1>1, <1>2, <1>3, <1>4, <1>5
<1>9. QED BY <1>7, <1>8, ToldByTwoBytes

LEMMA PumpSwapTold == ToldApart(EntriesOf(PumpSwapParsers), "PumpSwap")
<1>1. Tagged(PumpSwapBuy, "PumpSwap", 102)
  BY DEF Tagged, PumpSwapBuy, Parser
<1>2. Tagged(PumpSwapSell, "PumpSwap", 51)
  BY DEF Tagged, PumpSwapSell, Parser
<1>3. Tagged(PumpSwapCreatePool, "PumpSwap", 233)
  BY DEF Tagged, PumpSwapCreatePool, Parser
<1>4. Tagged(PumpSwapDeposit, "PumpSwap", 242)
  BY DEF Tagged, PumpSwapDeposit, Parser
<1>5. Tagged(PumpSwapWithdraw, "PumpSwap", 183)
  BY DEF Tagged, PumpSwapWithdraw, Parser
<1>6. EntriesOf(PumpSwapParsers) = {PumpSwapBuy, PumpSwapSell, PumpSwapCreatePool,
                                    PumpSwapDeposit, PumpSwapWithdraw}
  BY DEF EntriesOf, PumpSwapParsers
<1>7. /\ PumpSwapBuy.disc[1] = 102 /\ PumpSwapSell.disc[1] = 51
      /\ PumpSwapCreatePool.disc[1] = 233 /\ PumpSwapDeposit.disc[1] = 242
      /\ PumpSwapWithdraw.disc[1] = 183
  BY <1>1, <1>2, <1>3, <1>4, <1>5 DEF Tagged
<1>8. \A p, q \in EntriesOf(PumpSwapParsers) : BeginsLike(p.disc, q.disc) => p = q
  BY <1>6, <1>7 DEF BeginsLike
<1>9. \A r \in EntriesOf(PumpSwapParsers) : \E first : Tagged(r, "PumpSwap", first)
  BY <1>1, <1>2, <1>3, <1>4, <1>5, <1>6
<1>10. QED BY <1>8, <1>9, ToldByTwoBytes

LEMMA BonkTold == ToldApart(EntriesOf(BonkParsers), "Bonk")
<1>1. Tagged(BonkBuyExactIn, "Bonk", 250)
  BY DEF Tagged, BonkBuyExactIn, Parser
<1>2. Tagged(BonkBuyExactOut, "Bonk", 24)
  BY DEF Tagged, BonkBuyExactOut, Parser
<1>3. Tagged(BonkSellExactIn, "Bonk", 149)
  BY DEF Tagged, BonkSellExactIn, Parser
<1>4. Tagged(BonkSellExactOut, "Bonk", 95)
  BY DEF Tagged, BonkSellExactOut, Parser
<1>5. Tagged(BonkInitialize, "Bonk", 175)
  BY DEF Tagged, BonkInitialize, Parser
<1>6. Tagged(BonkInitializeV2, "Bonk", 67)
  BY DEF Tagged, BonkInitializeV2, Parser
<1>7. Tagged(BonkMigrateToAmm, "Bonk", 207)
  BY DEF Tagged, BonkMigrateToAmm, Parser
<1>8. Tagged(BonkMigrateToCpswap, "Bonk", 136)
  BY DEF Tagged, BonkMigrateToCpswap, Parser
<1>9. EntriesOf(BonkParsers) = {BonkBuyExactIn, BonkBuyExactOut, BonkSellExactIn,
                                BonkSellExactOut, BonkInitialize, BonkInitializeV2,
                                BonkMigrateToAmm, BonkMigrateToCpswap}
  BY DEF EntriesOf, BonkParsers
<1>10. /\ BonkBuyExactIn.disc[1] = 250 /\ BonkBuyExactOut.disc[1] = 24
       /\ BonkSellExactIn.disc[1] = 149 /\ BonkSellExactOut.disc[1] = 95
       /\ BonkInitialize.disc[1] = 175 /\ BonkInitializeV2.disc[1] = 67
       /\ BonkMigrateToAmm.disc[1] = 207 /\ BonkMigrateToCpswap.disc[1] = 136
  BY <1>1, <1>2, <1>3, <1>4, <1>5, <1>6, <1>7, <1>8 DEF Tagged
<1>11. \A p, q \in EntriesOf(BonkParsers) : BeginsLike(p.disc, q.disc) => p = q
  BY <1>9, <1>10 DEF BeginsLike
<1>12. \A r \in EntriesOf(BonkParsers) : \E first : Tagged(r, "Bonk", first)
  BY <1>1, <1>2, <1>3, <1>4, <1>5, <1>6, <1>7, <1>8, <1>9
<1>13. QED BY <1>11, <1>12, ToldByTwoBytes

LEMMA CpmmTold == ToldApart(EntriesOf(CpmmParsers), "Cpmm")
<1>1. Tagged(CpmmSwapBaseInput, "Cpmm", 143)
  BY DEF Tagged, CpmmSwapBaseInput, Parser
<1>2. Tagged(CpmmSwapBaseOutput, "Cpmm", 55)
  BY DEF Tagged, CpmmSwapBaseOutput, Parser
<1>3. Tagged(CpmmDeposit, "Cpmm", 242)
  BY DEF Tagged, CpmmDeposit, Parser
<1>4. Tagged(CpmmInitialize, "Cpmm", 175)
  BY DEF Tagged, CpmmInitialize, Parser
<1>5. Tagged(CpmmWithdraw, "Cpmm", 183)
  BY DEF Tagged, CpmmWithdraw, Parser
<1>6. EntriesOf(CpmmParsers) = {CpmmSwapBaseInput, CpmmSwapBaseOutput, CpmmDeposit,
                                CpmmInitialize, CpmmWithdraw}
  BY DEF EntriesOf, CpmmParsers
<1>7. /\ CpmmSwapBaseInput.disc[1] = 143 /\ CpmmSwapBaseOutput.disc[1] = 55
      /\ CpmmDeposit.disc[1] = 242 /\ CpmmInitialize.disc[1] = 175
      /\ CpmmWithdraw.disc[1] = 183
  BY <1>1, <1>2, <1>3, <1>4, <1>5 DEF Tagged
<1>8. \A p, q \in EntriesOf(CpmmParsers) : BeginsLike(p.disc, q.disc) => p = q
  BY <1>6, <1>7 DEF BeginsLike
<1>9. \A r \in EntriesOf(CpmmParsers) : \E first : Tagged(r, "Cpmm", first)
  BY <1>1, <1>2, <1>3, <1>4, <1>5, <1>6
<1>10. QED BY <1>8, <1>9, ToldByTwoBytes

LEMMA ClmmTold == ToldApart(EntriesOf(ClmmParsers), "Clmm")
<1>1. Tagged(ClmmSwap, "Clmm", 248)
  BY DEF Tagged, ClmmSwap, Parser
<1>2. Tagged(ClmmSwapV2, "Clmm", 43)
  BY DEF Tagged, ClmmSwapV2, Parser
<1>3. Tagged(ClmmClosePosition, "Clmm", 123)
  BY DEF Tagged, ClmmClosePosition, Parser
<1>4. Tagged(ClmmDecreaseLiquidityV2, "Clmm", 58)
  BY DEF Tagged, ClmmDecreaseLiquidityV2, Parser
<1>5. Tagged(ClmmCreatePool, "Clmm", 233)
  BY DEF Tagged, ClmmCreatePool, Parser
<1>6. Tagged(ClmmIncreaseLiquidityV2, "Clmm", 133)
  BY DEF Tagged, ClmmIncreaseLiquidityV2, Parser
<1>7. Tagged(ClmmOpenPositionWithToken22Nft, "Clmm", 77)
  BY DEF Tagged, ClmmOpenPositionWithToken22Nft, Parser
<1>8. Tagged(ClmmOpenPositionV2, "Clmm", 77)
  BY DEF Tagged, ClmmOpenPositionV2, Parser
<1>9. EntriesOf(ClmmParsers) = {ClmmSwap, ClmmSwapV2, ClmmClosePosition,
                                ClmmDecreaseLiquidityV2, ClmmCreatePool,
                                ClmmIncreaseLiquidityV2, ClmmOpenPositionWithToken22Nft,
                                ClmmOpenPositionV2}
  BY DEF EntriesOf, ClmmParsers
<1>10. /\ ClmmSwap.disc[1] = 248 /\ ClmmSwapV2.disc[1] = 43
       /\ ClmmClosePosition.disc[1] = 123 /\ ClmmDecreaseLiquidityV2.disc[1] = 58
       /\ ClmmCreatePool.disc[1] = 233 /\ ClmmIncreaseLiquidityV2.disc[1] = 133
       /\ ClmmOpenPositionWithToken22Nft.disc[1] = 77 /\ ClmmOpenPositionV2.disc[1] = 77
  BY <1>1, <1>2, <1>3, <1>4, <1>5, <1>6, <1>7, <1>8 DEF Tagged
<1>11. /\ ClmmOpenPositionWithToken22Nft.disc[2] = 255 /\ Len(ClmmOpenPositionWithToken22Nft.disc) = 8
       /\ ClmmOpenPositionV2.disc[2] = 184 /\ Len(ClmmOpenPositionV2.disc) = 8
  BY DEF ClmmOpenPositionWithToken22Nft, ClmmOpenPositionV2, Parser
<1>12. \A p, q \in EntriesOf(ClmmParsers) : BeginsLike(p.disc, q.disc) => p = q
  BY <1>9, <1>10, <1>11 DEF BeginsLike
<1>13. \A r \in EntriesOf(ClmmParsers) : \E first : Tagged(r, "Clmm", first)
  BY <1>1, <1>2, <1>3, <1>4, <1>5, <1>6, <1>7, <1>8, <1>9
<1>14. QED BY <1>12, <1>13, ToldByTwoBytes

LEMMA AmmV4Told == ToldApart(EntriesOf(AmmV4Parsers), "AmmV4")
<1>1. Tagged(AmmV4SwapBaseInput, "AmmV4", 9)
  BY DEF Tagged, AmmV4SwapBaseInput, Parser
<1>2. Tagged(AmmV4SwapBaseOutput, "AmmV4", 11)
  BY DEF Tagged, AmmV4SwapBaseOutput, Parser
<1>3. Tagged(AmmV4Deposit, "AmmV4", 3)
  BY DEF Tagged, AmmV4Deposit, Parser
<1>4. Tagged(AmmV4Initialize2, "AmmV4", 1)
  BY DEF Tagged, AmmV4Initialize2, Parser
<1>5. Tagged(AmmV4Withdraw, "AmmV4", 4)
  BY DEF Tagged, AmmV4Withdraw, Parser
<1>6. Tagged(AmmV4WithdrawPnl, "AmmV4", 7)
  BY DEF Tagged, AmmV4WithdrawPnl, Parser
<1>7. EntriesOf(AmmV4Parsers) = {AmmV4SwapBaseInput, AmmV4SwapBaseOutput, AmmV4Deposit,
                                 AmmV4Initialize2, AmmV4Withdraw, AmmV4WithdrawPnl}
  BY DEF EntriesOf, AmmV4Parsers
<1>8. /\ AmmV4SwapBaseInput.disc[1] = 9 /\ AmmV4SwapBaseOutput.disc[1] = 11
      /\ AmmV4Deposit.disc[1] = 3 /\ AmmV4Initialize2.disc[1] = 1
      /\ AmmV4Withdraw.disc[1] = 4 /\ AmmV4WithdrawPnl.disc[1] = 7
  BY <1>1, <1>2, <1>3, <1>4, <1>5, <1>6 DEF Tagged
<1>9. \A p, q \in EntriesOf(AmmV4Parsers) : BeginsLike(p.disc, q.disc) => p = q
  BY <1>7, <1>8 DEF BeginsLike
<1>10. \A r \in EntriesOf(AmmV4Parsers) : \E first : Tagged(r, "AmmV4", first)
  BY <1>1, <1>2, <1>3, <1>4, <1>5, <1>6, <1>7
<1>11. QED BY <1>9, <1>10, ToldByTwoBytes

LEMMA PumpFunAccountsTold == ToldApart(EntriesOf(AccountsOf("PumpFun")), "PumpFun")
<1>1. Tagged(AccountPumpFunBondingCurve, "PumpFun", 23)
  BY DEF Tagged, AccountPumpFunBondingCurve, Account
<1>2. Tagged(AccountPumpFunGlobal, "PumpFun", 167)
  BY DEF Tagged, AccountPumpFunGlobal, Account
<1>3. EntriesOf(AccountsOf("PumpFun")) = {AccountPumpFunBondingCurve, AccountPumpFunGlobal}
  BY DEF EntriesOf, AccountsOf
<1>4. /\ AccountPumpFunBondingCurve.disc[1] = 23 /\ AccountPumpFunGlobal.disc[1] = 167
  BY <1>1, <1>2 DEF Tagged
<1>5. \A p, q \in EntriesOf(AccountsOf("PumpFun")) : BeginsLike(p.disc, q.disc) => p = q
  BY <1>3, <1>4 DEF BeginsLike
<1>6. \A r \in EntriesOf(AccountsOf("PumpFun")) : \E first : Tagged(r, "PumpFun", first)
  BY <1>1, <1>2, <1>3
<1>7. QED BY <1>5, <1>6, ToldByTwoBytes

LEMMA PumpSwapAccountsTold == ToldApart(EntriesOf(AccountsOf("PumpSwap")), "PumpSwap")
<1>1. Tagged(AccountPumpSwapGlobalConfig, "PumpSwap", 149)
  BY DEF Tagged, AccountPumpSwapGlobalConfig, Account
<1>2. Tagged(AccountPumpSwapPool, "PumpSwap", 241)
  BY DEF Tagged, AccountPumpSwapPool, Account
<1>3. EntriesOf(AccountsOf("PumpSwap")) = {AccountPumpSwapGlobalConfig, AccountPumpSwapPool}
  BY DEF EntriesOf, AccountsOf
<1>4. /\ AccountPumpSwapGlobalConfig.disc[1] = 149 /\ AccountPumpSwapPool.disc[1] = 241
  BY <1>1, <1>2 DEF Tagged
<1>5. \A p, q \in EntriesOf(AccountsOf("PumpSwap")) : BeginsLike(p.disc, q.disc) => p = q
  BY <1>3, <1>4 DEF BeginsLike
<1>6. \A r \in EntriesOf(AccountsOf("PumpSwap")) : \E first : Tagged(r, "PumpSwap", first)
  BY <1>1, <1>2, <1>3
<1>7. QED BY <1>5, <1>6, ToldByTwoBytes

LEMMA BonkAccountsTold == ToldApart(EntriesOf(AccountsOf("Bonk")), "Bonk")
<1>1. Tagged(AccountBonkPoolState, "Bonk", 247)
  BY DEF Tagged, AccountBonkPoolState, Account
<1>2. Tagged(AccountBonkGlobalConfig, "Bonk", 149)
  BY DEF Tagged, AccountBonkGlobalConfig, Account
<1>3. Tagged(AccountBonkPlatformConfig, "Bonk", 160)
  BY DEF Tagged, AccountBonkPlatformConfig, Account
<1>4. EntriesOf(AccountsOf("Bonk")) = {AccountBonkPoolState, AccountBonkGlobalConfig,
                                       AccountBonkPlatformConfig}
  BY DEF EntriesOf, AccountsOf
<1>5. /\ AccountBonkPoolState.disc[1] = 247 /\ AccountBonkGlobalConfig.disc[1] = 149
      /\ AccountBonkPlatformConfig.disc[1] = 160
  BY <1>1, <1>2, <1>3 DEF Tagged
<1>6. \A p, q \in EntriesOf(AccountsOf("Bonk")) : BeginsLike(p.disc, q.disc) => p = q
  BY <1>4, <1>5 DEF BeginsLike
<1>7. \A r \in EntriesOf(AccountsOf("Bonk")) : \E first : Tagged(r, "Bonk", first)
  BY <1>1, <1>2, <1>3, <1>4
<1>8. QED BY <1>6, <1>7, ToldByTwoBytes

LEMMA CpmmAccountsTold == ToldApart(EntriesOf(AccountsOf("Cpmm")), "Cpmm")
<1>1. Tagged(AccountRaydiumCpmmAmmConfig, "Cpmm", 218)
  BY DEF Tagged, AccountRaydiumCpmmAmmConfig, Account
<1>2. Tagged(AccountRaydiumCpmmPoolState, "Cpmm", 247)
  BY DEF Tagged, AccountRaydiumCpmmPoolState, Account
<1>3. EntriesOf(AccountsOf("Cpmm")) = {AccountRaydiumCpmmAmmConfig,
                                       AccountRaydiumCpmmPoolState}
  BY DEF EntriesOf, AccountsOf
<1>4. /\ AccountRaydiumCpmmAmmConfig.disc[1] = 218 /\ AccountRaydiumCpmmPoolState.disc[1] = 247
  BY <1>1, <1>2 DEF Tagged
<1>5. \A p, q \in EntriesOf(AccountsOf("Cpmm")) : BeginsLike(p.disc, q.disc) => p = q
  BY <1>3, <1>4 DEF BeginsLike
<1>6. \A r \in EntriesOf(AccountsOf("Cpmm")) : \E first : Tagged(r, "Cpmm", first)
  BY <1>1, <1>2, <1>3
<1>7. QED BY <1>5, <1>6, ToldByTwoBytes

LEMMA ClmmAccountsTold == ToldApart(EntriesOf(AccountsOf("Clmm")), "Clmm")
<1>1. Tagged(AccountRaydiumClmmAmmConfig, "Clmm", 218)
  BY DEF Tagged, AccountRaydiumClmmAmmConfig, Account
<1>2. Tagged(AccountRaydiumClmmPoolState, "Clmm", 247)
  BY DEF Tagged, AccountRaydiumClmmPoolState, Account
<1>3. Tagged(AccountRaydiumClmmTickArrayState, "Clmm", 192)
  BY DEF Tagged, AccountRaydiumClmmTickArrayState, Account
<1>4. EntriesOf(AccountsOf("Clmm")) = {AccountRaydiumClmmAmmConfig,
                                       AccountRaydiumClmmPoolState,
                                       AccountRaydiumClmmTickArrayState}
  BY DEF EntriesOf, AccountsOf
<1>5. /\ AccountRaydiumClmmAmmConfig.disc[1] = 218 /\ AccountRaydiumClmmPoolState.disc[1] = 247
      /\ AccountRaydiumClmmTickArrayState.disc[1] = 192
  BY <1>1, <1>2, <1>3 DEF Tagged
<1>6. \A p, q \in EntriesOf(AccountsOf("Clmm")) : BeginsLike(p.disc, q.disc) => p = q
  BY <1>4, <1>5 DEF BeginsLike
<1>7. \A r \in EntriesOf(AccountsOf("Clmm")) : \E first : Tagged(r, "Clmm", first)
  BY <1>1, <1>2, <1>3, <1>4
<1>8. QED BY <1>6, <1>7, ToldByTwoBytes

LEMMA AmmV4AccountsTold == ToldApart(EntriesOf(AccountsOf("AmmV4")), "AmmV4")
<1>1. Tagged(AccountRaydiumAmmV4AmmInfo, "AmmV4", 6)
  BY DEF Tagged, AccountRaydiumAmmV4AmmInfo, Account
<1>2. EntriesOf(AccountsOf("AmmV4")) = {AccountRaydiumAmmV4AmmInfo}
  BY DEF EntriesOf, AccountsOf
<1>3. AccountRaydiumAmmV4AmmInfo.disc[1] = 6
  BY <1>1 DEF Tagged
<1>4. \A p, q \in EntriesOf(AccountsOf("AmmV4")) : BeginsLike(p.disc, q.disc) => p = q
  BY <1>2, <1>3 DEF BeginsLike
<1>5. \A r \in EntriesOf(AccountsOf("AmmV4")) : \E first : Tagged(r, "AmmV4", first)
  BY <1>1, <1>2
<1>6. QED BY <1>4, <1>5, ToldByTwoBytes

\* No two parsers of a program begin an instruction alike, and no two account parsers
\* of one an account.
LEMMA DiscriminatorsTell ==
  /\ \A p, q \in AllParsers : p.program = q.program /\ DiscriminatorMatches(p.disc, q.disc) => p = q
  /\ \A a, b \in AllAccounts : a.program = b.program /\ DiscriminatorMatches(a.disc, b.disc) => a = b
<1>1. \A protocol \in Protocols : ToldApart(EntriesOf(ParsersOf(protocol)), protocol)
  BY PumpFunTold, PumpSwapTold, BonkTold, CpmmTold, ClmmTold, AmmV4Told DEF Protocols, ParsersOf
<1>2. \A protocol \in Protocols : ToldApart(EntriesOf(AccountsOf(protocol)), protocol)
  BY PumpFunAccountsTold, PumpSwapAccountsTold, BonkAccountsTold, CpmmAccountsTold,
     ClmmAccountsTold, AmmV4AccountsTold DEF Protocols
<1>3. \A p \in AllParsers : \E protocol \in Protocols : p \in EntriesOf(ParsersOf(protocol))
  BY DEF AllParsers, EntriesOf
<1>4. \A a \in AllAccounts : \E protocol \in Protocols : a \in EntriesOf(AccountsOf(protocol))
  BY DEF AllAccounts, EntriesOf
<1>5. QED BY <1>1, <1>2, <1>3, <1>4 DEF ToldApart

\* Whichever protocols and kinds are passed, a subscription's parsers tell the
\* instructions and the accounts of a program apart by their discriminators: adding
\* up the tables of several protocols and leaving out kinds changes nothing of that.
THEOREM OneKindForEach == Spec => OneKindEach
<1>1. ASSUME [Next]_vars, subs' # subs
      PROVE  LET sub == subs'[Len(subs')] IN
             /\ \A p, q \in InstructionTable(sub) :
                  p.program = q.program /\ DiscriminatorMatches(p.disc, q.disc) => p = q
             /\ \A a, b \in AccountTable(sub) :
                  a.program = b.program /\ DiscriminatorMatches(a.disc, b.disc) => a = b
  BY DiscriminatorsTell DEF InstructionTable, AccountTable
<1>2. QED
  BY <1>1, PTL DEF Spec, OneKindEach
=============================================================================
