------------------------ MODULE MCTransactionParsing ------------------------
(***************************************************************************)
(* Transactions that bring the hard cases of TransactionParsing together.  *)
(***************************************************************************)
EXTENDS TransactionParsing, TLC

CONSTANTS t1, t2

MCProgramOf ==
  ("pumpfun" :> "PumpFun") @@ ("pumpswap" :> "PumpSwap") @@ ("bonk" :> "Bonk")
  @@ ("cpmm" :> "Cpmm") @@ ("amm" :> "AmmV4") @@ ("clmm" :> "Clmm") @@ ("token" :> "Token")
  @@ [k \in {"dev", "maker", "trader", "bot", "router", "key", "none", "sol", "mintA", "mintB",
             "userA", "userB", "vaultA", "vaultB"} |-> "no program"]

MCPrograms == {p.program : p \in AllParsers}

\* The filter leaves no parser of CLMM, whose programs are still handled.
MCKinds == {p.event : p \in {q \in AllParsers : q.program # "Clmm"}}

\* An instruction of n accounts, all of them the one at idx but for those given.
Instr(parser, prog, n, idx, but, bytes) ==
  [prog |-> prog, head |-> parser.disc, bytes |-> bytes + Len(parser.disc), text |-> 0,
   accounts |-> [i \in 1 .. n |-> IF i \in DOMAIN but THEN but[i] ELSE idx],
   user |-> Default, creator |-> Default, paid |-> 0, got |-> 0, spells |-> {},
   direction |-> "none", of |-> 0,
   amount |-> 0, role |-> "none", mint |-> Default]

\* The log of the inner instruction of (0: of the outer one) by program prog.
LogOf(parser, prog, text, user, creator, of) ==
  [Instr(parser, prog, 1, 0, <<>>, 0) EXCEPT
     !.head = <<228, 69, 165, 46, 81, 203, 154, 29>>, !.bytes = 16 + parser.log.size,
     !.text = text, !.user = user, !.creator = creator, !.paid = 3, !.got = 4,
     !.spells = {parser.log}, !.of = of,
     !.direction = IF parser.event \in BonkBuys THEN "buy"
                   ELSE IF parser.event \in BonkTrades THEN "sell" ELSE "none"]

\* A transfer of the instruction of, by tag: 12 names the mint, 26 takes a fee.
Transfer(tag, prog, from, mint, to, amount, role, of, mintKey) ==
  [Instr(PumpFunBuy, prog, 4, 0, 1 :> from @@ 2 :> (IF tag = 3 THEN to ELSE mint) @@ 3 :> to, 0)
     EXCEPT !.head = <<tag>>, !.bytes = IF tag = 3 THEN 9 ELSE 10, !.amount = amount,
            !.role = role, !.of = of, !.mint = mintKey]

\* A router's instruction: no parser's.
Routed(prog) == [Instr(PumpFunBuy, prog, 1, 0, <<>>, 0) EXCEPT !.head = <<1>>, !.bytes = 1]

Group(index, instructions) == [index |-> index, instructions |-> instructions]

Block(static, loaded, outer, groups) ==
  [full |-> TRUE, static |-> static, loaded |-> loaded, outer |-> outer, groups |-> groups]
Shred(static, outer) ==
  [full |-> FALSE, static |-> static, loaded |-> <<>>, outer |-> outer, groups |-> <<>>]

Sample == [
  \* A launch and the developer's first buy; the log names the true maker.
  launch |-> Block(<<"dev", "pumpfun">>, <<"key">>,
    <<[Instr(PumpFunCreateToken, 1, 11, 2, 8 :> 0, 121) EXCEPT !.text = 77, !.creator = "dev"],
      Routed(2), Instr(PumpFunBuy, 1, 16, 2, 7 :> 0, 16)>>,
    <<Group(0, <<LogOf(PumpFunCreateToken, 1, 77, "dev", "maker", 0)>>),
      Group(2, <<LogOf(PumpFunBuy, 1, 0, "dev", "maker", 0)>>)>>),
  \* A stranger's sale of the same token, through a lookup table.
  trade |-> Block(<<"trader">>, <<"pumpfun", "key">>,
    <<Instr(PumpFunSell, 1, 14, 2, 7 :> 0, 16)>>,
    <<Group(0, <<LogOf(PumpFunSell, 1, 0, "trader", "maker", 0)>>)>>),
  \* A route over two pools: two trades, with their logs, in one group.
  route |-> Block(<<"trader", "router", "pumpswap">>, <<"key">>,
    <<Routed(1)>>,
    <<Group(0, <<Instr(PumpSwapBuy, 2, 13, 3, 1 :> 0, 16),
                 LogOf(PumpSwapBuy, 2, 0, "trader", Default, 1),
                 Instr(PumpSwapSell, 2, 13, 3, 1 :> 0, 16),
                 LogOf(PumpSwapSell, 2, 0, "trader", Default, 3)>>)>>),
  \* A purchase and a sale on Bonk in one group, with the logs of both.
  legs |-> Block(<<"trader", "router", "bonk">>, <<"key">>,
    <<Routed(1)>>,
    <<Group(0, <<Instr(BonkBuyExactIn, 2, 18, 3, 1 :> 0, 24),
                 LogOf(BonkBuyExactIn, 2, 0, Default, Default, 1),
                 Instr(BonkSellExactIn, 2, 18, 3, 1 :> 0, 24),
                 LogOf(BonkSellExactIn, 2, 0, Default, Default, 3)>>)>>),
  \* A sale on Bonk whose log is eight bytes too long to decode, and a purchase with one
  \* that decodes and names the other direction.
  refused |-> Block(<<"trader", "bonk">>, <<"key">>,
    <<Instr(BonkSellExactIn, 1, 18, 2, 1 :> 0, 24)>>,
    <<Group(0, <<[LogOf(BonkSellExactIn, 1, 0, Default, Default, 0) EXCEPT !.bytes = @ + 8],
                 Instr(BonkBuyExactOut, 1, 18, 2, 1 :> 0, 24),
                 LogOf(BonkBuyExactOut, 1, 0, Default, Default, 2)>>)>>),
  \* A pool of Bonk whose creator is not the payer, and the creator's purchase.
  bonk |-> Block(<<"dev", "maker", "bonk", "key", "token">>,
                 <<"mintA", "mintB", "userA", "userB", "vaultA", "vaultB">>,
    <<[Instr(BonkInitialize, 2, 10, 3, 1 :> 0 @@ 2 :> 1, 60) EXCEPT !.text = 23],
      Instr(BonkBuyExactIn, 2, 18, 3,
            1 :> 1 @@ 6 :> 7 @@ 7 :> 8 @@ 8 :> 9 @@ 9 :> 10 @@ 10 :> 5 @@ 11 :> 6, 24)>>,
    <<Group(0, <<LogOf(BonkInitialize, 2, 123, Default, "maker", 0)>>),
      Group(1, <<Transfer(12, 4, 8, 6, 10, 5, "in", 0, "mintB"),
                 Transfer(12, 4, 9, 5, 7, 6, "out", 0, "mintA"),
                 LogOf(BonkBuyExactIn, 2, 0, Default, Default, 0)>>)>>),
  \* A route there and back through one pool, whose second token takes a fee.
  back |-> Block(<<"trader", "router", "cpmm", "token">>,
                 <<"mintA", "mintB", "userA", "userB", "vaultA", "vaultB">>,
    <<Routed(1)>>,
    <<Group(0, <<Instr(CpmmSwapBaseInput, 2, 13, 0,
                       5 :> 6 @@ 6 :> 7 @@ 7 :> 8 @@ 8 :> 9 @@ 11 :> 4 @@ 12 :> 5, 16),
                 Transfer(12, 3, 6, 4, 8, 10, "in", 1, "mintA"),
                 Transfer(26, 3, 9, 5, 7, 9, "out", 1, "mintB"),
                 Instr(CpmmSwapBaseInput, 2, 13, 0,
                       5 :> 7 @@ 6 :> 6 @@ 7 :> 9 @@ 8 :> 8 @@ 11 :> 5 @@ 12 :> 4, 16),
                 Transfer(26, 3, 7, 5, 9, 9, "in", 4, "mintB"),
                 Transfer(12, 3, 8, 4, 6, 11, "out", 4, "mintA"),
                 Transfer(3, 3, 6, 4, 0, 1, "none", 0, "mintA")>>)>>),
  \* A swap of the old pool with 17 accounts, into the coin vault.
  amm |-> Block(<<"trader", "amm", "token">>, <<"userA", "userB", "vaultA", "vaultB">>,
    <<Instr(AmmV4SwapBaseInput, 1, 17, 0, 5 :> 5 @@ 6 :> 6 @@ 15 :> 3 @@ 16 :> 4, 16)>>,
    <<Group(0, <<Transfer(3, 2, 3, 0, 5, 7, "in", 0, "mintA"),
                 Transfer(3, 2, 6, 0, 4, 8, "out", 0, "mintB")>>)>>),
  \* From a shred: an account past the keys, then one not so far, then all there; and
  \* the first again, when an instruction with no parser has padded the keys further.
  lookup |-> Shred(<<"bot", "pumpfun", "clmm">>,
    <<Instr(PumpFunSell, 1, 14, 1, 3 :> 5 @@ 7 :> 0, 16), Instr(PumpFunBuy, 1, 14, 4, 7 :> 0, 16),
      Instr(PumpFunSell, 1, 12, 1, 7 :> 0, 16), Instr(ClmmSwap, 2, 10, 0, 1 :> 7, 40),
      Instr(PumpFunSell, 1, 14, 1, 3 :> 5 @@ 7 :> 0, 16)>>),
  \* From a shred: a launch, then a buy that is an account short, then another.
  short |-> Shred(<<"maker", "pumpfun", "key">>,
    <<[Instr(PumpFunCreateToken, 1, 11, 2, 8 :> 0, 121) EXCEPT !.text = 77, !.creator = "maker"],
      Instr(PumpFunBuy, 1, 13, 2, 7 :> 0, 16), Instr(PumpFunBuy, 1, 14, 2, 7 :> 0, 16)>>)]

MCTxs == {Sample[x] : x \in DOMAIN Sample}

\* The sample is as the proofs about logs and about swap data have it.
ASSUME LogsAssumption == LogsAreLeft
ASSUME TransfersAssumption == TransfersAreMade
=============================================================================
