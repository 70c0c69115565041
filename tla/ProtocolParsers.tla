-------------------------- MODULE ProtocolParsers --------------------------
(***************************************************************************)
(* The parsers of the six protocols, as tables.  An instruction parser     *)
(* turns the data that follows the discriminator and the account keys of   *)
(* an instruction into an event.  What matters of it here is which inputs  *)
(* it turns away (the length guard, and every read that ends in `?`), and  *)
(* which positions it then indexes without a further check: a Rust slice   *)
(* or array access out of range panics.  The fields it fills are data and  *)
(* are left out.                                                           *)
(*                                                                         *)
(* Inner parsers decode the log an instruction leaves among the inner      *)
(* instructions: they cut the data to a fixed size and hand the slice to   *)
(* borsh, which fails unless it consumes the slice to its last byte.       *)
(***************************************************************************)
EXTENDS Naturals, Sequences

(***************************************************************************)
(* Logs.                                                                   *)
(***************************************************************************)

\* A log of fixed layout, cut to exactly its own size.
Log(size) == [size |-> size, fixed |-> size, text |-> FALSE]

\* A log that holds strings: fixed bytes apart from them, yet cut to a constant.
TextLog(size, fixed) == [size |-> size, fixed |-> fixed, text |-> TRUE]

NoLog == [size |-> 0, fixed |-> 0, text |-> FALSE]

\* Whether an inner parser gets an event out of a log of this kind with len
\* bytes, text of which encode its strings and enums: the slice must exist and
\* must be consumed whole.
Decodes(log, len, text) ==
  /\ log # NoLog
  /\ len >= log.size
  /\ log.fixed + (IF log.text THEN text ELSE 0) = log.size

PumpFunCreateTokenLog == TextLog(257, 180)
PumpFunTradeLog == Log(250)
PumpFunMigrateLog == Log(160)
PumpSwapBuyLog == Log(385)
PumpSwapSellLog == Log(352)
PumpSwapCreatePoolLog == Log(325)
PumpSwapDepositLog == Log(248)
PumpSwapWithdrawLog == Log(248)
BonkTradeLog == Log(139)
BonkPoolCreateLog == TextLog(256, 133)

(***************************************************************************)
(* Instruction parsers.                                                    *)
(***************************************************************************)

\* A parser whose guard asks for as much data as is read and for this many
\* accounts, and that reads the keys 0 .. keys - 1.
Parser(program, event, disc, data, accounts, keys, log) ==
  [program |-> program, event |-> event, disc |-> disc, data |-> data,
   accounts |-> accounts, bytes |-> data, keys |-> keys, text |-> "none", log |-> log]

\* What a parser makes of d bytes of data, text of which hold strings (and the
\* curve, for Bonk), and of n account keys.  "checked" strings are read with `?`,
\* "unchecked" ones by slicing.
Outcome(parser, d, n, text) ==
  LET asked == parser.data + (IF parser.text = "checked" THEN text ELSE 0)
      read  == parser.bytes + (IF parser.text = "none" THEN 0 ELSE text)
  IN IF d < asked \/ n < parser.accounts THEN "none"
     ELSE IF d < read \/ n < parser.keys THEN "panic"
     ELSE "event"

\* Name, symbol and uri are sliced out by the lengths the data claims.
PumpFunCreateToken ==
  [Parser("PumpFun", "PumpFunCreateToken", <<24, 30, 200, 40, 5, 28, 7, 119>>,
           16, 11, 8, PumpFunCreateTokenLog)
     EXCEPT !.bytes = 12, !.text = "unchecked"]

\* accounts[13] is read although 13 accounts are let in.
PumpFunBuy ==
  Parser("PumpFun", "PumpFunBuy", <<102, 6, 61, 18, 1, 218, 235, 234>>,
           16, 13, 14, PumpFunTradeLog)

\* accounts[11] is read although 11 accounts are let in.
PumpFunSell ==
  Parser("PumpFun", "PumpFunSell", <<51, 230, 133, 164, 1, 127, 131, 173>>,
           16, 11, 12, PumpFunTradeLog)

PumpFunMigrate ==
  Parser("PumpFun", "PumpFunMigrate", <<155, 234, 231, 146, 236, 158, 162, 30>>,
           0, 24, 24, PumpFunMigrateLog)

PumpFunParsers ==
  <<PumpFunCreateToken, PumpFunBuy, PumpFunSell, PumpFunMigrate>>

\* accounts[12] is read although 11 accounts are let in.
PumpSwapBuy ==
  Parser("PumpSwap", "PumpSwapBuy", <<102, 6, 61, 18, 1, 218, 235, 234>>,
           16, 11, 13, PumpSwapBuyLog)

\* accounts[12] is read although 11 accounts are let in.
PumpSwapSell ==
  Parser("PumpSwap", "PumpSwapSell", <<51, 230, 133, 164, 1, 127, 131, 173>>,
           16, 11, 13, PumpSwapSellLog)

PumpSwapCreatePool ==
  Parser("PumpSwap", "PumpSwapCreatePool", <<233, 146, 209, 142, 207, 104, 64, 188>>,
           18, 11, 11, PumpSwapCreatePoolLog)

PumpSwapDeposit ==
  Parser("PumpSwap", "PumpSwapDeposit", <<242, 35, 198, 137, 82, 225, 242, 182>>,
           24, 11, 11, PumpSwapDepositLog)

PumpSwapWithdraw ==
  Parser("PumpSwap", "PumpSwapWithdraw", <<183, 18, 70, 156, 148, 109, 161, 34>>,
           24, 11, 11, PumpSwapWithdrawLog)

PumpSwapParsers ==
  <<PumpSwapBuy, PumpSwapSell, PumpSwapCreatePool, PumpSwapDeposit,
    PumpSwapWithdraw>>

\* The third u64 is read with `?`, so 24 bytes are needed, not the 16 of the guard.
BonkBuyExactIn ==
  Parser("Bonk", "BonkBuyExactIn", <<250, 234, 13, 123, 213, 156, 19, 236>>,
           24, 18, 18, BonkTradeLog)

BonkBuyExactOut ==
  Parser("Bonk", "BonkBuyExactOut", <<24, 211, 116, 40, 105, 3, 153, 56>>,
           24, 18, 18, BonkTradeLog)

BonkSellExactIn ==
  Parser("Bonk", "BonkSellExactIn", <<149, 39, 222, 155, 211, 124, 152, 26>>,
           24, 18, 18, BonkTradeLog)

BonkSellExactOut ==
  Parser("Bonk", "BonkSellExactOut", <<95, 200, 71, 34, 8, 9, 11, 166>>,
           24, 18, 18, BonkTradeLog)

\* No guard on the accounts; 37 bytes plus the strings and the curve.
BonkInitialize ==
  [Parser("Bonk", "BonkInitialize", <<175, 175, 109, 31, 13, 152, 155, 237>>,
           37, 0, 10, BonkPoolCreateLog)
     EXCEPT !.text = "checked"]

\* The fee byte after the parameters is indexed without a check.
BonkInitializeV2 ==
  [Parser("Bonk", "BonkInitializeV2", <<67, 153, 175, 39, 218, 16, 38, 32>>,
           37, 0, 10, BonkPoolCreateLog)
     EXCEPT !.bytes = 38, !.text = "checked"]

\* data[16] is indexed, 16 bytes are let in; no guard on the accounts.
BonkMigrateToAmm ==
  [Parser("Bonk", "BonkMigrateToAmm", <<207, 82, 192, 145, 254, 207, 145, 223>>,
           16, 0, 32, NoLog)
     EXCEPT !.bytes = 17]

\* No guard at all.
BonkMigrateToCpswap ==
  Parser("Bonk", "BonkMigrateToCpswap", <<136, 92, 200, 103, 28, 218, 144, 140>>,
           0, 0, 28, NoLog)

BonkParsers ==
  <<BonkBuyExactIn, BonkBuyExactOut, BonkSellExactIn,
    BonkSellExactOut, BonkInitialize, BonkInitializeV2,
    BonkMigrateToAmm, BonkMigrateToCpswap>>

CpmmSwapBaseInput ==
  Parser("Cpmm", "RaydiumCpmmSwapBaseInput", <<143, 190, 90, 218, 196, 30, 51, 222>>,
           16, 13, 13, NoLog)

CpmmSwapBaseOutput ==
  Parser("Cpmm", "RaydiumCpmmSwapBaseOutput", <<55, 217, 98, 86, 163, 74, 180, 173>>,
           16, 13, 13, NoLog)

CpmmDeposit ==
  Parser("Cpmm", "RaydiumCpmmDeposit", <<242, 35, 198, 137, 82, 225, 242, 182>>,
           24, 13, 13, NoLog)

CpmmInitialize ==
  Parser("Cpmm", "RaydiumCpmmInitialize", <<175, 175, 109, 31, 13, 152, 155, 237>>,
           24, 20, 20, NoLog)

CpmmWithdraw ==
  Parser("Cpmm", "RaydiumCpmmWithdraw", <<183, 18, 70, 156, 148, 109, 161, 34>>,
           24, 14, 14, NoLog)

CpmmParsers ==
  <<CpmmSwapBaseInput, CpmmSwapBaseOutput, CpmmDeposit,
    CpmmInitialize, CpmmWithdraw>>

ClmmSwap ==
  Parser("Clmm", "RaydiumClmmSwap", <<248, 198, 158, 145, 225, 117, 135, 200>>,
           33, 10, 10, NoLog)

\* Mutant: the second version has the first one's discriminator.
ClmmSwapV2AsFirst ==
  Parser("Clmm", "RaydiumClmmSwapV2", <<248, 198, 158, 145, 225, 117, 135, 200>>,
           33, 13, 13, NoLog)

ClmmSwapV2 ==
  Parser("Clmm", "RaydiumClmmSwapV2", <<43, 4, 237, 11, 26, 201, 30, 98>>,
           33, 13, 13, NoLog)

ClmmClosePosition ==
  Parser("Clmm", "RaydiumClmmClosePosition", <<123, 134, 81, 0, 49, 68, 98, 98>>,
           0, 6, 6, NoLog)

ClmmDecreaseLiquidityV2 ==
  Parser("Clmm", "RaydiumClmmDecreaseLiquidityV2", <<58, 127, 188, 62, 79, 82, 196, 96>>,
           32, 16, 16, NoLog)

ClmmCreatePool ==
  Parser("Clmm", "RaydiumClmmCreatePool", <<233, 146, 209, 142, 207, 104, 64, 188>>,
           24, 13, 13, NoLog)

ClmmIncreaseLiquidityV2 ==
  Parser("Clmm", "RaydiumClmmIncreaseLiquidityV2", <<133, 29, 89, 223, 69, 238, 176, 10>>,
           34, 15, 15, NoLog)

ClmmOpenPositionWithToken22Nft ==
  Parser("Clmm", "RaydiumClmmOpenPositionWithToken22Nft", <<77, 255, 174, 82, 125, 29, 201, 46>>,
           51, 20, 20, NoLog)

ClmmOpenPositionV2 ==
  Parser("Clmm", "RaydiumClmmOpenPositionV2", <<77, 184, 74, 214, 112, 86, 241, 199>>,
           51, 22, 22, NoLog)

ClmmParsers ==
  <<ClmmSwap, ClmmSwapV2, ClmmClosePosition,
    ClmmDecreaseLiquidityV2, ClmmCreatePool,
    ClmmIncreaseLiquidityV2, ClmmOpenPositionWithToken22Nft,
    ClmmOpenPositionV2>>

\* 17 accounts get a default key inserted at 4, so that 18 are read from 17.
AmmV4SwapBaseInput ==
  Parser("AmmV4", "RaydiumAmmV4SwapBaseIn", <<9>>,
           16, 17, 17, NoLog)

\* 17 accounts are treated in the same way.
AmmV4SwapBaseOutput ==
  Parser("AmmV4", "RaydiumAmmV4SwapBaseOut", <<11>>,
           16, 17, 17, NoLog)

AmmV4Deposit ==
  Parser("AmmV4", "RaydiumAmmV4Deposit", <<3>>,
           24, 14, 14, NoLog)

AmmV4Initialize2 ==
  Parser("AmmV4", "RaydiumAmmV4Initialize2", <<1>>,
           25, 21, 21, NoLog)

AmmV4Withdraw ==
  Parser("AmmV4", "RaydiumAmmV4Withdraw", <<4>>,
           8, 22, 22, NoLog)

AmmV4WithdrawPnl ==
  Parser("AmmV4", "RaydiumAmmV4WithdrawPnl", <<7>>,
           0, 17, 17, NoLog)

AmmV4Parsers ==
  <<AmmV4SwapBaseInput, AmmV4SwapBaseOutput, AmmV4Deposit,
    AmmV4Initialize2, AmmV4Withdraw, AmmV4WithdrawPnl>>

\* The instruction_configs a protocol's parser was built with, and its program.
ParsersOf(protocol) ==
  CASE protocol = "PumpFun"  -> PumpFunParsers
    [] protocol = "PumpSwap" -> PumpSwapParsers
    [] protocol = "Bonk"     -> BonkParsers
    [] protocol = "Cpmm"     -> CpmmParsers
    [] protocol = "Clmm"     -> ClmmParsers
    [] protocol = "AmmV4"    -> AmmV4Parsers

Protocols == {"PumpFun", "PumpSwap", "Bonk", "Cpmm", "Clmm", "AmmV4"}

AllParsers == UNION {{ParsersOf(p)[i] : i \in DOMAIN ParsersOf(p)} : p \in Protocols}

\* The comparison of an instruction's first bytes with a discriminator.
DiscriminatorMatches(head, disc) ==
  /\ Len(head) >= Len(disc)
  /\ SubSeq(head, 1, Len(disc)) = disc

(***************************************************************************)
(* Account parsers.                                                        *)
(***************************************************************************)

\* The owner an account parser asks for, and its discriminator.  The decoding is
\* guarded by the size of the layout and is left out.
Account(program, event, disc) == [program |-> program, event |-> event, disc |-> disc]

AccountPumpSwapGlobalConfig ==
  Account("PumpSwap", "AccountPumpSwapGlobalConfig",
            <<149, 8, 156, 202, 160, 252, 176, 217>>)

AccountPumpSwapPool ==
  Account("PumpSwap", "AccountPumpSwapPool",
            <<241, 154, 109, 4, 17, 177, 109, 188>>)

AccountPumpFunBondingCurve ==
  Account("PumpFun", "AccountPumpFunBondingCurve",
            <<23, 183, 248, 55, 96, 216, 172, 96>>)

AccountPumpFunGlobal ==
  Account("PumpFun", "AccountPumpFunGlobal",
            <<167, 232, 232, 177, 200, 108, 114, 127>>)

AccountBonkPoolState ==
  Account("Bonk", "AccountBonkPoolState",
            <<247, 237, 227, 245, 215, 195, 222, 70>>)

AccountBonkGlobalConfig ==
  Account("Bonk", "AccountBonkGlobalConfig",
            <<149, 8, 156, 202, 160, 252, 176, 217>>)

AccountBonkPlatformConfig ==
  Account("Bonk", "AccountBonkPlatformConfig",
            <<160, 78, 128, 0, 248, 83, 230, 160>>)

AccountRaydiumCpmmAmmConfig ==
  Account("Cpmm", "AccountRaydiumCpmmAmmConfig",
            <<218, 244, 33, 104, 203, 203, 43, 111>>)

AccountRaydiumCpmmPoolState ==
  Account("Cpmm", "AccountRaydiumCpmmPoolState",
            <<247, 237, 227, 245, 215, 195, 222, 70>>)

AccountRaydiumClmmAmmConfig ==
  Account("Clmm", "AccountRaydiumClmmAmmConfig",
            <<218, 244, 33, 104, 203, 203, 43, 111>>)

AccountRaydiumClmmPoolState ==
  Account("Clmm", "AccountRaydiumClmmPoolState",
            <<247, 237, 227, 245, 215, 195, 222, 70>>)

AccountRaydiumClmmTickArrayState ==
  Account("Clmm", "AccountRaydiumClmmTickArrayState",
            <<192, 155, 85, 205, 49, 249, 129, 42>>)

\* The one-byte discriminator is the first field, the status.
AccountRaydiumAmmV4AmmInfo ==
  Account("AmmV4", "AccountRaydiumAmmV4AmmInfo", <<6>>)

AccountsOf(protocol) ==
  CASE protocol = "PumpSwap" -> <<AccountPumpSwapGlobalConfig, AccountPumpSwapPool>>
    [] protocol = "PumpFun"  -> <<AccountPumpFunBondingCurve, AccountPumpFunGlobal>>
    [] protocol = "Bonk"     -> <<AccountBonkPoolState, AccountBonkGlobalConfig,
                                  AccountBonkPlatformConfig>>
    [] protocol = "Cpmm"     -> <<AccountRaydiumCpmmAmmConfig, AccountRaydiumCpmmPoolState>>
    [] protocol = "Clmm"     -> <<AccountRaydiumClmmAmmConfig, AccountRaydiumClmmPoolState,
                                  AccountRaydiumClmmTickArrayState>>
    [] protocol = "AmmV4"    -> <<AccountRaydiumAmmV4AmmInfo>>

AllAccounts == UNION {{AccountsOf(p)[i] : i \in DOMAIN AccountsOf(p)} : p \in Protocols}
=============================================================================
