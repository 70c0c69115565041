------------------------------ MODULE SwapData ------------------------------
(***************************************************************************)
(* What a trade moved, read off the token transfers that follow it among   *)
(* the inner instructions (parse_swap_data_from_next_instructions in       *)
(* event_parser/common/types.rs): from which mint to which, how much the   *)
(* user paid and how much he got.                                          *)
(*                                                                         *)
(* Blocks hold executed transactions only (the request excludes failed     *)
(* ones), so a transfer has all the data and accounts its tag calls for    *)
(* and the slices and indices taken here are in range.  An amount of zero  *)
(* and the default key stand for "not known", as in the code.              *)
(***************************************************************************)
EXTENDS ProtocolParsers, SequencesExt

CONSTANTS
  ProgramOf,   \* the program a key is the address of, if any
  Default,     \* Pubkey::default()
  SolMint,     \* SOL_MINT
  None

SystemPrograms == {"Token", "Token2022", "System"}

PumpFunTrades == {"PumpFunBuy", "PumpFunSell"}
PumpSwapTrades == {"PumpSwapBuy", "PumpSwapSell"}
BonkBuys == {"BonkBuyExactIn", "BonkBuyExactOut"}
BonkTrades == BonkBuys \cup {"BonkSellExactIn", "BonkSellExactOut"}
CpmmSwaps == {"RaydiumCpmmSwapBaseInput", "RaydiumCpmmSwapBaseOutput"}
AmmV4Swaps == {"RaydiumAmmV4SwapBaseIn", "RaydiumAmmV4SwapBaseOut"}

\* The trades whose mints and amounts come from transfers.
PoolTrades == BonkTrades \cup CpmmSwaps \cup AmmV4Swaps \cup {"RaydiumClmmSwap", "RaydiumClmmSwapV2"}

\* Where among its n keys a trade finds the two mints (0: nowhere), the user's two
\* token accounts and the pool's two vaults.
SideKeys(kind, n) ==
  CASE kind \in BonkTrades          -> <<10, 11, 6, 7, 8, 9>>
    [] kind \in CpmmSwaps           -> <<11, 12, 5, 6, 7, 8>>
    [] kind = "RaydiumClmmSwap"     -> <<0, 0, 4, 5, 6, 7>>
    [] kind = "RaydiumClmmSwapV2"   -> <<12, 13, 4, 5, 6, 7>>
    [] kind \in AmmV4Swaps /\ n = 17 -> <<0, 0, 15, 16, 6, 5>>
    [] kind \in AmmV4Swaps /\ n # 17 -> <<0, 0, 16, 17, 7, 6>>
    [] OTHER                        -> <<0, 0, 0, 0, 0, 0>>

\* The two sides of a trade: the mint, the user's account and the pool's vault.
Side(kind, keys, which) ==
  LET at == SideKeys(kind, Len(keys))
      key(i) == IF at[i] = 0 THEN Default ELSE keys[at[i]]
  IN [mint |-> key(which), user |-> key(which + 2), vault |-> key(which + 4)]

\* The mints that the two trades of pump.fun state by themselves.
StatedMints(kind, keys) ==
  CASE kind = "PumpFunBuy"   -> <<SolMint, keys[3]>>
    [] kind = "PumpFunSell"  -> <<keys[3], SolMint>>
    [] kind = "PumpSwapBuy"  -> <<keys[5], keys[4]>>
    [] kind = "PumpSwapSell" -> <<keys[4], keys[5]>>
    [] OTHER                 -> <<Default, Default>>

\* TransferChecked, Transfer and the system program's Transfer, by the first byte;
\* any other instruction, a transfer with a fee among them, is passed over.
Tag(instr) == Head(instr.head)

IsTransfer(instr) ==
  /\ instr.bytes >= 8
  /\ \/ Tag(instr) = 12 /\ Len(instr.accounts) >= 4
     \/ Tag(instr) = 3 /\ Len(instr.accounts) >= 3
     \/ Tag(instr) = 2 /\ Len(instr.accounts) >= 2

Source(instr, vector) == vector[instr.accounts[1] + 1]
Destination(instr, vector) == vector[instr.accounts[IF Tag(instr) = 12 THEN 3 ELSE 2] + 1]

\* Which account pays into which vault, and which vault pays out into which: any
\* but the second account into the first vault, and back.
PaysIn(a, b) == {<<b.user, b.vault>>, <<a.user, a.vault>>, <<a.user, b.vault>>}
PaysOut(a, b) == {<<a.vault, a.user>>, <<b.vault, b.user>>, <<a.vault, b.user>>}

\* A transfer into a vault is what the user paid, one out of a vault what he got.
Noted(swap, instr, vector, a, b) ==
  LET from == Source(instr, vector)
      to == Destination(instr, vector)
  IN IF <<from, to>> \in PaysIn(a, b)
       THEN [swap EXCEPT !.paid = instr.amount,
                         !.fromMint = IF from = b.user THEN b.mint ELSE a.mint]
     ELSE IF <<from, to>> \in PaysOut(a, b)
       THEN [swap EXCEPT !.got = instr.amount,
                         !.toMint = IF to = a.user THEN a.mint ELSE b.mint]
     ELSE swap

\* Looked at only after a transfer.
Complete(swap) ==
  \/ swap.fromMint # Default /\ swap.toMint # Default
  \/ swap.paid # 0 /\ swap.got # 0

IsSystem(instr, vector) == ProgramOf[vector[instr.prog + 1]] \in SystemPrograms

\* Mutant: the loop goes on past another program's instruction.
FollowersAll(group, j, vector) == j + 1 .. Len(group)

\* The places after the jth, up to the first instruction of another program.
Followers(group, j, vector) ==
  {i \in j + 1 .. Len(group) : \A k \in j + 1 .. i : IsSystem(group[k], vector)}

\* The loop is over with the first transfer that completes the swap data.
NotedUntil(seen, instr, vector, a, b) ==
  LET swap == Noted(seen.swap, instr, vector, a, b)
  IN IF seen.over \/ ~IsTransfer(instr) THEN seen
     ELSE [swap |-> swap, over |-> Complete(swap)]

NothingTold == [fromMint |-> Default, toMint |-> Default, paid |-> 0, got |-> 0]

\* The swap data of a trade: j is its place among the inner instructions, 0 for
\* an outer instruction, whose transfers are looked for from the first on.
SwapOf(kind, keys, group, j, vector) ==
  LET mints == StatedMints(kind, keys)
      start == [NothingTold EXCEPT !.fromMint = mints[1], !.toMint = mints[2]]
      after == Followers(group, j, vector)
      seen[i \in 0 .. Len(group)] ==
        IF i = 0 THEN [swap |-> start, over |-> FALSE]
        ELSE IF i \notin after THEN seen[i - 1]
        ELSE NotedUntil(seen[i - 1], group[i], vector, Side(kind, keys, 1), Side(kind, keys, 2))
      swap == seen[Len(group)].swap
  IN IF swap = NothingTold THEN None ELSE swap
=============================================================================
