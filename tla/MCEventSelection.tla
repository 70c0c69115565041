-------------------------- MODULE MCEventSelection --------------------------
(* Instances of EventSelection for TLC. *)
EXTENDS EventSelection

MCLists ==
  {<<"PumpFun">>, <<"Bonk", "PumpSwap", "PumpFun">>, <<"Cpmm", "Clmm", "AmmV4", "Cpmm">>}

MCFilters ==
  {NoFilter, {}, {"BlockMeta"}, {"PumpFunBuy", "BonkBuyExactIn"},
   {"AccountBonkPoolState", "PumpFunSell"}, {"AccountBonkVestingRecord"}}

MCUpdates ==
  {[class |-> "transaction", kinds |-> {"PumpFunBuy", "PumpFunSell", "RaydiumCpmmDeposit"}],
   [class |-> "account", kinds |-> {"AccountBonkPoolState"}],
   [class |-> "block", kinds |-> {"BlockMeta"}]}
=============================================================================
