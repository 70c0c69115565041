SPECIFICATION Spec
CONSTANTS
  Tasks = {t1, t2}
  t1 = t1
  t2 = t2
  Txs <- MCTxs
  Batch = 2
  Programs <- MCPrograms
  Kinds <- MCKinds
  ProgramOf <- MCProgramOf
  Default = "none"
  SolMint = "sol"
  BotWallet = "bot"
  IndexRange = 256
  None = None
INVARIANTS
  IInv
  KeysAreNamed
  NothingMissed
  LogWhenAlone
  DevMarksExact
  SwapIsOwn
  PanicOnlyUnderGuarded
CHECK_DEADLOCK FALSE
