SPECIFICATION Spec
CONSTANTS
  Lists <- MCLists
  Filters <- MCFilters
  NoFilter = NoFilter
  Updates <- MCUpdates
  MaxSubs = 2
  MaxReceived = 2
INVARIANTS
  CallbackIsOwn
CHECK_DEADLOCK FALSE
