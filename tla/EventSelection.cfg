SPECIFICATION Spec
CONSTANTS
  Lists <- MCLists
  Filters <- MCFilters
  NoFilter = NoFilter
  Updates <- MCUpdates
  MaxSubs = 2
  MaxReceived = 2
INVARIANTS
  TypeOK
  WantedIsAsked
  OwnExact
PROPERTIES
  OneKindEach
CHECK_DEADLOCK FALSE
