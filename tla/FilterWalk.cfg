SPECIFICATION WalkSpec
CONSTANTS
  Trees <- MCTrees
  Filters <- MCFilters
  Logics = {"and", "not"}
  MaxFilterDepth = 3
  MaxFilterNodes = 4
  MaxValues = 3
  MaxMembership = 2
  MaxStringBytes = 2
  MaxErrors = 3
  NoPredicate = NoPredicate
INVARIANTS NothingDropped WithinBudget
CHECK_DEADLOCK FALSE
