SPECIFICATION CompileSpec
CONSTANTS
  Requests <- MCRequests
  Trees <- AllTrees
  Filters <- MCFilters
  Logics = {"and"}
  MaxFilterDepth = 3
  MaxFilterNodes = 4
  MaxValues = 3
  MaxMembership = 1
  MaxStringBytes = 2
  MaxErrors = 3
  NoPredicate = NoPredicate
  Fields <- MCFields
  Relations <- MCRelations
  SortDefs <- MCSortDefs
  DefaultSort <- MCDefaultSort
  Pagination <- MCPagination
  DecoderStates <- MCDecoderStates
  MaxFields = 3
  MaxIncludes = 2
  MaxIncludeDepth = 2
  MaxSorts = 2
  MaxPageSize = 2
  MaxCost = 10
  MaxInt = 11
  Absent = Absent
  NoCursor = NoCursor
INVARIANTS PlanIsTheRequest PlanAuthorized AuthorizerLoad CostIsPrice 
CHECK_DEADLOCK FALSE
