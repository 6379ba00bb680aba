CONSTANTS
  PageSize = 2
  MaxPages = 3
  UserCounts <- MCSmallCounts
  MaxChanges = 2
  UsePagination = TRUE
SPECIFICATION Spec
INVARIANT PageSummaryConsistent
