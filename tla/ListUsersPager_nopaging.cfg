CONSTANTS
  PageSize = 10
  MaxPages = 50
  UserCounts <- MCAllCounts
  MaxChanges = 0
  UsePagination = FALSE
SPECIFICATION Spec
INVARIANT CollectsListPrefix
