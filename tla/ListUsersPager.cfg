CONSTANTS
  PageSize = 10
  MaxPages = 50
  UserCounts <- MCUserCounts
  MaxChanges = 0
  UsePagination = TRUE
SPECIFICATION Spec
INVARIANT TypeOK
INVARIANT CollectsListPrefix
