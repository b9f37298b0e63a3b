SPECIFICATION Spec
CONSTANTS
  a0 = a0
  a1 = a1
  a2 = a2
  a3 = a3
  sequel = sequel
  other = other
  Anime = {a0, a1, a2, a3}
  Types = {sequel, other}
  Root = a0
  RelationLists <- ShortLists
  Budgets = {1, 2, 20}
  Depths = {0, 1, 2}
  NoBound = NoBound
  Unread = Unread
INVARIANTS
  TypeOK
  CompleteIsAll
  NothingElse
  Reported
  DepthIsExact
  BudgetIsExact
CHECK_DEADLOCK FALSE
