SPECIFICATION Spec
CONSTANTS
  NULL = NULL
  Freed = Freed
  Keys = {1, 2, 3, 4, 5, 6, 7, 8, 9, 10, 11}
  Updatable = {6}
  NodeIds = {1, 2, 3, 4, 5, 6, 7, 8, 9, 10, 11, 12}
  InnerFanout = 3
  OuterFanout = 4
VIEW TreeView
INVARIANTS TypeOK ChainHoldsTheMap TreeIsBalanced EveryKeyIsFound CallsGoOn
PROPERTIES EraseReturnsSuccessor ImplementsMap
