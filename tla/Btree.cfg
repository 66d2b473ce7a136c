CONSTANTS
  LeafKey = {1, 2, 3, 4}
  LeafCellLen = {3, 4, 5}
  PageLen = 28
  HeaderStart = 0
  MaxPage = 12
  PageSize = 48
  KeyLen = 9
  Rowid = {1, 2, 3, 4, 5}
  Row <- MCRow
  CellLen <- MCCellLen
  Chain <- MCChain
  Statements = {"delete", "update"}
  RowOf <- MCRowOf
  MaxCalls = 6
  Key = {1, 2, 3, 4, 5, 6, 7}
  KeyCell <- MCKeyCell
  KeyChain <- MCKeyChain
  KeyOf <- MCKeyOf
  MaxIndexed = 3
SPECIFICATION MCSpec
INVARIANTS
  CellsReadBack
  SpaceAccounted
  TreeHoldsRows
  
  PagesFit
  ScanVisitsEachRowOnce
  IndexHoldsKeys
CHECK_DEADLOCK FALSE
