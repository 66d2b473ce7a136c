CONSTANTS
  MaxPage = 4
  PageSize = 12
  MaxOps = 2

SPECIFICATION Spec

INVARIANTS
  NoPageLost
  TransactionsAtomic
  LockEndsWithTransaction
