CONSTANTS
  Proc = {p1, p2, p3}
SPECIFICATION FairSpec
INVARIANTS LockStateBacked ExclusiveIsAlone
PROPERTIES ImplementsLadder WriterNotStarved
