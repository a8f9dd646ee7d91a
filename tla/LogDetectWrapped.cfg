SPECIFICATION FairSpec
CONSTANTS
  Size = 4
  Lens = {1, 2}
  MaxSeq = 6
INVARIANT NewestFoundAnywhere
CHECK_DEADLOCK FALSE
