SPECIFICATION ValidateSpec
CONSTANTS
  Size = 5
  Lens = {1, 2, 3}
  MaxSeq = 7
INVARIANTS TypeOK CandidateComplete NewestFound
INVARIANTS AcceptedHasNoLog ValidatorAgrees FirstLapAccepted
PROPERTY ScanEnds
CHECK_DEADLOCK FALSE
