SPECIFICATION MediumSpec
CONSTANTS
  Rests = {r1}
  Lost = Lost
  MaxSeq = 3
  Troubles = {"tear", "fail"}
  Readers = {"t1", "t2"}
  Entries = {0, 1}
  Values = {0, 1}
  Free = Free
  Wanted <- SomeWanted
  Failing = {0}
  Empty = Empty
  FirstSeqs = {1}
  MaxGen = 2
INVARIANTS HeaderSurvives CachedHeaders Inv CacheCoherent AnswersCurrent
PROPERTIES SequenceGrows ReadsEnd
