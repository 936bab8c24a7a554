\* Batches of 3 of at most 4 rows; the worker commits at every other tick.
CONSTANTS
  m1 = m1  m2 = m2  m3 = m3  m4 = m4
  Messages = {m1, m2, m3, m4}
  BATCH = 3
  ITER = 2
  Cases <- SomeCases
SPECIFICATION FairSpec
INVARIANTS CommitSafe NoRowLost FinalFlush RowsRight
PROPERTIES AutoCommit FreeReturns
