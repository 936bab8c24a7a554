SPECIFICATION FairSpec
CONSTANTS
  Messages = {m1, m2, m3}
  PipeMax = {0, 1, 2, 3}
INVARIANTS RepliesMatch ProducerLoss ConsumerLoss
PROPERTIES CallReturns
CHECK_DEADLOCK FALSE
