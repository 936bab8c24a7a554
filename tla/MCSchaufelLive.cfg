CONSTANTS
  c1 = c1  c2 = c2  p1 = p1  p2 = p2  x0 = x0  x1 = x1
  NoMsg = NoMsg
  Consumers = {c1}
  Producers = {p1}
  Xmarks = {x0, x1}
  Xmark <- OneLane
  Messages = {m1, m2}
  MAX_QUEUE_SIZE = 0
SPECIFICATION SchaufelFairSpec
PROPERTIES ShutdownCompletes GetReturns
