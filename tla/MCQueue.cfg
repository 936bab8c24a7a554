CONSTANTS
  c1 = c1  c2 = c2  p1 = p1  p2 = p2  x0 = x0  x1 = x1

  NoMsg = NoMsg
  Consumers = {c1, c2}
  Producers = {p1, p2}
  Xmarks = {x0, x1}
  Xmark <- OneLaneEach
  Messages = {m1, m2, m3, m4}
  MAX_QUEUE_SIZE = 1
SPECIFICATION Spec
SYMMETRY Symmetry
INVARIANTS CountersRight NoLostWakeup ListsAgree Conservation
PROPERTY LanesFIFO
