\* One cell more than fit, so that freed cells are used again.
CONSTANTS
  n1 = n1  n2 = n2  n3 = n3  n4 = n4
  Nodes = {n1, n2, n3, n4}
  Xmarks = {x0, x1}
  MAX_QUEUE_SIZE = 2
  NULL = NULL
SPECIFICATION Spec
SYMMETRY Symmetry
INVARIANT PointersRight
PROPERTY LanesFIFO
