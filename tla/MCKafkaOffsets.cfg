\* One producer or two, an output that answers or kafka's buffer.
CONSTANTS
  End = 3
  Teams = {{p1}, {p1, p2}}
  Outputs = {TRUE, FALSE}
  Crashes = 2
SPECIFICATION FairSpec
INVARIANTS AtLeastOnceIfSingle LossBound
PROPERTIES LossExplained AllMoved
CHECK_DEADLOCK FALSE
