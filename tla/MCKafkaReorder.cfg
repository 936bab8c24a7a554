\* Two producers finish in the other order.
CONSTANTS
  End = 2
  Teams = {{p1, p2}}
  Outputs = {TRUE}
  Crashes = 1
SPECIFICATION Spec
INVARIANT AtLeastOnce
CHECK_DEADLOCK FALSE
