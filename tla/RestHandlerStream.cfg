\* A request is over once it is answered.
CHECK_DEADLOCK FALSE
CONSTANTS
  MaxInt = 7
  Limits = {1, 3, 6}
  BodySizes = {0, 1, 2, 3, 4, 6, 7}
  Validates = {TRUE, FALSE}
  Statuses = {0, 99, 150, 204, 404, 600}
  SuccessStatus = 200
  MaxEvents = 2
SPECIFICATION Spec
INVARIANT StreamAlwaysClosed
