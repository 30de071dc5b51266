CONSTANTS
  Totals = {5, 12, 30}
  Lengths = {5, 10}
  Counts = {0, 1, 2}
  None = None
SPECIFICATION Spec
INVARIANT LoggedTokensAreReported
CHECK_DEADLOCK FALSE
