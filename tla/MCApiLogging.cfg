CONSTANTS
  Limits = {0, 2}
  RequestPreview = 1
  ResponsePreview = 2
  Sizes = {0, 1, 2}
  Statuses = {200, 400}
  MaxBody = 4
SPECIFICATION Spec
INVARIANTS TypeOK OneResponse ReadWithinLimit LogAgreesWithWire
CHECK_DEADLOCK FALSE
