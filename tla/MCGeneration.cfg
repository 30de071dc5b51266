SPECIFICATION Spec
CONSTANTS
  MaxSegments = 3
  MaxBase = 3
  Requests <- SomeRequests
  OutputLists <- SomeOutputs
INVARIANTS TypeOK ReceivedAsPlanned AutomaticModeIsAccepted SavedAssetsAreReported LogAgreesWithReports
PROPERTIES ImplementsPromise
CHECK_DEADLOCK FALSE
