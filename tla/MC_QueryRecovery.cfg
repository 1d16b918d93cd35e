\* Any sequence of history answers to one task.
SPECIFICATION Spec
CONSTANTS
  RawProgress = {0, 30, 120}
  MaxImages = 1
  MaxVideos = 1
  NoItem = NoItem
INVARIANTS TypeOK SuccessHasEvidence FailureHasEvidence RunningHasProgress
PROPERTIES FailedLookupLosesNothing
