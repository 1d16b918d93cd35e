\* One submission with its poll loop, and query_result processes on its row.
\* A process that ended or was killed takes no further step: no deadlock check.
SPECIFICATION Spec
CONSTANTS
  Submitters = {s1}
  Queriers = {q1}
  NoRow = NoRow
  NoId = NoId
CHECK_DEADLOCK FALSE
INVARIANTS TypeOK NoFalseSuccess NoFalseFailure OneRowPerSubmission RenamedIsReachable NotFoundMeansRenamed PollGivesUpOnlyAtDeadline
PROPERTIES PollEnds
