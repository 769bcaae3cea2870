SPECIFICATION FairSpec
CONSTANTS
  w1 = w1
  Senders = {w1}
  Queries = 2
  Batch = 2
  Conns = 2
  MaxMishaps = 2
INVARIANTS TypeOK AllOrNothing ErrorsComeFromOutside ReportedSurvives ProgressIsSaved
PROPERTIES PromiseKept WritesEnd
CHECK_DEADLOCK FALSE
