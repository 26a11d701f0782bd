\* Two jobs, edited once; the schedule of a recurring one overflows.
SPECIFICATION FairSpec
CONSTANTS
  Dues <- MCDues
  Steps = {0, 1}
  MaxTimeout = 1
  MaxDate = 3
  MaxJobs = 2
  MaxEditions = 2
  MaxTime = 3
PROPERTIES
  SentOnce
  DueIsSent
CHECK_DEADLOCK FALSE
