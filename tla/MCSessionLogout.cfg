\* One registration, and a process that dies between the logout and the removal of the files.
SPECIFICATION SessionSpec
CONSTANTS
  Handles = {h1}
  CloudKit = TRUE
  MaxClients = 2
  MaxRegs = 1
  MaxRefreshes = 0
  MaxSessionFaults = 0
INVARIANT NeverResumed
CHECK_DEADLOCK FALSE
