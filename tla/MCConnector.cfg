\* A session of two registrations, three clients; one message, one answer, one reaction;
\* a message sent and an old one, with two receipts.
SPECIFICATION AnySpec
CONSTANTS
  Handles = {h1}
  CloudKit = TRUE
  MaxClients = 3
  MaxRegs = 2
  MaxRefreshes = 1
  MaxSessionFaults = 2
  UserMessages = {m1}
  Incoming = {x1}
  Reactions = {r1}
  MaxWorld = 1
  MaxSendFaults = 1
  Sent = {u1}
  Old = {o1}
  Direct = direct
  Group = group
  Regroup = regroup
  Tries = 3
  MaxReceipts = 2
  MaxFaults = 1
INVARIANTS
  RegistersOnce
  OneConnection
  SuccessorKept
  LoggedOutStaysOut
  EveryPieceRecalled
  NoSilentLoss
  
  MarkersInPlace
CHECK_DEADLOCK FALSE
