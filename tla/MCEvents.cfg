\* A message, the ring and the end of a call, and two processes; a sent message, two GUIDs
\* without a row and a peer's message, in a buffer for two messages and two controls of each.
SPECIFICATION AnySpec
CONSTANTS
  text = text
  ring = ring
  hangup = hangup
  p1 = p1
  p2 = p2
  NoProcess = NoProcess
  Text = {text}
  Signal = {}
  Ring = {ring}
  CallEnd = {hangup}
  Process = {p1, p2}
  m1 = m1
  x1 = x1
  x2 = x2
  f1 = f1
  r1 = r1
  e1 = e1
  None = None
  Own = {m1}
  Elsewhere = {x1, x2}
  Foreign = {f1}
  Recipient = {r1}
  Code = {e1}
  MaxMessages = 2
  MaxControls = 2
  Window = 0
  MaxTime = 1
INVARIANTS
  NoTombstone
  DuplicateNeedsCrash
  StatusIsBacked
  Accounted
  ToldInOrder
SYMMETRY MCSymmetry
CHECK_DEADLOCK FALSE
