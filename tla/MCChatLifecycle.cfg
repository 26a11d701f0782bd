\* One chat, an old message and a new one; one act of a user and one restart.
SPECIFICATION Spec
CONSTANTS
  p1 = p1
  c1 = c1
  m1 = m1
  m2 = m2
  NoPortal = NoPortal
  Portals <- MCPortals
  ChatIds <- MCChatIds
  Guids <- MCGuids
  ChatPortal <- MCChatPortal
  Home <- MCHome
  Stamp <- MCStamp
  Alias <- MCAlias
  Old <- MCOld
  Attempts = 1
  Copies = 1
  Changes = 1
  Restarts = 1
PROPERTIES
  NoZombie
  RestoredInFull
  RestoreArrives
CHECK_DEADLOCK FALSE
