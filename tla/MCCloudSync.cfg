\* Two zones read page by page while chats are deleted, calls fail and the process dies once.
SPECIFICATION Spec
CONSTANTS
  p1 = p1
  p2 = p2
  c1 = c1
  c2 = c2
  m1 = m1
  m2 = m2
  NoPortal = NoPortal
  Portals <- MCPortals
  ChatIds <- MCChatIds
  Guids <- MCGuids
  ChatPortal <- MCChatPortal
  Home <- MCHome
  Stamp <- MCStamp
  Alias <- MCAlias
  NoChatId <- MCNoChatId
  FirstChats <- MCFirstChats
  FirstMsgs <- MCFirstMsgs
  MaxErrors = 2
  Passes = 1
  Changes = 1
  CallFaults = 1
  SqlFaults = 1
  Deletes = 1
  Crashes = 1
INVARIANTS
  MessagesKept
PROPERTIES
  NoRoomForDeleted
  GateOpens
CHECK_DEADLOCK FALSE
