\* Two chats with history, one more message late and one both late and live, a delayed pass, a room that fails.
SPECIFICATION Spec
CONSTANTS
  p1 = p1
  p2 = p2
  c1 = c1
  c2 = c2
  h1 = h1
  h2 = h2
  l1 = l1
  l2 = l2
  NoPortal = NoPortal
  NoMsg = NoMsg
  Portals <- MCPortals
  ChatIds <- MCChatIds
  Guids <- MCGuids
  ChatPortal <- MCChatPortal
  Home <- MCHome
  Stamp <- MCStamp
  Alias <- MCAlias
  History <- MCHistory
  Live <- MCLive
  Late <- MCLate
  Passes = 1
  Earlier <- MCEarlier
  Limit = 5
  Page = 1
  Failures = 1
INVARIANTS
  HistorySorted
PROPERTIES
  FlushAfterHistory
  LiveShown
CHECK_DEADLOCK FALSE
