\* One message of two attachments; two stored attachments; two albums, whose lists show two
\* photos; two chats of one contact; two calls and three links.
SPECIFICATION AnySpec
CONSTANTS
  Guids = {g1}
  Indices = {0, 1}
  MaxAttempts = 2
  MaxPushes = 2
  MaxFaults = 1
  MaxUserActs = 1
  photo = photo
  huge = huge
  Attachments = {photo, huge}
  FileSize <- MCFileSize
  RealSize <- MCRealSize
  Wrap = 32
  LivePhotos = {photo}
  Limit = 4
  Budget = 2
  Parallel = 2
  MaxRetries = 1
  MaxSweeps = 2
  MaxFetches = 2
  MaxFailures = 1
  MaxRestarts = 1
  Albums = {a1, a2}
  Photos = {1, 2}
  ShownMax = 2
  MaxDownloads = 1
  MaxAlbumFaults = 1
  n1 = n1
  n2 = n2
  Chats = {n1, n2}
  Contact <- MCContact
  Times = {1, 2, 3, 4}
  PageSize = 1
  MaxReadFaults = 1
  MaxCalls = 2
  MaxLinks = 3
  MaxCallFaults = 1
INVARIANTS
  NoticesRecovered
  BytesBounded
  SweepsGiveUp
  AlbumsRight
  EachMessageOnce
  LinksLeadHome
CHECK_DEADLOCK FALSE
