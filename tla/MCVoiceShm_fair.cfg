SPECIFICATION FairSpec
CONSTANTS
  c1 = c1
  c2 = c2
  u1 = u1
  u2 = u2
  k1 = k1
  Readers = {r1}
  NoSegment = NoSegment
  NoChannel = NoChannel
  NoChat = NoChat
  NoEntry = NoEntry
  MaxUsers = 1
  MaxSegments = 2
  Attempts = 1
  MaxPublish = 2
  MaxCrashes = 1
  Channels <- ChannelsDef
  Entries <- EntriesDef
  Chats <- ChatsDef
  Publications <- FewPublicationsDef
PROPERTIES Convergence OrphanDropped
CHECK_DEADLOCK FALSE
