SPECIFICATION OverlaySpec
CONSTANTS
  c1 = c1
  c2 = c2
  u1 = u1
  u2 = u2
  k1 = k1
  Readers = {r1}
  NoSegment = NoSegment
  NoChannel = NoChannel
  NoChat = NoChat
  NoEntry = NoEntry
  MaxUsers = 1
  MaxSegments = 2
  Attempts = 2
  MaxPublish = 2
  MaxCrashes = 0
  Channels <- ChannelsDef
  Entries <- EntriesDef
  Chats <- ChatsDef
  Publications <- PublicationsDef
  CmpPanels <- CmpPanelsDef
  CmpFormats = {1, 2}
  CmpSmall = 1
  CmpWorlds <- CmpWorldsDef
  GlProfiles = {"core", "gles"}
  GlNames = {1, 2}
  GlPanels <- GlPanelsDef
  GlGames <- GlGamesDef
INVARIANTS OverlayTypeOK SeqlockInv PendingKept FrameComposited DrawBound OverlayOwns
PROPERTIES SnapshotIsAtomic SequenceMonotonic PanelSampled GameStateKept
CHECK_DEADLOCK FALSE
