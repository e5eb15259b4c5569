SPECIFICATION Spec
CONSTANTS
  a = a
  b = b
  me = me
  you = you
  Self = me
  Users = {me, you}
  Channels = {a, b}
  NoChannel = NoChannel
  InitialMembers <- InitialMembersDef
  MaxAttempts = 2
  MaxSelects = 2
  MaxMoves = 1
  MaxPosts = 0
  MaxFlips = 1
  MaxDrops = 0
  MaxRefusals = 1
  Races <- SwitchRaces
INVARIANTS TypeOK ChannelAgrees SubscriptionsExact ShownIsHeard
