SPECIFICATION Spec
CONSTANTS
  a = a
  b = b
  me = me
  you = you
  Self = me
  Users = {me, you}
  Channels = {a, b}
  NoChannel = NoChannel
  InitialMembers <- InitialMembersDef
  MaxAttempts = 2
  MaxSelects = 2
  MaxMoves = 2
  MaxPosts = 0
  MaxFlips = 0
  MaxDrops = 0
  MaxRefusals = 0
  Races <- RosterRaces
INVARIANTS RosterAgrees
