SPECIFICATION PartsSpec
CONSTANTS
  FrFrames <- FramesDef
  FrObjects = {"o1", "o2"}
  FrPublishes = 3
  AvKeys = {"a", "b"}
  AvDrops = 1
  CfTexts <- TextsDef
  CfClients = {"c1", "c2"}
  CfTurns = 2
  AuWorlds <- WorldsDef
  AuTurns = 6
INVARIANTS PartsTypeOK FrameAtomic QueueExact StaleIsPending ApprovalKept
PROPERTIES FrameConverges RequestsEnd ConfigConverges ClientsAnswered SignsIn
CHECK_DEADLOCK FALSE
