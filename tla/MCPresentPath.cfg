SPECIFICATION FairSpec
CONSTANTS
  main = main
  second = second
  Chains = {main, second}
  Images = {1, 2}
  ImagesOf <- ImagesOfDef
  Drawable = {main, second}
  Slots = 2
  Sems <- SemsDef
  NoSem = NoSem
  Families = {f1, f2}
  NoFamily = NoFamily
  WaitCounts = {2}
  MaxWaits = 2
  WineModes = {"native", "auto", "disable"}
  Faults <- AllButAmbiguous
INVARIANTS PoolInv PoolAccounted AvailableIsIdle PoolBounded WaitsOnce PresentFollowsOverlay
PROPERTIES DestroyedOnlyDone HookReturns
CHECK_DEADLOCK FALSE
