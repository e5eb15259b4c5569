SPECIFICATION Spec
CONSTANTS
  main = main
  second = second
  Chains = {main, second}
  Images = {1, 2}
  ImagesOf <- ImagesOfDef
  Drawable = {main, second}
  Slots = 2
  Sems <- SemsDef
  NoSem = NoSem
  Families = {f1}
  NoFamily = NoFamily
  WaitCounts = {1}
  MaxWaits = 2
  WineModes = {"native"}
  Faults <- UnevenFrames
INVARIANTS BehindOverlay
CHECK_DEADLOCK FALSE
