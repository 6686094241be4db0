SPECIFICATION Spec
CONSTANTS
  TokenScale = 2
  Limits <- TwoBudgets
  Meters <- ThreeMeters
  MaxTime = 3
  MaxRequests = 3
  MaxOrders = 2
  OrderQty = 2
  DefaultWait = 1
INVARIANTS
  BudgetsHold
  SlotsExact
  ActorPictureSound
  BackoffCoversAdvice
PROPERTIES
  AdviceIsHonest
  
CHECK_DEADLOCK FALSE
