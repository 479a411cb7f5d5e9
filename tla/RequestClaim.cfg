SPECIFICATION FairSpec
CONSTANTS
  Replicas = {r1, r2}
  LeaseTTL = 2
  HeartbeatIvl = 1
  WatchBudget = 6
  DoneTTL = 7
  DeliveryWindow = 3
  ProcessTime = 3
  Free = Free
  Done = Done
  MaxCrashes = 1
  MaxCuts = 1
INVARIANTS OwnerKeepsLease AtMostOnceWithoutFaults
PROPERTIES DoneStopsTakeover FailoverDispatches
