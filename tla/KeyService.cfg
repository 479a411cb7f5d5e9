SPECIFICATION Spec
CONSTANTS
  Loaders = {p1}
  Evictors = {p2}
  MaxClients = 3
  MaxConns = 5
  MaxEvents = 2
  MaxLoads = 2
  MaxBaseConns = 4
  MaxOutages = 3
  Replicas = {r1, r2}
  NoReplica = NoReplica
  RecordTTL = 3
  ForwardSkew = 1
  Offsets <- MCOffsets
  MaxTime = 3
  MaxMessages = 1
  MaxLogins = 2
  MaxFaults = 1
  Forwards = {f1, f2}
  Loop = Loop
  MaxUpstream = 7
  MaxDrops = 1
CHECK_DEADLOCK FALSE
INVARIANTS SubscriptionMatchesKeys AckSurvivesDeadConnection ServedOnce SoleHolderIsFound LostConnectionTold
PROPERTIES HeardAgain DeletedKeyLeavesMemory UpstreamComesBack
