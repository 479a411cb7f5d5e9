SPECIFICATION SessionSpec
CONSTANTS
  Replicas = {r1, r2}
  NoReplica = NoReplica
  Watched = {r1}
  Sessions = {s1}
  NoSession = NoSession
  Deployments <- MCDeployments
  MaxRevokes = 1
CHECK_DEADLOCK FALSE
INVARIANTS SealedKeyIsLeased
PROPERTIES RevokedLeaseDropped SealRestored
