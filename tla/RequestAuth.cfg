SPECIFICATION FairSpec
CONSTANTS
  r1 = r1  c1 = c1  a = a  b = b  d1 = d1  d2 = d2
  connect = connect  sign = sign
  Reqs = {r1}  Clients = {c1}
  Methods <- TwoMethods  Connect = connect
  ClientOf <- OneRequest  MethodOf <- ConnectOnly  WithSecret = {r1}
  Replicas = {a, b}  NoReplica = NoReplica
  Deciders = {d1, d2}  NoReq = NoReq
  GlobalApproval = FALSE  MethodSets <- MCMethodSets  MaxFaults = 1
INVARIANTS AnsweredByAuthority
PROPERTIES EveryRequestAnswered
CHECK_DEADLOCK FALSE
