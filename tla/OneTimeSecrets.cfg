SPECIFICATION Spec
CONSTANTS
  Tokens = {t1}
  Secrets = {s1}
  Clients = {c1}
  NoClient = NoClient
  NoItem = NoItem
  Procs = {p1, p2}
  Workers = {w1, w2}
  Backends = {"sql", "memory"}
  Limits = {1}
  MaxRequests = 3
SYMMETRY InFlight
INVARIANTS NoLateAcceptance UsageLimitHolds
PROPERTIES MemoryIsOneTime
