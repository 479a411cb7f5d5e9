SPECIFICATION Spec
CONSTANTS
  Order = 5
  Hash <- MCHash
  None = None
  EventHash = 1
  SignerNonces <- MCSignerNonces
  UserNonces <- MCUserNonces
  Calls = {c1, c2}
  CosignTTL = 3
  PublishTimeout = 1
  WaitTimeout = 2
  Origins = {"dkg", "local", "pathB"}
  MaxSessions = 2
  MaxFaults = 2
  Threshold = 2
  TotalShares = 3
  Polynomials <- MCPolynomials
  NoncePairs <- MCNoncePairs
  Event = 1
  Users = {u1, u2}
  Nobody = Nobody
  KeyIds = {k1, k2}
  NoKey = NoKey
  Requests = {q1, q2}
  Backends = {"postgres", "sqlite", "memory"}
  MaxRequests = 5
  MaxShareFaults = 2
  Signers = {"a", "b", "c"}
  NoSigner = NoSigner
  Invitations <- MCInvitations
  MaxCopies = 1
  MaxNetFaults = 2
SYMMETRY Symmetry
CHECK_DEADLOCK FALSE
INVARIANT EveryKeySigns
