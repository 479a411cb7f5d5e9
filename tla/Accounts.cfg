SPECIFICATION Spec
CONSTANTS
  Keys = {k1, k2}
  NoKey = NoKey
  Handlers = {h1, h2}
  MaxPassword = 3
  MaxHandled = 4
  MaxCustodyFaults = 1
  Nonces = {c1, c2}
  Users = {u1, u2}
  NoUser = NoUser
  Wallets = {w1}
  NoWallet = NoWallet
  Browsers = {b1, b2}
  NoBrowser = NoBrowser
  Callers = {p1, p2}
  Apps = {a1}
  NoApp = NoApp
  Servers = {s1, s2}
  NoServer = NoServer
  Posts = {q1}
  MaxPosts = 4
  MaxUnlocks = 2
  MaxConnectFaults = 1
  MaxLinks = 2
INVARIANTS RevokedStaysOut LockedAfterUnlock KeysFollowPassword VaultFollowsPassword NothingOutlivesAccount TransitKeyOnRecord
PROPERTIES TransitKeyGoes ChallengeIsOneTime SeenLoginConfirmed
CHECK_DEADLOCK FALSE
