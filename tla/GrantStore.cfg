SPECIFICATION Spec
SYMMETRY Symmetry
CONSTANTS
  Clients = {c1, c2}
  Slots = {default, publisher}
  SlotDefault = default
  Methods = {m}
  SlidingGrantTTL = 2
  SlidingGrantRefreshEvery = 0
  Procs = {p1}
  Backends = {"postgres", "sqlite"}
  AnySlot = AnySlot
  NoClient = NoClient
  MaxGrantRenewal = 2
  SingleFlags = {TRUE, FALSE}
  MaxNow = 2
  NamedExpiries <- NoneOrSoon
  MethodSets <- OneMethodSet
INVARIANTS SlotExclusive OneLiveGrantPerSlot
PROPERTIES NoSideEffectDisplacement NoRevival
