SPECIFICATION Spec
CONSTANTS
  Workers = {w1, w2}
  Callbacks = {c1}
  Syncs = {s1, s2}
  Grants = {g1, g2}
  MaxIssued = 3
  Nobody = Nobody
SYMMETRY Alike
INVARIANTS
  TokensAreCurrent
  RefreshesAreNeeded
  SyncingIsExplained
