CONSTANTS
  Recent = {d1, d2, d3}
  Deployments = {e1, e2}
  d1 = d1
  d2 = d2
  d3 = d3
  ApiKeyed = {e1}
  Requests = {p1, p2}
  Crons = {c1}
  Tokens = {t1}
  Roles = {}
  FirstStatuses = {"GO_CONFIRMED"}
  MaxRows = 2
  MaxEmits = 1
  MaxRestarts = 1
  Handlers = {h1}
  Sweeps = {s1}
  At <- chain
  Window = 1
  Masters = {d1}
  NamedByMaster = TRUE
  Lots = {r1}
  MaxEdits = 1
SPECIFICATION JobsSpec
INVARIANTS LotTypeOK SettledIsGrouped
PROPERTIES SweepSettles CalmSweepSparesManualLots NeighboursMeet DueIsPromoted
