CONSTANTS
  Recent = {d1, d2, d3}
  Handlers = {h1}
  Sweeps = {s1}
  At <- pair
  d1 = d1
  d2 = d2
  d3 = d3
  Window = 1
  Masters = {}
  NamedByMaster = FALSE
  Lots = {r1, r2}
  MaxEdits = 1
SPECIFICATION LotSpec
PROPERTIES ManualLotUntouched
SYMMETRY Interchangeable
