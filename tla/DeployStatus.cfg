CONSTANTS
  Deployments = {d1}
  ApiKeyed = {}
  Requests = {p1, p2}
  Crons = {c1}
  Tokens = {t1, t2}
  Roles = {"devops", "qa"}
  FirstStatuses = {"GO_CONFIRMED", "TESTING"}
  MaxRows = 3
  MaxEmits = 1
  MaxRestarts = 1
SPECIFICATION Spec
INVARIANTS TypeOK HistoryIsTrail LinkMovesOnce AuditedClickMoved
PROPERTIES ImplementsTrail PromotedWhenDue
SYMMETRY Interchangeable
