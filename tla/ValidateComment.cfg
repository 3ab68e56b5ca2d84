CONSTANTS
  Deployments = {d1}
  ApiKeyed = {}
  Requests = {p1}
  Crons = {c1}
  Tokens = {t1}
  Roles = {"qa"}
  FirstStatuses = {"TESTING"}
  MaxRows = 2
  MaxEmits = 1
  MaxRestarts = 0
SPECIFICATION Spec
INVARIANTS ValidateHasComment
