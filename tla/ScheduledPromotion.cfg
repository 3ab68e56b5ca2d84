CONSTANTS
  Deployments = {d1}
  ApiKeyed = {}
  Requests = {p1}
  Crons = {c1}
  Tokens = {}
  Roles = {"devops"}
  FirstStatuses = {"SCHEDULED", "GO_CONFIRMED"}
  MaxRows = 1
  MaxEmits = 1
  MaxRestarts = 0
SPECIFICATION FairSpec
PROPERTIES ScheduledIsPromoted
