CONSTANTS
  Deployments = {d1}
  ApiKeyed = {}
  Hooks = {h1}
  Targets = {}
  Subscriptions <- EverySubscription
  FirstStatuses = {"DEPLOYED"}
  MaxConfigs = 1
  MaxRows = 2
  MaxDispatches = 1
SPECIFICATION HookSpec
INVARIANTS DeletedHookIsGone
