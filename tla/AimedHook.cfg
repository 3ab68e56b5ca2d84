CONSTANTS
  Deployments = {d1}
  ApiKeyed = {}
  Hooks = {h1}
  Targets = {}
  Subscriptions <- AimedOnly
  FirstStatuses = {"DEPLOYED"}
  MaxConfigs = 1
  MaxRows = 2
  MaxDispatches = 2
SPECIFICATION HookSpec
INVARIANTS AimedHookIsTold
