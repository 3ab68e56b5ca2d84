SPECIFICATION MCSpec
CONSTANTS
    Ids <- threeIds
    Services = {"svc", "api"}
    ActiveEnvs = {"prod", "test"}
    Sources <- ci
    Bodies <- everyBody
    Edits <- everyEdit
    Sessions = {s1, s2, me}
    Me = me
    MaxClock = 2
    MaxEdits = 2
    MonthLength = 2
    Service = "svc"
    Masters = {"api"}
    Workflow <- testThenProd
    Public <- published
    Typed <- everyTyped
    Filters <- filterSettings
    Deployments = {d1}
    ApiKeyed = {d1}
    Hooks = {h1, h2}
    Targets = {"t1"}
    MaxConfigs = 2
    Subscriptions <- EverySubscription
    FirstStatuses = {"DEPLOYED"}
    MaxRows = 2
    MaxDispatches = 2
SYMMETRY Interchangeable
INVARIANTS TypesOK PhasesOnTheirSide ExportRoundTrips RollbackGoesBack
    TellsNoOlderMove EachMatchIsTried SendsFollowTheTarget ReadersAgree
PROPERTIES SavesAreOfThatEvent ConfirmedMoveIsShown
\* An instance stops when its identifiers and its edits are used up.
CHECK_DEADLOCK FALSE
