SPECIFICATION VisitorsSpec
CONSTANTS
    Nodes = {"n1", "n2", "n3"}
    Parents = {p1, p2}
    Slugs <- mcSlugs
    Requests = {r1, r2}
    Screens = {s1}
    MaxStarts = 2
    EnvSlugs = {prod, qa}
    References = {p1, p2}
    Events = {e1}
    Names = {"Bug", "bug", "Fix"}
    SlugOf <- mcSlugOf
    Colors = {red}
    Jobs = {r1, r2}
    MaxJobs = 2
    Users = {"ann", "bob"}
    Groups = {"admins", "guests"}
    RoleOf <- mcRoleOf
    Keys = {"k1", "k2"}
    UserOf <- mcUserOf
    Attempts = {r1, r2}
    Syncs = {r1, r2}
    LIMIT = 2
    WINDOW = 2
    TTL = 2
    MaxNow = 2
    MaxAttempts = 4
    MaxSyncs = 3
    MaxChanges = 1
    Companies = {"acme"}
    Products = {"app"}
    Services = {"svc", "api"}
    CompanyOf <- mcCompanyOf
    ProductOf <- mcProductOf
    Environments = {"prod"}
    Lots = {"L1"}
    Entries <- mcEntries
    Feeds <- mcFeeds
    Visitors = {"v1"}
    Consoles = {"c1"}
    MaxVisits = 1
    MaxSettings = 2
    Tree <- mcTree
    Here <- mcHere
    Order <- mcOrder
    User = "ann"
    Ids <- mcIds
    Now = 3
    MaxLines = 2
    MaxMeddling = 1
INVARIANT ApiKeepsThePublicRule
CHECK_DEADLOCK FALSE
