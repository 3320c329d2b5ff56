CONSTANTS
    Parts = {"publication", "queue", "wallets", "community", "oracle", "gateway"}
    Users = {u1, u2}
    Requesters = {u1}
    Callers = {c1, c2}
    None = None
    rain = rain
    snow = snow
    empty = empty
    Proposals <- MCProposals
    Titles = {rain}
    TitleSlug <- MCTitleSlug
    Code <- MCCode
    SourceModes = {"oracle"}
    Keys = {k1}
    MaxPending = 1
    MaxRequests = 2
    MaxFailures = 1
    Repeated <- MCRepeated
    MaxRepeated = 4
    Founder = u1
    Addresses = {a1, a2, a3}
    Stores = {"postgres", "memory"}
    Admins = {}
    Slugs = {s1}
    Seeded = {s1}
    Visible = {s1}
    Granted = {"member", "admin"}
    Created <- MCCreated
    Changes <- MCChanges
    Backends = {"postgres", "memory"}
    MaxMembers = 3
    MaxPosts = 1
    Candidates = {d1, d2}
    Modes = {"simulated", "live"}
    Bond = 1
    Targets = {2}
    Funds = 2
    Liveness = 1
    MaxTransactions = 3
    MaxTime = 1
    Markets = {m1, m2}
    Clients = {k1, k2}
    Capacity = 1
    MaxEvents = 4
SPECIFICATION Spec
SYMMETRY Symmetry
INVARIANTS
    TypeOK
    PublishedWhole
    PendingBounded
    PrimaryWallets
    RecordedOwnAssertion
    RecordedNotAhead
    ClientsHear
CHECK_DEADLOCK FALSE
