CONSTANTS
    ec2 = ec2
    new = new
    r1 = r1
    r2 = r2
    Accounts = 2
    Globals = {iam}
    Regionals = {ec2, new}
    Regions = {r1, r2}
    Offered <- MCOffered
    Shipped <- MCShipped
    Unlisted = {ec2}
    Scoped = TRUE
    Resolvers = {ra}
    GlobalSlots = 1
    RegionSlots = 1
    ServiceSlots = 1
    Projects = {p1, p2}
    ProjectServices = {compute, storage}
    OrgServices = {iamorg}
    ProjectResolvers = {rb, rc}
    OrgResolvers = {rd}
    Org = Org
    ProjectSlots = 1
    near = near
    far = far
    odd = odd
    Shapes = {"phases", "enrich", "fanout", "clusters"}
    Listings = {near, far, odd}
    Rows = {1, 2, 3, 4, 5, 6}
    Layout <- MCLayout
    FanoutSlots = 2
    TokenKeys = {1, 2}
    Attempts = 4
    Budget = 2
    MaxTime = 5
    MaxWaves = 2
    o = o
    f1 = f1
    f2 = f2
    p1 = p1
    p2 = p2
    x1 = x1
    x2 = x2
    g1 = g1
    g2 = g2
    s = s
    rg = rg
    NoDepth = NoDepth
    NoParent = NoParent
    Nodes <- MCNodes
    Recorders <- MCRecorders
    Orgs = {o}
    Folders = {f1, f2}
    TreeProjects = {p1, p2}
    ResourceOf <- MCResourceOf
    Trees <- MCTrees
    Groups = {g1, g2}
    Subs = {s}
    ResourceGroups = {rg}
    AzureParent <- MCAzureParent
    AzureDepth <- MCAzureDepth
    ScanProviders <- MCScanProviders
    MayDeny = {f2}
    MaxScans = 3
SPECIFICATION FairSpec
INVARIANTS AwsScanSafe GcpScanSafe ServiceResultIsTrue
    ClosureIsTrue ConvergesWithDepth RecordedIsLinked
PROPERTIES ScanEnds GivesUpInTime
CHECK_DEADLOCK FALSE
