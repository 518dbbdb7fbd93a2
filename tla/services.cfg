SPECIFICATION ServicesSpec
CONSTANTS
    s1 = s1  s2 = s2  s3 = s3  p1 = p1  p2 = p2  none = none  h1 = h1  h2 = h2
    e1 = e1  e2 = e2  e3 = e3  f1 = f1  t1 = t1  t2 = t2  n1 = n1  n2 = n2
    Session = {s1, s2}
    NoSession = none
    Prefix = {p1, p2}
    PrefixOf <- SharedPrefix
    Hook = {h1, h2}
    Legacy = {s1}
    LegacyPacked = TRUE
    MaxStarts = 2
    MaxEvents = 1
    Files <- CodeFiles
    Source = {"run", "moved", "caller", "broken"}
    NoFile = "absent"
    Defs <- CodeDefs
    Calls <- CodeCalls
    Unparsable = {"broken"}
    TailOf <- DottedTail
    Place <- CodePlaces
    Central <- CodeRanks
    Cost <- CodeCosts
    Budget = 3
    MaxEdits = 2
    MaxPacks = 3
    Version = {"v1", "v2"}
    NoVersion = "none"
    MaxBoots = 2
    Symbol <- PackSymbols
    InPack <- InVersions
    Query <- Wordings
    Window = 0
    Threshold = 2
    Lookback = 1
    MaxCalls = 5
    MaxTime = 1
    Conv = {s1, s2, s3}
    ConvPrefix <- ConvPrefixes
    Grade <- ConvGrades
    Named <- ConvNames
    Nobody = none
    ActiveSlack = 1
    StaleSlack = 1
    MaxNow = 2
    MaxFeeds = 2
    MaxTurns = 2
    MaxRuns = 2
    MaxSweeps = 1
    MaxDeaths = 1
    MaxBegins = 1
    Name = {n1, n2}
    Exists = {n1}
    Gain = 10
    PruneBelow = 20
    MinCount = 2
    MaxSteps = 3
    MaxClock = 2
    Fact = {f1}
    Expert = {e1, e2, e3}
    Text = {t1, t2}
    MaxChallenges = 2
    MaxCommands = 6
    Sid = {"a", "b"}
    Section <- Sections
    Forked = {"f2"}
    WhyMax = 2
    MaxWrites = 3
    MaxQueries = 1
    Node = {"a", "b", "c", "d"}
    Start = "a"
    Goal = "d"
    MaxDepth = 2
    MaxRefs = 3
    MaxTurn = 2
    MaxVersion = 2
    MaxCall = 2
    MaxFault = 1
    MaxHook = 1
    HookEvent = {"pre", "stop"}
    OwnHook = {"lint"}
    OwnServer = {"db"}
    OwnText = {"style"}
    Vendored = TRUE
    MaxVer = 2
    MaxOnboards = 2
    MaxUserEdits = 2
    MaxKills = 1
    SourceFile <- MCSources
    HookSource <- MCHook
    SkipDir = {"node_modules"}
    LineCap = 28
    MaxMoves = 3
    DocSection <- MCPages
    Word = {"a", "b"}
    Request <- MCRequests
    Filter <- MCFilters
    Wanted <- MCWanted
    Idf <- MCIdf
    Response <- MCResponse
    MaxWork = 3
    MaxNow2 = 2
    Repo = {"a", "b"}
    External = {"a"}
    Dir <- DirsOfRepos
    Tainted = {"b"}
    Clerk = {"c1"}
    Overlap = FALSE
    MaxAppends = 1
    MaxEdits2 = 1
    MaxBuilds = 2
    MaxHalts = 1
    Shell = {"x"}
    Voice = {"v", "w"}
    Parallel = FALSE
    MaxPacks2 = 2
    MaxFmts = 1
    MaxElicits = 2
    MaxCuts = 1
SYMMETRY HookSymmetry
INVARIANTS
    
    StartsAreAttested
    TelemetryIsExact
    
    AnswersAreComplete
    
PROPERTIES
    PackIsExact
    ConfidenceIsEarned
    
    RepliesAttest
    OnboardingIsSafe
    CodebaseIsReadWhole
    
    ScorecardIsSound
    CommandsLeaveWholeFiles
CHECK_DEADLOCK FALSE
