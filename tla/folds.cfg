SPECIFICATION MCSpec
CONSTANTS
    MessageLine <- MCLines
    MinLen = 2
    SentenceCap = 3
    MarkerCap = 4
    MaxLines = 4
    Candidate <- MCCandidates
    MaxFound = 3
    dec = dec
    rot = rot
    vow = vow
    rule = rule
    over = over
    plain = plain
    note = note
    oops = oops
    noFact = noFact
    noReason = noReason
    NoFact = noFact
    NoReason = noReason
    Sentence = {dec, rot, vow, rule, over, plain, note, oops}
    Means <- MCMeans
    Text <- MCTexts
    Failure = {"boom"}
    Task = {"todo"}
    Path = {"a.py", "a-py"}
    FileName <- MCFileName
    MaxEntries = 3
    Banked <- MCBanked
    Subjects <- MCSubjects
    LintCap = 2
    GistBudget = 14
    LiteralCap = 1
    ConflictCap = 1
    RankOf <- MCRank
    RowKind <- MCRows
    MaxEvents = 4
    Name = {"u", "w"}
    MultiKey = {"RULE"}
    AgentSteps <- MCSteps
    TokenBudget = 19
    Refers <- MCRefers
    MaxSteps = 5
    NoSource = ""
    RuleField <- MCRules
    Months <- MCMonths
    Opposite <- MCOpposite
    MaxFields = 3
    Word = {"ORDER", "CUST", "ITEM", "JUNK", "belongs-to", "has-many", "id", "note", "flag",
            "payer", "x", "long", "true", "no"}
    CorpusFile = {"order", "cust", "cust2", "old", "ctxpack.yaml"}
    ConfigFile = {"ctxpack.yaml"}
    Excluded = {"old"}
    Included = {"order", "cust", "cust2", "old"}
    Contents <- MCContents
    Weights <- MCWeights
    Expected <- MCExpected
    L2Section <- MCSections
    HubThreshold = 3
    L3Budget = 20
    MaxSections = 4
    MaxAlerts = 6
    BodyLine <- MCBody
    HeaderKey <- MCKeys
    MaxBody = 4
    MaxHeader = 4
    FileRecord <- MCRecords
    NoThing = none
    NameOf <- MCNameOf
    MaxRecords <- MCMaxRecords
    EntityKeys = {"identifier", "refs"}
    RelationKeys = {"refs"}
INVARIANTS
    RecordsReadWhole
    
    RankIsReplayStable
    
    PackKeepsWhatIsStated
    TrimTakesTheLeast
    
    
PROPERTIES
    
    
    StateKeepsWhatWasTold
CHECK_DEADLOCK FALSE
