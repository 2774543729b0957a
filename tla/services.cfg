SPECIFICATION MCSpec
CONSTANTS
    u1 = u1
    u2 = u2
    Users = {u1, u2}
    MaxFaults = 1
    Custom = {"custom"}
    MaxChanges = 2
    g1 = g1
    g2 = g2
    Groups = {g1, g2}
    Askers = {g1}
    NoGroup = NoGroup
    MaxMade = 5
    MaxSessions = 2
    MaxRuns = 2
    Tasks = {"a", "b", "c"}
    MaxObjects = 3
    MaxUses = 5
    Workers = {"a", "b"}
    Most = 2
    Width = 3
    MaxTime = 6
    MaxRequests = 5
    Docs = {"p", "q", "r"}
    Queries = 2
    TopK = 2
    K = 60
    Input = 2
    Output = 1
    Names = {f1, f2}
INVARIANTS
    ServicesTypeOK
    StaleEntryIsExplained
    AnswerIsOwn
    AnswerFromOne
    PartnerIsOwn
    ChildHasParent
    LinkShowsItsSession
    LinkIsOwners
    ContextIsOwn
    AtMostOneLive
    ReadyUnless
    AcceptedBound
    LeftOutForBetter
    RunHasItsUploads
    UnstoredIsExplained
PROPERTIES
    LastAdminNotByOneself
    Heal
    StreamHears
CHECK_DEADLOCK FALSE
