CONSTANTS
    k1 = k1
    k2 = k2
    Unset = Unset
    Absent = Absent
    NoAddr = NoAddr
    NoEvent = NoEvent
    Key <- MCKey
    Class <- MCClass
    ClassOrder <- MCClassOrder
    State <- ScenState
    Signal <- MCSignal
    Abstract <- MCAbstract
    Subtypes <- MCSubtypes
    Initial <- MCInitial
    Final <- MCFinal
    Table <- ScenTable
    HasBirthAction = {}
    Cast = {}
    Route <- ScenRoute
    BirthStates = {"b"}
    Delay = {0}
    IdleOps = {"generate", "create", "delete"}
    YieldOps = {"generate", "create", "delete"}
    ActionOps = {"generate", "delete"}
    MayAbort = FALSE
    MaxEvents = 5
    MaxTime = 0
    Alias <- MCAlias
    Scripts <- MCScripts
    FireLimit = 3
    Nobody = Nobody
    Rel <- MCRel
    EndA <- MCEndA
    EndB <- MCEndB
    MultAB <- MCMultAB
    MultBA <- MCMultBA
    MaxLinks = 2
    Tie <- ScenTie
    Requests <- Direct
    Contained = {"C", "P"}
    TraceMayFail = TRUE
CHECK_DEADLOCK FALSE
SPECIFICATION SimSpec
INVARIANTS
    RunEmptiesQueues
