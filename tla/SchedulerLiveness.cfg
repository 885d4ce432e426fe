CONSTANTS
    k1 = k1
    k2 = k2
    Unset = Unset
    Absent = Absent
    NoAddr = NoAddr
    NoEvent = NoEvent
    Key <- MCKey
    Class <- MCClass
    ClassOrder <- MCClassOrder
    State <- MCState
    Signal <- MCSignal
    Abstract <- MCAbstract
    Subtypes <- MCSubtypes
    Initial <- MCInitial
    Final <- MCFinal
    Table <- MCTable
    HasBirthAction = {}
    Cast <- QueueCast
    Route <- QueueRoute
    BirthStates = {"b"}
    Delay = {0, 1}
    IdleOps = {"generate", "advance"}
    YieldOps = {"generate", "advance"}
    ActionOps = {"generate"}
    MayAbort = FALSE
    MaxEvents = 4
    MaxTime = 1
SPECIFICATION FairSpec
PROPERTIES
    QueuedIsDispatched
    ExpiredIsMoved
    FinalIsRemoved
