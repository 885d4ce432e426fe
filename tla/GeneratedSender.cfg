CONSTANTS
    k1 = k1
    k2 = k2
    Unset = Unset
    Absent = Absent
    NoAddr = NoAddr
    NoEvent = NoEvent
    Key <- MCKey
    Class <- GenClass
    State <- MCState
    Signal <- MCSignal
    Abstract <- MCAbstract
    Subtypes <- GenSubtypes
    Initial <- GenInitial
    Final <- GenFinal
    Table <- GenTable
    HasBirthAction = {}
    Cast <- GenCast
    Route <- GenRoute
    ClassOrder <- GenClassOrder
    Statement <- GenStatement
    BirthStates = {"b"}
    Delay = {0, 1}
    IdleOps = {"generate", "advance"}
    YieldOps = {}
    ActionOps = {}
    MayAbort = FALSE
    MaxEvents = 4
    MaxTime = 1
SPECIFICATION GSpec
PROPERTIES
    SenderIsActor
