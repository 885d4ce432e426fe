CONSTANTS
    k1 = k1
    k2 = k2
    Unset = Unset
    Absent = Absent
    NoAddr = NoAddr
    NoEvent = NoEvent
    Key <- MCKey
    Class <- MCClass
    ClassOrder <- MCClassOrder
    State <- MCState
    Signal <- MCSignal
    Abstract <- MCAbstract
    Subtypes <- MCSubtypes
    Initial <- MCInitial
    Final <- MCFinal
    Table <- MCTable
    HasBirthAction = {}
    Cast <- QueueCast
    Route <- QueueRoute
    BirthStates = {}
    Delay = {0, 1}
    IdleOps = {"generate", "advance"}
    YieldOps = {"generate", "advance"}
    ActionOps = {"generate", "cancel"}
    MayAbort = TRUE
    MaxEvents = 5
    MaxTime = 2
SPECIFICATION Spec
INVARIANTS
    TypeOK
    DelayUnique
    HeapKeysDistinct
    FifoOrder
    DispatchedOnce
    BufferScoped
PROPERTIES
    RunToCompletion
    SelfDirectedFirst
    PairwiseOrder
    NothingLost
    ExpiryOrder
    RefinesPump
