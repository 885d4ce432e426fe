CONSTANTS
    k1 = k1
    k2 = k2
    Unset = Unset
    Absent = Absent
    NoAddr = NoAddr
    NoEvent = NoEvent
    Key = {k1}
    Class <- MCClass
    ClassOrder <- MCClassOrder
    State <- MCState
    Signal <- MCSignal
    Abstract <- MCAbstract
    Subtypes <- MCSubtypes
    Initial <- MCInitial
    Final <- MCFinal
    Table <- MCTable
    HasBirthAction = {"C"}
    Cast <- LifeCast
    Route <- LifeRoute
    BirthStates = {"b"}
    Delay = {0}
    IdleOps = {"generate", "createAsync"}
    YieldOps = {"generate", "delete", "create"}
    ActionOps = {"createAsync", "deleteAsync", "delete", "create"}
    MayAbort = FALSE
    MaxEvents = 5
    MaxTime = 0
SPECIFICATION Spec
INVARIANTS
    UnsetHasCreation
    FinalHasDeletion
PROPERTIES
    StaleOnlyByCall
