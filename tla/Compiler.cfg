\* Any domain model of MCFamilies, validated or not, through the compiler and
\* the loader into the engine.
SPECIFICATION CSpec

CONSTANTS
    e1 = e1
    e2 = e2
    Terminal = Terminal
    InitialMark = InitialMark
    NoEvent = NoEvent
    NoGuard = NoGuard
    Malformed = Malformed
    NoRel = NoRel
    NoClass = NoClass
    NoState = NoState
    NoneText = NoneText
    Name <- MCName
    Signal <- MCSignal
    Value <- MCValue
    Undecided <- MCUndecided
    Families <- MCFamilies

INVARIANTS
    CompilerTypeOK
    GuardsKeepTheirTargets
    
    UnreachableIsNotEntered
    TrapsAreFinal
    MachinesAreInherited

\* Compilation ends, and an instance may be in a state with no events.
CHECK_DEADLOCK FALSE
