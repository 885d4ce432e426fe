CONSTANTS
    a = a
    b = b
    c = c
    e = e
    f = f
    g = g
    h = h
    l = l
    p = p
    op = op
    act = act
    NoEvent = NoEvent
    NoParams = NoParams
    NoGuard = NoGuard
    NoAction = NoAction
    Terminal = Terminal
    Nowhere = Nowhere
    NoDrawing = NoDrawing
    Name <- MCName
    Event <- MCEvent
    Param <- MCParam
    Guard <- MCGuard
    Unread <- MCUnread
    Action <- MCAction
    Method <- MCMethod
    Stripped <- Mangled
    DomainIsTitle = TRUE
    Models <- MCModels
    Edits = {"eraseState", "eraseEdge", "addState", "addEdge", "retarget", "relabel", "boxes", "restyle", "arrange", "file"}
    MaxEdits = 2
SPECIFICATION DSpec
INVARIANTS
    DiagramTypeOK
    SyncFollowsDrawing
    RenderShowsFile
PROPERTIES
    SyncKeepsActions
