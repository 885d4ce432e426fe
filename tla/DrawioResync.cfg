CONSTANTS
    a = a
    b = b
    c = c
    e = e
    f = f
    g = g
    h = h
    l = l
    p = p
    op = op
    act = act
    NoEvent = NoEvent
    NoParams = NoParams
    NoGuard = NoGuard
    NoAction = NoAction
    Terminal = Terminal
    Nowhere = Nowhere
    NoDrawing = NoDrawing
    Name <- MCName
    Event <- MCEvent
    Param <- MCParam
    Guard <- MCGuard
    Unread <- MCUnread
    Action <- MCAction
    Method <- MCMethod
    Stripped <- Same
    DomainIsTitle = TRUE
    Models <- LongChain
    Edits = {"eraseEdge"}
    MaxEdits = 1
SPECIFICATION DSpec
PROPERTIES
    DrawnStays
