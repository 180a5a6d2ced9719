\* Does a tick's stall fit the window it is divided by?
CONSTANTS
    top = top
    leaf = leaf
    memory = memory
    io = io
    Paths = {top, leaf}
    Above <- MCAbove
    Place <- MCPlace
    ROOT = top
    Resource = {memory, io}
    Unreadable <- MCUnreadable
    MaxStalls = 3
    MaxRemovals = 1
    MaxNow = 3
SPECIFICATION Spec
INVARIANTS TickFitsWindow
