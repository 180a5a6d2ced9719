\* Is what collect and the Sampler report what the kernel counted?
CONSTANTS
    top = top
    leaf = leaf
    memory = memory
    io = io
    Paths = {top, leaf}
    Above <- MCAbove
    Place <- MCPlace
    ROOT = top
    Resource = {memory, io}
    Unreadable <- MCUnreadable
    MaxStalls = 3
    MaxRemovals = 1
    MaxNow = 3
SPECIFICATION Spec
INVARIANTS NothingFabricated NothingTwice NothingMissed CollectFitsWindow
