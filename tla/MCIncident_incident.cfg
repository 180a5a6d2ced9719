\* Are the right cgroups blamed, and the right processes charged and told?
SPECIFICATION IncidentSpec
CONSTANTS
    root = root
    app = app
    fox = fox
    tab = tab
    vim = vim
    Paths = {root, app, fox, tab, vim}
    Above <- MCAbove
    Place <- MCPlace
    Usecs = {0, 3, 4, 5, 6, 7}
    MIN_CAUSE = 4
    MAX_CAUSES = 2
    Pids = {1, 2, 3}
    Unread = Unread
    MAX_CULPRITS = 2
    Rounds = 2
    MaxWork = 2
    MaxExits = 1
    Filesystems = {home}
    Sensors = {composite, second}
    Missing = Missing
    Sizes = {0, 200}
    Allocated = {0, 198, 199, 200, 201}
    Queued = {9999, 10000}
    Degrees = {76, 77, 82}
    Pairs <- MCPairs
    MAX_SERIES = 3
INVARIANTS AgreesWithNaive SomeoneToBlame MoverReported ChargedRight TopsKept CapIsTold WarnedIsMeasured
\* An incident is put together and ends.
CHECK_DEADLOCK FALSE
