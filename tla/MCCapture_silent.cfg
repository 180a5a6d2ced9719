\* Is there always something that records?
CONSTANTS
    cpu = cpu
    io = io
    pager = pager
    logger = logger
    Resources = {cpu, io}
    Rules = {logger}
    RuleActions <- OneRule
    Capacity = 2
    ForcePoll = FALSE
    MaxBreaches = 1
    MaxTicks = 1
SPECIFICATION Spec
INVARIANT NeverSilent
\* A daemon whose kernel raises nothing more waits for ever.
CHECK_DEADLOCK FALSE
