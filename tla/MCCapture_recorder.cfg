\* What the recorder promises, with commands that return and without.
CONSTANTS
    cpu = cpu
    io = io
    pager = pager
    logger = logger
    Resources = {cpu, io}
    Rules = {pager, logger}
    RuleActions <- TwoRules
    Capacity = 2
    ForcePoll = FALSE
    MaxBreaches = 2
    MaxTicks = 2
SPECIFICATION FairSpec
INVARIANTS NoWakeLost PipelineOrder NeverOrphaned
PROPERTIES RecorderSafety RecorderResponsive AnsweredUnlessCommandHangs
\* A daemon whose kernel raises nothing more waits for ever.
CHECK_DEADLOCK FALSE
