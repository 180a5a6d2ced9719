\* When the daemon speaks up, with clock steps and a restart.
CONSTANTS
    Enabled = TRUE
    Window = 2
    MinStall = 3
    Cooldown = 3
    Deltas = {1, 2}
    MaxClock = 4
    MaxCaptures = 4
    MaxIgnored = 1
    MaxRuns = 2
SPECIFICATION Spec
INVARIANTS NoticesSpaced BeatsAreEpisode PaidOnce
PROPERTY RuleFollowed
