\* What the ring retains and what SINCE answers: frames come faster than the
\* tick, as captures of events can, and the tick does not divide the history.
CONSTANTS
    steady = steady
    spiky = spiky
    HistorySecs = 4
    Tick = 3
    Gap = 2
    Second = 2
    Kinds <- AllKinds
    MaxStalls = 1
    Spans = {1, 2}
    Offsets <- MCOffsets
    MaxNow = 6
SPECIFICATION Spec
INVARIANTS HistoryKept RecentCounted OldNotCounted AnswerComplete HardestFirst
