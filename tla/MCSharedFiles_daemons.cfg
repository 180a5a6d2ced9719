SPECIFICATION Spec
CONSTANTS
    d1 = d1
    d2 = d2
    Daemons = {d1, d2}
    None = None
    Stale = Stale
    MaxStarts = 2
    Cap = 8
    Text = 3
    Half = 2
    MaxRecords = 4
    MaxFaults = 1
    MaxScrapes = 2
SYMMETRY Alike
INVARIANTS OneServes StaleNeverBlocks DiskBounded DamageBounded WhyIsNewest WholeDocuments
\* Every daemon may be dead, or have nothing left to do.
CHECK_DEADLOCK FALSE
