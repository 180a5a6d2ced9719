-------------------------------- MODULE Drill ---------------------------------
(* Naming processes (process.rs drill and rank, incident.rs from_proc): the     *)
(* processes of the machine are swept a few times, while they move bytes, exit  *)
(* and hand on their pids; of those with any evidence the worst blocked and the *)
(* biggest movers are kept, and each is given a role.  Bytes are in MiB.        *)
EXTENDS Orders, SequencesExt

CONSTANTS
    Pids,
    Unread,        \* no reading of /proc/<pid>/io
    MAX_CULPRITS,
    Rounds,        \* sweeps of one drill
    MaxWork,       \* bound on the MiB moved
    MaxExits       \* bound on the processes that exit, and on those that start

ASSUME DrillAssumption ==
    /\ Pids \subseteq Nat /\ IsFiniteSet(Pids) /\ Unread \notin Nat
    /\ {MAX_CULPRITS, Rounds, MaxWork, MaxExits} \subseteq Nat

VARIABLES
    stage,     \* "idle", "sweep", "close" or "told"
    alive,     \* the pids of running processes
    io,        \* what each pid's process has moved in its life
    ours,      \* the pids whose io file can be read
    pids,      \* those listed when the drill began
    before,    \* their readings then
    last,      \* last_io: their latest readings
    blocked,   \* the sweeps that found each in D state
    seen,      \* the sweeps that found each at all
    round,     \* the sweep under way
    ahead,     \* the pids it has not come to
    closed,    \* what each pid is charged with, in their order

    moved,     \* the model's: MiB moved under each pid since the drill began
    reused,    \* the model's: pids that another process had before
    exits, starts

kernelVars == <<alive, io, ours, moved, reused, exits, starts>>
sweepVars == <<pids, before, last, blocked, seen, round, ahead>>
drillVars == <<stage, kernelVars, sweepVars, closed>>

NoPids == [p \in Pids |-> 0]

DrillInit ==
    /\ stage = "idle" /\ alive = {} /\ ours = {} /\ io = NoPids
    /\ pids = {} /\ before = [p \in Pids |-> Unread] /\ last = before
    /\ blocked = NoPids /\ seen = NoPids /\ round = 0 /\ ahead = {}
    /\ closed = << >>
    /\ moved = NoPids /\ reused = {} /\ exits = 0 /\ starts = 0

IoBytes(p) == IF p \in ours THEN io[p] ELSE Unread
IsFirst(p) == p \in ahead /\ \A q \in ahead : p <= q

-----------------------------------------------------------------------------
(* The kernel: none of this waits for a sweep.                                  *)
Watched == stage \in {"sweep", "close"}

MoveBytes(p) ==
    /\ Watched /\ p \in alive /\ FoldFunction(+, 0, moved) < MaxWork
    /\ io' = [io EXCEPT ![p] = @ + 1]
    /\ moved' = [moved EXCEPT ![p] = @ + 1]
    /\ UNCHANGED <<stage, alive, ours, reused, exits, starts, sweepVars, closed>>

Exit(p) ==
    /\ p \in alive /\ exits < MaxExits
    /\ alive' = alive \ {p} /\ ours' = ours \ {p}
    /\ exits' = exits + 1
    /\ UNCHANGED <<io, moved, reused, starts>>

ExitProcess(p) == Watched /\ Exit(p) /\ UNCHANGED <<stage, sweepVars, closed>>

(* A new process is given the pid of one that is gone.                          *)
ReusePid(p) ==
    /\ Watched /\ p \in pids \ alive /\ starts < MaxExits
    /\ alive' = alive \union {p}
    /\ ours' \in {ours, ours \union {p}}
    /\ io' = [io EXCEPT ![p] = 0]
    /\ reused' = reused \union {p} /\ starts' = starts + 1
    /\ UNCHANGED <<stage, moved, exits, sweepVars, closed>>

-----------------------------------------------------------------------------
(* Any processes, some of them not the daemon's own.  Each has moved one MiB    *)
(* before, so that a reading of a new process may be below the first.           *)
BeginDrill ==
    /\ stage = "idle"
    /\ alive' \in SUBSET Pids \ {{}} /\ ours' \in SUBSET alive'
    /\ io' = [p \in Pids |-> IF p \in alive' THEN 1 ELSE 0]
    /\ pids' = alive'
    /\ before' = [p \in Pids |-> IF p \in ours' THEN io'[p] ELSE Unread]
    /\ last' = before'
    /\ round' = 1 /\ ahead' = alive'
    /\ stage' = "sweep"
    /\ UNCHANGED <<blocked, seen, closed, moved, reused, exits, starts>>

Reading(p) == last' = IF p \in ours THEN [last EXCEPT ![p] = io[p]] ELSE last

SweepProcess(p) ==
    /\ stage = "sweep" /\ IsFirst(p)
    /\ Reading(p)
    /\ seen' = IF p \in alive THEN [seen EXCEPT ![p] = @ + 1] ELSE seen
    /\ \E inD \in IF p \in alive THEN {0, 1} ELSE {0} :
          blocked' = [blocked EXCEPT ![p] = @ + inD]
    /\ ahead' = ahead \ {p}
    /\ UNCHANGED <<stage, kernelVars, pids, before, round, closed>>

(* It exits after its io file is read and before its stat file is.              *)
SweepExiting(p) ==
    /\ stage = "sweep" /\ IsFirst(p)
    /\ Reading(p)
    /\ Exit(p)
    /\ ahead' = ahead \ {p}
    /\ UNCHANGED <<stage, pids, before, blocked, seen, round, closed>>

EndSweep ==
    /\ stage = "sweep" /\ ahead = {}
    /\ ahead' = pids
    /\ IF round < Rounds THEN round' = round + 1 /\ UNCHANGED stage
       ELSE stage' = "close" /\ UNCHANGED round
    /\ UNCHANGED <<kernelVars, pids, before, last, blocked, seen, closed>>

(* Mutant: only a process that is still there is charged.                       *)
ChargedAtEnd(p) ==
    IF before[p] = Unread \/ IoBytes(p) = Unread \/ IoBytes(p) < before[p] THEN 0
    ELSE IoBytes(p) - before[p]

(* The last reading, live if there is one, less the first; zero without both.   *)
Charged(p) ==
    LET end == IF IoBytes(p) # Unread THEN IoBytes(p) ELSE last[p]
    IN  IF before[p] = Unread \/ end = Unread \/ end < before[p] THEN 0 ELSE end - before[p]

CloseProcess(p) ==
    /\ stage = "close" /\ IsFirst(p)
    /\ closed' = Append(closed,
          [pid |-> p, bytes |-> Charged(p), blocked |-> blocked[p], seen |-> seen[p],
           moved |-> moved[p], again |-> p \in reused,
           shown |-> IF before[p] = Unread THEN 0 ELSE last[p] - before[p]])
    /\ ahead' = ahead \ {p}
    /\ UNCHANGED <<stage, kernelVars, pids, before, last, blocked, seen, round>>

-----------------------------------------------------------------------------
(* rank: neither the worst blocked nor the biggest movers starve the other.     *)
Found == Members(closed, {i \in DOMAIN closed : closed[i].blocked > 0 \/ closed[i].bytes > 0})

(* The places of a sequence by a key, highest first, equal ones as they came.   *)
Ahead(key) ==
    {p \in (DOMAIN key) \X (DOMAIN key) :
        key[p[1]] > key[p[2]] \/ (key[p[1]] = key[p[2]] /\ p[1] <= p[2])}
Ranked(key) == Sorted(DOMAIN key, Ahead(key))

ByBlocked(s) == Ranked([i \in DOMAIN s |-> s[i].blocked])
ByBytes(s) == Ranked([i \in DOMAIN s |-> s[i].bytes])

WithoutRepeats(s) == Members(s, {i \in DOMAIN s : \A j \in 1..i - 1 : s[j] # s[i]})

(* Mutant: ranked by blocked time alone.                                        *)
KeptBlocked(s) == [i \in 1..Len(First(s, MAX_CULPRITS)) |-> s[ByBlocked(s)[i]]]

Turns(s) ==
    LET byBlocked == ByBlocked(s)  byBytes == ByBytes(s)
    IN  Evaluated([n \in 1..2 * Len(s) |->
            IF n % 2 = 1 THEN byBlocked[(n + 1) \div 2] ELSE byBytes[n \div 2]])

Rearranged(s, order) == Evaluated([n \in DOMAIN s |-> s[order[n]]])

Kept(s) ==
    LET keep == First(WithoutRepeats(Turns(s)), MAX_CULPRITS)
        picked == [n \in DOMAIN keep |-> s[keep[n]]]
    IN  Rearranged(picked, ByBytes(picked))

HalfBlocked(c) == c.seen > 0 /\ c.blocked * 2 >= c.seen

Role(c) ==
    CASE c.bytes >= 1 /\ ~HalfBlocked(c) -> "cause"
      [] c.bytes < 1 /\ HalfBlocked(c) -> "victim"
      [] OTHER -> "active"

Precedence == [cause |-> 2, active |-> 1, victim |-> 0]

(* The capture thread puts a cause first.                                       *)
Culprits ==
    LET kept == Kept(Found)
    IN  Rearranged(kept, Ranked([n \in DOMAIN kept |-> Precedence[Role(kept[n])]]))

Tell ==
    /\ stage = "close" /\ ahead = {}
    /\ stage' = "told"
    /\ UNCHANGED <<kernelVars, sweepVars, closed>>

(* The processes told, in order.                                               *)
report == IF stage = "told" THEN Culprits ELSE << >>

(* What explain says of the processes.                                          *)
Paragraph ==
    CASE \E c \in Range(report) : Role(c) = "cause" -> "the victim, not the cause"
      [] report = << >> -> ""
      [] OTHER -> "no process was moving data"

DrillNext ==
    \/ \E p \in Pids : \/ MoveBytes(p) \/ ExitProcess(p) \/ ReusePid(p)
                       \/ SweepProcess(p) \/ SweepExiting(p) \/ CloseProcess(p)
    \/ EndSweep \/ Tell

-----------------------------------------------------------------------------
(* Nothing is made up and no burst is lost: a process is charged with no more   *)
(* than was moved under its pid, and, unless the pid was used again, with all   *)
(* that any reading of it has shown, though it has exited since ("a dd writing  *)
(* 3 GiB was recorded as moving 0 bytes", process.rs:175).                      *)
ChargedRight ==
    \A c \in Range(closed) : c.bytes <= c.moved /\ (~c.again => c.bytes >= c.shown)

(* A process with evidence that is not told gave way to as many that moved more *)
(* and to as many that were blocked longer as half the report holds: ranking    *)
(* does not discard "the only process that mattered" (process.rs:245).          *)
TopsKept ==
    stage = "told" => \A c \in Range(Found) \ Range(report) :
        /\ Cardinality({r \in Range(report) : r.bytes >= c.bytes}) >= MAX_CULPRITS \div 2
        /\ Cardinality({r \in Range(report) : r.blocked >= c.blocked}) >= MAX_CULPRITS \div 2

(* "Everything else here exists to make that paragraph true" (incident.rs:17):  *)
(* it does not say that no process was moving data of one that was.             *)
ParagraphTrue ==
    stage = "told" /\ Paragraph = "no process was moving data" =>
        \A c \in Range(report) : c.bytes < 1
=============================================================================
