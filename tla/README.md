# stallwatch: specification and proofs

stallwatch tells a Linux user what froze the machine. A daemon, `stallwatchd`,
waits on the kernel's pressure-stall (PSI) triggers, samples every cgroup while
a stall is still going on, decides which cgroup is responsible and which process
inside it, records an incident, runs the user's rules, may notify the desktop,
and keeps a ring of recent frames that clients query. This directory models it
in TLA+, checks small instances with TLC and proves the central invariants with
TLAPS for every value of the constants. Paths below are relative to `src/`;
`stallwatchd.rs` and `stallwatch.rs` are in `crates/cli/src/bin/`, other `.rs`
files in `crates/core/src/`.

## 1. The system

| Part | State | Operations | Hard behaviour | What makes it correct |
|---|---|---|---|---|
| capture pipeline (`stallwatchd.rs:153-295`, `trigger.rs`) | one PSI trigger and watcher thread per resource, an mpsc channel, one capture thread | register, wait, send, receive, drain, collect, append, rules, notice, push | wakes during a capture, dying watchers, commands that hang, best-effort writes | no notification lost or handled twice, each answered by a sampling begun after it, never deaf in silence |
| history (`ring.rs`, `stallwatchd.rs:547-597`, `679-687`) | a ring of frames under a mutex | push, NOW, SINCE, GetHistory | queries race pushes, wall clock stepped, ring sized in frames | the span of whole ticks is held, every frame of the span asked for is counted, none older, hardest first |
| notifier (`notify.rs`) | deque of beats, last notice, suppressed count | consider | clock steps, restarts, pruning at one end only | the rule of the module's doc, one notice per cooldown, no capture paid for twice |
| sampling (`cgroup.rs`, `attribution.rs:130-180`, `320-390`) | previous snapshot (`Sampler`) | `all`, `sample`, `collect`, `tick`, `diff` | counters restart, cgroups come and go, the sweep takes time | nothing made up, counted twice or missed; a share fits its window |
| attribution (`attribution.rs`, `iostat.rs`) | none | `Responsibility::new`, `collect_causes` | gaps in the hierarchy, threshold and cap on top of the dominance rule | equals the naive rule, somebody is blamed, a mover stands in the report or something below it does, a fifth off for every level |
| process drill (`process.rs`, `incident.rs`) | readings of every process of one cgroup | sweeps, closing reading, rank, classify, explain | processes exit, pids are reused, lists are cut | bytes charged to who moved them, the paragraph is true |
| pathology and metrics (`pathology/`, `metrics.rs`) | none | scan, render | two readers of the same files, series cap | what is warned of is measured, what is left out is said |
| incident log (`logfile.rs`, `stallwatchd.rs:116-144`, `stallwatch.rs:380-523`) | live file and one older generation | append with rotation, `why` | torn writes, several writers, rotation | bounded, damage stays on its line, the newest incident found |
| sockets (`ipc.rs`, `stallwatchd.rs:599-633`) | two socket files | bind, clear a stale one | daemons started, killed, started again | one daemon serves, a stale file keeps nobody out |
| textfile (`stallwatchd.rs:703-714`) | temporary and published file | write and rename | a reader in between, a write cut short | whole documents |
| line protocol, Varlink, HTTP (`stallwatchd.rs:496-777`, `ipc.rs`, `varlink.rs`) | a thread for each connection | accept, read, parse, answer, time out | partial and pipelined requests, clients that stop or never read | replies in order, nobody blocks the others, only who never ends a request or never reads a reply holds a thread |
| configuration and rules (`config.rs`, `stallwatchd.rs:297-356`) | settings, each with its origin; rules | parse, layer, explain | precedence, partial files, nonsense in one layer | the most specific source wins and is the one named |
| filters (`filter.rs`) | none | lex, parse, evaluate | precedence, missing fields, bytes for characters | the grammar's meaning; what is absent never matches |
| client, doctor, rendering | none | read and print | none of their own | layout |

Interaction: watchers talk to the capture thread over the channel only; the
capture thread and the polling loop write the ring, and the query threads read
it, under one mutex; the capture thread alone uses the notifier; the log file is
shared with `why` and with any other daemon of the user; commands of rules and
`notify-send` are children the capture thread waits for.

## 2. The modules

| Module | Models | |
|---|---|---|
| `Recorder` | the promise: every notification of a resource that stays watched is answered by the record of a sampling begun after it, no record answers nothing, none is in the log twice | abstract |
| `Ring` | `Ring::push` as an operation on sequences, used by both modules below | operator |
| `Capture` | start-up, triggers, watchers, channel, capture thread, polling loop | detailed, implements `Recorder` |
| `History` | ring, wall clock, recorder's stamp and push, NOW and SINCE | detailed |
| `Notifier` | `consider`, wall clock, restarts | detailed |
| `Orders` | sorting, keeping the members that pass a test, truncating, removing repeats, by rank instead of by recursion; used by `Journal`, `Drill`, `Metrics` | operators |
| `Cgroups` | the tree of paths: ancestors and order | operators |
| `Sampling` | `cgroup::sample`, `collect`, `Sampler`, `diff` over a kernel that moves | detailed |
| `Responsibility` | the one-pass dominance rule, against the naive one | algorithm |
| `Causes` | `collect_causes` on top of `Responsibility` | algorithm |
| `Drill` | the sweeps over processes, ranking, roles, the paragraph | detailed |
| `Pathology`, `Metrics` | the warnings, and the document made from the same files | algorithms |
| `Incident` | `Causes`, `Drill`, `Metrics` together: one incident and one scrape | composition |
| `DaemonSet` | the processes that share files | constants |
| `Sockets`, `Journal`, `Textfile` | what each daemon does to the sockets, the log, the textfile | detailed |
| `SharedFiles` | the three together: daemons that start, record, export and die | composition |
| `Wire` | listeners, threads and clients of the three protocols | detailed |
| `Settings` | files, environment and flags into settings and rules | detailed |
| `Filter` | lexer, parser and evaluator of filters | detailed |
| `Startup` | the two together: what a program makes of what it is told | composition |
| `MC*` | the instances of each for TLC | |
| `*Proofs` | the theorems of each; `DaemonProofs` holds those of `Settings` and of `Wire` | |
| `Counting` | lemmas the proofs share: least numbers, finite sums, the operators of `Orders` | lemmas |

**Capture.** `watcher[r]` is the program counter of a watcher thread, `pc` that
of the capture thread; every blocking call is a boundary between two actions,
and everything between two boundaries is one action. `Notify` is the kernel: a
PSI trigger latches one event until it is read. `WaitStalled`/`WaitFails` are
the outcomes of `Trigger::wait`, `Send` of `tx.send`, `Receive`/`ReceiveFails`
of `rx.recv`, `Drain`/`BeginCollect` of `try_recv`. `BuildIncident` ends the
two-sweep `collect` and the drill, `AppendIncident` is `append_incident`, the
cursor `at` walks `fire_rules`, `Consider`, `SendNotice` and `PushFrame` are the
end of the loop. A notification carries a number per resource that the code does
not have, so that `covered` can say which one a record answers, and `sampled` what
had been raised when the sampling began whose record is being made. What an incident
contains is reduced to the set of rules it satisfies. Appends are best effort:
each may or may not happen. A notification whose record could not be written counts
as answered, because the code goes on as if it were; that the log holds a record at
most once is part of `Recorder`.

**History.** `now` is real time, the wall clock `now + offset`, read in whole
seconds by `now_unix`. `Stamp` is where a frame's `at_unix` is taken, `PushFrame`
where the lock is held; between them lie the log, the rules and the notice.
`Ask` computes `since`, `AnswerSince` locks and aggregates: `Reports` is the set
of reports `aggregate` may return, a set because equal peaks come out of a hash
map in any order. Percentages are compared by cross-multiplication, in integers.
`pushed`, `born` and `under` are the model's.

**Notifier.** One action per outcome of `consider`. Time is the wall clock;
`consider` is given the incident's own stamp, so one reading of the clock serves
for both. `history`, `sent`, `notices`, `run` and `stepped` are the model's. The
text of a notice is left out.

**Sampling.** One unit of time adds at most one to a counter, as PSI does, and a
cgroup's files count alike, so that a file differs from another only by having
been read. `ReadCgroup` reads the files of one cgroup in a step;
`RemoveWhileRead` is the case in which only some were there to read. Files of a
living cgroup that cannot be read are a set of `Unreadable`: {} or all of them in
the runs. `resident` chooses between the Sampler and `collect`. `stalled`,
`opened`, `settled`, `began`, `steady`, `steadyNext` and `reported` are the model's:
what the kernel has counted, and which cgroups were there all along.

**Responsibility, Causes.** A path is any value; `Above` gives its ancestors and
`Place` its rank in `Path`'s order, which puts an ancestor first. `Propagate` is
one turn of the reverse loop; the walk over parents is `Nearest`, the lowest
measured ancestor. Every assignment of stalls to any set of paths is an initial
state. `CollectCauses` runs the same pass over bytes: movers of a MiB or more
that the rule holds responsible, the biggest `MAX_CAUSES` of them.

**Drill.** `io[p]` is the process's counter, `moved` what the process first seen
under that pid has really moved. `MoveBytes`, `Exit` and `ReusePid` are the
kernel and happen between any two readings. `SweepProcess` reads one process's
counter and state, `SweepExiting` is the case in which it goes in between,
`CloseProcess` is the last reading, or the last one had. `Kept` is `rank`, `Role`
and `Paragraph` are `from_proc` and the last sentence of `explain`. A unit of
bytes is a MiB, and being blocked is a choice at each reading of a living process.
What is told is a function of the processes closed (`Found`, then `Kept`, then
`Culprits`), so `report` is an operator that is empty until `Tell`, not a variable.

**Pathology, Metrics.** A file system is its size, what is allocated of it and
what it queues for discard; a sensor its reading and its limit, either perhaps
missing. `Warnings` is `scan`, `Render` the document as a sequence of lines, of
which a line is a type or a series. `render` is "a pure function of its inputs"
(`metrics.rs:57`), so `document` is `Render` of the state once `scraped`, and no
variable. A cgroup and a resource come once among `Pairs`, since a map has a path
once.

**Sockets.** Every system call of `bind_or_die` is an action; `path[s]` is who
bound the file, `listening[d]` what the process listens on, and a connect is
answered when the two agree. A process may die at every step and leaves its
files. **Journal.** `append_line` as the steps size, rename, open, text, newline;
a rename that fails (`RotateFails`) is ignored as any error of it is, and the
record goes into the full file. A file is a sequence of pieces, and a write that
is cut short leaves half a line, or half a character. `Records` are the pieces
`parse_incident` makes a record of, `Answer` the last n of them backwards, which is
what `why` reads. `torn`, `kept` and `crossed` are the model's: half lines left,
renames that failed, and whether two daemons have been inside `append_line` at once. **Textfile.** Files are inodes,
so that a thread goes on writing to what it opened after a rename. `SharedFiles`
lets a daemon record and export only while it serves.

**Wire.** A client writes whole requests or halves, goes on with half a one byte
after byte (`Drip`), shuts its side, goes away, or does not read; `Accept`, `Read`,
`ReadMore`, `Parse`, `Lock`, `Unlock`, `WriteReply` are the thread. A read times out
when nothing has come since the last `recv`, not when a request takes long. `Request`, `Call`, `Page` say what each request is answered with. Varlink
alone loops, and is the only one that can be sent calls ahead.

**Settings.** A file is an unknown sequence of lines of `Lines`, each action one
branch of `parse_toml`; at its end `ApplyToml` applies it or `RefuseRules` stops
the program. `Schema` is the table of settings with their ranges; `FromTables`,
`ApplyEnv` and `StartDaemon` are the layers. `given` is the model's: everything
written anywhere. **Filter.** The lexer's turns are actions on bytes; the parser
is its recursive descent, operators over tokens; `Eval` is `eval`. Numbers are
read and printed by `Number` and `Format`, constants given by the instance.

## 3. The runs

| Run | Question | Result |
|---|---|---|
| `capture_recorder` | with triggers that fail to register, watchers that die and rules that run commands: is a wake lost, reordered or handled twice; does the pipeline implement `Recorder`, its safety always and its liveness if commands return; and what if they do not | holds; then only later incidents wait, and only behind a command |
| `capture_silent` | is there always something that records | no: the last watcher's failure ends recording (finding) |
| `history_ring` | does SINCE count what it should, and only that, and rank it right; does the ring reach back as far as whole ticks of `--history` do at the pace of the frames | holds |
| `notifier_rule` | is a capture announced exactly when the rule says | holds |
| `sampling_sweeps` | is what `collect` and the Sampler report neither made up, nor counted twice, nor missed; does it fit `collect`'s window | holds |
| `sampling_tick` | does it fit a tick's window | no (finding) |
| `incident_parts` | does one reverse pass blame whom comparing all pairs blames, and always somebody; is a mover of bytes, or something below it, reported unless a fifth for every level takes it below the threshold or bigger ones fill the list; is each process charged what it moved, whoever exits or takes its pid; do the hardest blocked and the biggest mover survive the cut; does the scrape say how much it left out and show what was warned of | holds |
| `incident_explain` | is the last sentence of the paragraph true | no (finding) |
| `startup_given` | does the most specific layer win, is it the one named, are rules kept; does each filter mean what the grammar says, and match nothing that lacks the fields it compares | holds |
| `startup_panic` | does parsing a filter ever panic | yes (finding) |
| `daemons_shared` | does one daemon serve, does a stale socket keep none out, is the log bounded and its damage confined, is `why` right about the newest, does a collector see whole documents | holds, for daemons started one after another where the property says so |
| `wire_clients` | is every request answered once and in order, is a client that behaves left only when all it sent is answered, are such clients served whatever others do, who can hold a thread for ever | holds: who never ends a request, or never reads a reply |

**Bounds.** *Capture*: two notifications per resource let one arrive during
every step of the capture of another; two resources suffice where every order of
two wakes is the point, and the theorems are for any number. A ring of two frames
overflows. Two rules, one that waits for a notify-send and one that logs, of which
an incident may satisfy either, both or none. *History*: seconds of two units make
rounding visible; a tick of three units, which does not divide the eight of the history,
and frames two units apart make a ring of two places, and up to four pushes evict
while a question is pending; offsets -3, 0 and 2 step the clock by less and by more than a second and
before the epoch; three kinds of frame have different windows, so that the largest
total is not the hardest peak. *Notifier*: four captures of one or two units against
a threshold of three, window two, cooldown three, four seconds of clock with
arbitrary steps and one restart: two notices, a held-back one and aged-out beats all
occur. *Sampling*: a root and a leaf that is removed and created again once, two
files, three units of time: enough for a reused path to have counted more than its
predecessor, for two ticks, and for a unit to pass inside each sweep. *Incident*: a
root, a chain of three below it and a sibling give gaps of every depth; 3, 4, 5, 6
and 7 put a child below, at and above 80% of its parent, and below and above the MiB
of 4; three processes and a list of two, so that one is cut; two sweeps, two MiB and
one exit and one reuse anywhere among them; file systems one below, at and one above
both thresholds; five pairs of which the scrape takes three. *Startup*: four lines
in all over two files, out of fifteen that reach every branch, three values of each
variable, flags given up to twice; texts of three characters over every class of
byte, and tokens up to seven, enough for two connectives and a pair of brackets.
*SharedFiles*: two daemons and two starts between them, so that one is started
after, or during, the life of the other; four records of which two fill a file, so
that it is rotated, and by both daemons at once; one failed write besides those of
a crash. *Wire*: one client
that behaves and says everything there is to say, and one that does everything a
client should not; two requests each, with any number of bytes between the halves of
one. `MaxBreaches`, `MaxTicks`, `MaxNow`,
`Offsets`, `MaxClock`, `MaxCaptures`, `MaxIgnored`, `MaxRuns`, `MaxRemovals`,
`MaxWork`, `MaxExits`, `MaxLines`, `MaxFlags`, `MaxChars`, `MaxTokens`, `MaxStarts`,
`MaxRecords`, `MaxFaults`, `MaxScrapes` and `MaxRequests` are bounds of the model
only; no theorem depends on one being small.

Deadlock checking is off where the system really stops: a daemon whose kernel raises
nothing more, or whose watchers have all failed, waits for ever; an incident is put
together, a text is read, and conversations end; two daemons may both be dead.

**Fairness.** Watchers, the capture thread and the polling loop are weakly fair:
each is a thread with nothing to wait for but its blocking call, and those are
guards. The kernel owes nothing: `Notify` and `WaitFails` are not fair. That
commands return is an assumption of its own (`CommandFairness`), the hypothesis of
`RecorderResponsive` and of nothing else, because `Command::status` waits without
a timeout; `AnsweredUnlessCommandHangs` does without it. In `Wire` each accept loop
and each thread is weakly fair for the same reason, timeouts included, since the
kernel raises them; a mutex nobody holds is taken at last, which an unfair lock owes
only because requests are finitely many; a client owes nothing unless it is one of `Honest`, which finish
what they write and read what they asked for. The write to a client that does not
read is not fair: `handle` and `handle_varlink` set no write timeout. That of
`serve_metrics` has one, of 30 s (`WriteTimesOut`).

## 4. The proofs

Everything below is proved for any set of resources, any rules, capacity, tick,
history, clock offsets, window, threshold, cooldown, tree of cgroups, processes,
files and set of daemons the assumptions allow. Most assumptions (`CaptureAssumption`,
`RingAssumption`, `HistoryAssumption`, `NotifierAssumption`,
`ResponsibilityAssumption`, `SamplingAssumption`, `CausesAssumption`,
`DrillAssumption`, `DaemonSetAssumption`, `SocketsAssumption`) only type the
constants. The others say of them what the code gives:

* `CgroupAssumption`: paths form a tree whose order puts ancestors first;
* `KindsAssumption`: a frame's stalls are finitely many, and a collection that took
  no time has none (`attribution.rs:127`, `:381`);
* `JournalAssumption`: the half of a line is shorter than the line, and a file is
  not `None`;
* `PathologyAssumption`: filesystems and sensors are finitely many;
  `MetricsAssumption`: a pair is sampled once, being a key of a map and a resource;
* `WireAssumption`: no request is `None`, which stands for there being none;
* `SettingsAssumption`: a value is a kind and what it holds, numbers are `i64`
  and those of variables and flags unsigned, none larger than `Unbounded`, which
  stands for the end of a range that has none.

TLC evaluates them in each run.

The library's induction theorems take an operator as a parameter, which no
installed prover can instantiate. `Counting` does without: a smallest set, or a
least number, for which a claim fails (`SmallestSet`, `LeastNat`) is refuted. That
gives `SumFunctionOnSet`, which is a `CHOOSE` of a recursive function, its defining
equation (`SumExists`, `SumPicked`), and from it that any index may be taken out
first (`SumTake`), that sums over disjoint or renamed indices agree, and bounds
(`SumBound`, `SumRatio`). `Orders` has been written for the same reason: the k-th
member of a set in an order is the one with k members not after it (`Rank`), which a
count of finite sets settles (`RankOrder`, `NthFacts`), where `SortSeq`,
`SelectSeq` and the like are recursions about which nothing can be proved.
`SortedFacts`, `MembersFacts` and `FirstFacts` are what the other proofs cite.

* `CaptureProofs`. `NoWakeLost` is not inductive: it needs to know that a woken
  watcher holds a notification, that a capture answers something new until its
  record is written, and where a thread can be in each mode. `IInv` adds
  `ModeInv`, `CaptureInv`, `SamplingInv`, `PipelineOrder` and `NeverOrphaned`; `Inductive` proves
  it one conjunct at a time, `WakesAreKept`, `WakesInOrder` and
  `CaptureOutlivesWatchers` follow. `ImplementsRecorder` maps every step to a step
  of `Recorder` or a stutter: `BeginCollect` is a `Begin`, because a capture has
  something new in it, and `AppendIncident` a `Record` of the resources whose number
  in the current capture is new. That those numbers were raised before the sampling
  began is `SamplingInv`; a wake taken up while it runs would break it.
* `HistoryProofs`. The invariant says that frames are at least `Gap` apart
  (`Paced`), that each carries the wall clock of its moment (`Stamped`), that the
  ring is the newest part of what was pushed (`RingInv`), and what a pending
  question knows. `Retention` follows by multiplication, and `HistoryIsKept` from it by
  what division leaves over: whole ticks of the history, and at least one, make up all
  of it but less than a tick (`FramesSpanHistory`), and a frame stays for as many gaps
  (`PerTick`). It has no hypothesis: the tick need not divide the history, nor frames
  keep to the tick. `SinceCountsTheRecent` and
  `SinceSkipsTheOld` combine it with bounds on the rounding of the two clock readings.
  `AnswersAreComplete` and `TheHardestComesFirst` add `AnsweredAll`, that an answer is
  the report of all the frames of its moment that are in its span, and `FromKinds`,
  that frames are what a tick can make. Then the first of a report sorted by average
  and peak is compared with each tick counted by sums over the frames (`SumRatio`).
* `NotifierProofs`. `NoticesAreSpaced` needs `LastSentIsLast`.
  `TheDequeIsTheEpisode` needs `InOrder`: until the clock goes back, captures are
  stamped in order; then the captures pruned earlier stay below a cutoff that
  only grows, and the front of the deque bounds all of it. `NoticesArePaidOnce` needs
  `SpokenOf`: what a notice of this process rested on ends before the beats kept
  (`PaidInv`). `TheRuleIsFollowed` is an action property: it needs `SaidInPast`, that
  notices of this process are not in the future until the clock goes back, and that
  the deque's total is the episode's, a sum over other indices (`SumReindex`).
* `IncidentProofs`, the pass. `PassInv`: the paths done are the last ones, and a slot
  holds the worst of what was handed up to it. `NearestReached` (by the least
  place) says that everything below a cgroup is below, or is, one whose nearest
  ancestor it is; so when its turn comes all of its subtree has been handed up
  (`AllHandedUp`), and it hands the whole on (`HandingUp`). At the end a slot is
  the worst below, which is what the naive rule compares with. `BlameIsNeverLost`
  takes the last cgroup of the subtree with any stall. Nothing the drill and the
  scrape do disturbs the pass, so `IncidentAgrees` and `IncidentBlames` follow.
* `IncidentProofs`, the drill. For `ChargesAreRight`, `DrillInv` says that neither a
  process's counter nor any reading of it exceeds the first reading by more than was
  moved under that pid, and that readings only grow until the pid is reused.
  `NeitherOrderStarves` adds `ClosedInv`, that a process is closed once, and is then
  about the operators: a sequence by a key is a permutation that falls
  (`RankedFacts`); taking turns puts the k-th of both orders among the first 2k
  (`TurnsFacts`); removing repeats moves nothing back (`WithoutRepeatsFacts`); so half
  of each order survives the cut (`KeptFacts`), and a process that did not comes
  after that half (`GivesWay`).
* `IncidentProofs`, the scrape. `ScrapeInv`: the warnings are those of the readings
  the scrape is of. `DocumentTells` puts together, block by block, what each family of
  the document has, and `ShownFacts` that the pairs with pressure beyond the first
  `MAX_SERIES` are as many as are said to be dropped; `TheCapIsTold` and `WhatIsWarnedIsMeasured` follow.
* `SamplingProofs`. The invariant compares every reading with what the kernel has
  counted: a counter that still runs has grown since a reading by no more than was
  counted since that sweep began (`Grown`), for `collect` by no more than the time
  since its clock was started (`Timed`); what was reported, what the sweeps have
  still to report and what the counter has grown by since do not overlap
  (`Reported`); and what was there and readable all along has been read, and has
  counted everything since (`Kept`). `ReportsAreReal`, `CollectFits` and
  `StallsAddUp` follow from the first three, which need `AllOrNone`: the files of a
  living cgroup can be read, or none of them can. Without it a file that fails alone
  in the opening sweep counts as zero, and its whole counter becomes a difference
  (`cgroup.rs:51`). `LeavesAreReported` follows from `Kept` without that condition:
  a leaf that stalled enough is found (`LeafIsFound`), and one that is found and not
  reported was cut from a full report.
* `SharedFilesProofs`. As long as no two daemons have been starting at once
  (`~overlapped`), the one that starts is alone, listens on the sockets it has come
  past, and what it found of the next one still holds (`SocketInv`); a daemon that
  serves holds both. Only such a daemon has a textfile in hand, and never the inode
  that is published (`TextInv`). The three theorems are about that case, because
  their properties are: two daemons that start together may take one socket each.
* `SharedFilesProofs`, the log. `LogInv` keeps accounts: what a daemon past the
  size it looked at has still to write is owed to the file (`Debt`), and a file and its
  debts together stay below the cap and a line for each writer and each rename that
  failed (`DebtInv`); files in use are no more than the records begun, so one that is
  made is new (`FilesInv`). `TheDiskIsBounded` follows without any condition.
  `TornInv`, while no two daemons meet, says that a record reported written has its
  newline (`Known`), so what makes one unreadable is the piece before it, which nothing
  ends; there are no more of those than half lines were left (`Spoiled`), and each
  spoils one record, which gives `DamageIsConfined`, about files that are text: one
  half line cut inside a character spoils every record of its file. `OrderInv` says that while
  nothing was torn and no two daemons met, numbers rise along a file and the record in
  hand is the newest; so does the selection of them (`RecordsRise`), and `NewestFirst`
  turns it round. `AnswersAreNewest` says it for any number asked for,
  `TheNewestIsShown` for the numbers of the run.
* `IncidentProofs`, the movers. A cgroup that yields its blame has one below it with
  four fifths of its bytes or more (`CHILD_DOMINANCE`), whose own chain is shorter
  (`LessDeep`): the blame loses a fifth at most for every level, and by the least depth
  at which it would not, it ends at a cgroup that is responsible and has kept that much
  (`BlameOutlasts`). If that is the threshold, it is a mover, and `CollectCauses` reports it
  or a full list of bigger ones (`WellChosen`, `ChoiceReports`); `MoversAreReported`
  follows. `Power` is a recursive function inside a definition: that there is one is
  shown by the least exponent to which none goes (`PowerFacts`).
* `DaemonProofs`, the settings. `RulesAreKept` is about `SettingsSpec`, the steps of `Startup`
  that touch settings. `RulesInv` keeps the blocks written in step with the rules
  pushed and, while a file is read, with those still in its document: the table of a
  block holds the last filter written in it, or the block has none (`Holds`), and a
  table that passes `RuleOk` becomes a rule with just that filter (`RuleFacts`).
  `TheMostSpecificWins` needs `LayersInv`: what was stated of a setting names layers
  that have had their turn only, what a layer said last is the last entry of it, and
  while a file is read its tables hold just what it has said (`InFile`); the value is
  that of the last layer that spoke. `TheSourceIsNamed` follows the layers of `explain`
  the same way.
* `DaemonProofs`, the conversations. A request goes over the wire in two pieces, so
  the number of pieces a thread has taken (`Taken`) says which request it is at and how
  much of it it has. `WireInv` has one conjunct for each stage: between requests
  (`Waiting`) twice as many pieces as replies have been taken, with half a request
  (`Halfway`) one more, while it answers (`Answering`) both; `Wired` says that what is
  on the wire are the last pieces written. So the request a reply is about is the one
  after those answered. The exception of `AnsweredInOrder` is `Severed`: the client
  has ended inside a request, or without one, and nothing can follow (`CutShort`,
  `Over`). `ConversationIs` turns the replies, right one by one, into the beginning
  of what the conversation should be. The second half of `AnsweredInOrder` adds
  `HonestInv`: the end of a client that behaves stays open, so each way a thread
  leaves it has a reason. After a timeout nothing is on the wire
  and no request is half sent (`NothingLeft`), and otherwise the last reply, or a
  request that gets none, ended it (`Finished`); such replies are the whole
  conversation (`FinishedAnswers`), which completes `RepliesAreInOrder`.

Only model-checked: `RecorderResponsive`, `AnsweredUnlessCommandHangs`,
`OthersServed` and `ThreadsEnd`, because liveness is out of the prover's reach;
`GrammarMeaning` and `AbsentNeverMatches`, because lexer, parser and evaluator are
recursive operators, with which a module loses its SMT prover. The parser is kept as
the descent the code has: as a recursive function it would need a bound on its depth
that the code does not have, and what it builds are trees, over which no induction can be made here.

## 5. What the code does that its documentation does not say

Each of these is a `violation` run above and an entry of `PROJECT.json` `findings`.

1. When the last watcher fails the daemon goes on without recording (`stallwatchd.rs:187-209`).
2. A tick's deltas cover more than its window (`attribution.rs:388`).
3. The paragraph may say that no process moved data when one listed did (`incident.rs:162`).
4. A filter with a letter beyond ASCII can panic the parser (`filter.rs:320`).

These were met while modelling, are plain from the code and have no run:

* *Recording.* `start_trigger_capture` registers every resource and never reads the
  `resources` setting (`stallwatchd.rs:170`, `config.rs:132`). `--history` is
  "how much history to retain" (`stallwatchd.rs:47`), but the ring has a place for each
  whole tick of it (`:359`): `--poll --tick 6000 --history 10` keeps one frame, for 6 s.
  And event captures can come every 900 ms, faster than the tick, so that frames younger
  than `--history` are evicted. `HistoryKept` is what is left of the promise. A daemon that polls writes no incidents,
  runs no rules and notifies nobody. The cooldown of notices is forgotten at a restart
  (`notify.rs:123`, `:68`), and `notify.min_peak` gates nothing.
* *Settings.* An unknown key, or a known one with a value of the wrong kind, is
  ignored without a word (`config.rs:44` says "rather than ignored"); a file that is
  not UTF-8 is passed over like a missing one; a flag whose value does not parse
  still becomes the origin `explain` names. `examples/config.toml:4` says of
  `stallwatch config` "Check what is actually in effect", but it prints what was set:
  with `threshold_ms = 2000` it prints 2000 and the daemon runs with 900
  (`stallwatchd.rs:347`).
* *Filters.* Rules and `why` only evaluate stalls, so `warning.*` never matches there.
  `stallwatch --since N --filter E` does not apply the filter to the daemon's answer.
* *The log.* A record torn inside a character makes the whole file unreadable to
  `why` (`CUT` in `Journal`), which says there is no log; right after a rotation it
  says the same. The causes a record holds are not read back.
* *Sockets.* Two daemons that start together on a stale socket may take one socket
  each. Varlink's interface declares errors that are never returned.
* *Metrics.* The cap counts pairs over all resources, not per resource; two drives of
  one model share a label and so a series. An HTTP request without an end to its
  headers is answered when the read times out.
* *Connections.* The read timeouts (`stallwatchd.rs:548`, `:637`, `:723`) are of one
  `recv`: a client that sends a byte every few seconds, or goes on with Varlink calls,
  holds its thread for ever. The others are served all the same, which is what
  `stallwatchd.rs:539` asks for (`OthersServed`).
* *Drill.* A pid that is reused within the window carries the name of one process and
  the bytes of another, bounded by `ChargedRight`. NOW answers without causes.

## 6. Plan

Done, in this order: `Recorder`, `Ring`, `Capture`; `History`; `Notifier`; `Cgroups`,
`Responsibility`; `Sampling`; `Sockets`, `Journal`, `Textfile`, `SharedFiles`;
`Causes`, `Drill`, `Pathology`, `Metrics`, `Incident`; `Settings`, `Filter`,
`Startup`; `Wire`; the proofs of `SharedFiles`, `Incident`, `Sampling` and
`Settings`; `Counting` and the theorems about sums (`History`, `Notifier`), the
log, the layers of settings; `Orders` and the theorems about what is sorted, selected
and cut (`Drill`, `Metrics`, `why`); the theorems about movers and conversations.
Every safety invariant and action property a run finds to hold is proved but the two
of `Filter`. Not done: `Daemon`, which would compose `Capture` with `History` and
`Notifier`; they meet only in `PushFrame` and `Consider`, and each of the two takes any
moment at which the capture thread may call it.

**Not modelled**, and why:

* `doctor.rs` reads files once, in order, and prints advice; it keeps no state and
  nothing depends on it.
* `lib.rs`' report types, `json.rs`, `appname.rs` and all rendering: layout, wording
  and JSON, about which no property here speaks. Thresholds and caps of `lib.rs` are
  constants of the modules that use them.
* The parsing of `/proc` and `/sys` files (`psi.rs`, parts of `cgroup.rs` and
  `iostat.rs`): one line to a number, no state.
* The Sampler's pacing by its duty cycle, which is arithmetic on wall-clock
  measurements; delay accounting; names of processes.
* The client's argument checks, its live sampling output and the second drill of
  `--processes`, which prints what `Drill` computes.
* The website, the demo, the installer and the deployment manifests, which are not
  the program.
