------------------------------- MODULE Journal -------------------------------
(* The incident log (logfile.rs, stallwatchd.rs append_incident) and its       *)
(* reader, `stallwatch why`.  A record is appended in steps: look at the size, *)
(* rename a full file over the previous generation, open, write the line,      *)
(* write its newline.  A write may fail half way, a daemon may die, and        *)
(* another may be writing the same file.                                       *)
(*                                                                             *)
(* A file is a sequence of pieces: the text of record n is n, the half of it   *)
(* that a failed write leaves is -n, and NL ends a line.  A text cut inside a  *)
(* character is CUT: the whole file is no longer UTF-8.  A writer keeps the    *)
(* file it opened, whatever it is called by now.                               *)
EXTENDS DaemonSet, Orders, SequencesExt

CONSTANTS
    Cap,          \* DEFAULT_MAX_BYTES
    Text, Half,   \* the size of a record's text, and of the half of it
    MaxRecords,   \* bound on the records appended
    MaxFaults     \* bound on the writes that fail

Files == 1..MaxRecords

ASSUME JournalAssumption ==
    /\ {Cap, Text, Half, MaxRecords, MaxFaults} \subseteq Nat
    /\ Half < Text
    /\ None \notin Files

NL == 0
CUT == -MaxRecords - 1

VARIABLES
    data,     \* the pieces of every file there has been
    live,     \* the file called incidents.jsonl, or None
    old,      \* the file called incidents.jsonl.1, or None
    pc,       \* where each daemon is in append_line
    rec,      \* the record it is appending
    file,     \* the file it has opened

    records,  \* the model's: how many records were begun
    acked,    \* the model's: the records whose append returned Ok
    faults,   \* the model's: how many steps failed
    torn,     \* the model's: how many half lines were left
    kept,     \* the model's: how many times a full file could not be renamed
    crossed   \* the model's: 1 once two daemons have been inside append_line

logVars == <<data, live, old, pc, rec, file, records, acked, faults, torn, kept, crossed>>
disk == <<data, live, old>>

Weight(p) == IF p = NL THEN 1 ELSE IF p > 0 THEN Text ELSE Half
Bytes(s) == SumFunction([i \in DOMAIN s |-> Weight(s[i])])
Size(f) == IF f = None THEN 0 ELSE Bytes(data[f])

JournalInit ==
    /\ data = [f \in Files |-> << >>] /\ live = None /\ old = None
    /\ pc = [d \in Daemons |-> "idle"]
    /\ rec = [d \in Daemons |-> 0] /\ file = [d \in Daemons |-> None]
    /\ records = 0 /\ acked = {} /\ faults = 0 /\ torn = 0 /\ kept = 0 /\ crossed = 0

Idle(d) ==
    /\ pc' = [pc EXCEPT ![d] = "idle"]
    /\ rec' = [rec EXCEPT ![d] = 0]
    /\ file' = [file EXCEPT ![d] = None]

GoTo(d, label) == pc' = [pc EXCEPT ![d] = label]

Begin(d) ==
    /\ pc[d] = "idle" /\ records < MaxRecords
    /\ records' = records + 1
    /\ rec' = [rec EXCEPT ![d] = records + 1]
    /\ GoTo(d, "check")
    /\ crossed' = IF \E e \in Daemons : pc[e] # "idle" THEN 1 ELSE crossed
    /\ UNCHANGED <<disk, file, acked, faults, torn, kept>>

(* Mutant: a file that has reached the cap exactly is not full yet.            *)
CheckSizeAbove(d) ==
    /\ pc[d] = "check"
    /\ GoTo(d, IF Cap > 0 /\ Size(live) > Cap THEN "rotate" ELSE "open")
    /\ UNCHANGED <<disk, rec, file, records, acked, faults, torn, kept, crossed>>

(* A file that is not there has no size; a cap of zero disables rotation.      *)
CheckSize(d) ==
    /\ pc[d] = "check"
    /\ GoTo(d, IF Cap > 0 /\ Size(live) >= Cap THEN "rotate" ELSE "open")
    /\ UNCHANGED <<disk, rec, file, records, acked, faults, torn, kept, crossed>>

(* rename(2): the previous generation is gone.  Another daemon may have renamed *)
(* the file already.                                                           *)
Rotate(d) ==
    /\ pc[d] = "rotate"
    /\ IF live = None THEN UNCHANGED disk
       ELSE old' = live /\ live' = None /\ UNCHANGED data
    /\ GoTo(d, "open")
    /\ UNCHANGED <<rec, file, records, acked, faults, torn, kept, crossed>>

(* Any other failure is ignored too: the record goes into the full file.       *)
RotateFails(d) ==
    /\ pc[d] = "rotate" /\ live # None /\ faults < MaxFaults
    /\ faults' = faults + 1 /\ kept' = kept + 1
    /\ GoTo(d, "open")
    /\ UNCHANGED <<disk, rec, file, records, acked, torn, crossed>>

NewFile == CHOOSE f \in Files : f # live /\ f # old /\ data[f] = << >> /\
                                \A d \in Daemons : pc[d] \in {"text", "newline"} => file[d] # f

Open(d) ==
    /\ pc[d] = "open"
    /\ live' = IF live = None THEN NewFile ELSE live
    /\ file' = [file EXCEPT ![d] = live']
    /\ GoTo(d, "text")
    /\ UNCHANGED <<data, old, rec, records, acked, faults, torn, kept, crossed>>

Write(d, piece) == data' = [data EXCEPT ![file[d]] = Append(@, piece)]

WriteText(d) ==
    /\ pc[d] = "text"
    /\ Write(d, rec[d])
    /\ GoTo(d, "newline")
    /\ UNCHANGED <<live, old, rec, file, records, acked, faults, torn, kept, crossed>>

(* Mutant: `write!` for `writeln!`.                                            *)
WriteNoNewline(d) ==
    /\ pc[d] = "newline"
    /\ acked' = acked \union {rec[d]}
    /\ Idle(d)
    /\ UNCHANGED <<disk, records, faults, torn, kept, crossed>>

WriteNewline(d) ==
    /\ pc[d] = "newline"
    /\ Write(d, NL)
    /\ acked' = acked \union {rec[d]}
    /\ Idle(d)
    /\ UNCHANGED <<live, old, records, faults, torn, kept, crossed>>

(* What a writer leaves that stops in the middle: nothing, the half of a line, *)
(* or one cut inside a character.                                              *)
StopAppending(d) ==
    /\ \/ pc[d] # "newline" /\ UNCHANGED <<data, torn>>
       \/ /\ pc[d] = "text" /\ torn' = torn + 1
          /\ \E piece \in {-rec[d], CUT} : Write(d, piece)
       \/ pc[d] = "newline" /\ torn' = torn + 1 /\ UNCHANGED data
    /\ Idle(d)
    /\ UNCHANGED <<live, old, records, acked, kept, crossed>>

(* Any other step may fail, a full disk: the record is given up.               *)
AppendFails(d) ==
    /\ pc[d] \notin {"idle", "rotate"} /\ faults < MaxFaults
    /\ faults' = faults + 1
    /\ StopAppending(d)

AppendLine(d) ==
    \/ CheckSize(d) \/ Rotate(d) \/ RotateFails(d) \/ Open(d)
    \/ WriteText(d) \/ WriteNewline(d) \/ AppendFails(d)

-----------------------------------------------------------------------------
(* parse_incident: a line is a record if it is the whole text of one.          *)
Content(f) == IF f = None THEN << >> ELSE data[f]

ReadableAt(s, i) ==
    /\ s[i] > 0
    /\ i = 1 \/ s[i - 1] = NL
    /\ i = Len(s) \/ s[i + 1] = NL

(* A file that is not UTF-8 cannot be read at all.                             *)
IsText(f) == CUT \notin Range(Content(f))
Records(f) == {i \in DOMAIN Content(f) : IsText(f) /\ ReadableAt(Content(f), i)}
Readable(f) == {Content(f)[i] : i \in Records(f)}

(* Mutant: lines are looked at from the first.                                 *)
AnswerOldest(n) == First(Members(Content(live), Records(live)), n)

(* `why -n`: the last n records of the live file, newest first.                *)
Answer(n) == First(Reverse(Members(Content(live), Records(live))), n)

-----------------------------------------------------------------------------
Line == Text + 1
Writers == Cardinality(Daemons)

(* "The cap is never exceeded by more than one record" (logfile.rs:46) for     *)
(* each daemon that writes and each time a full file could not be renamed, so  *)
(* that both generations stay "a little over twice the cap" (logfile.rs:18)    *)
(* however the daemons interleave.                                             *)
DiskBounded ==
    Cap > 0 => \A f \in {live, old} \ {None} : Size(f) < Cap + (Writers + kept) * Line

(* Half a line spoils only what lands on the same line: of the records that    *)
(* were reported written and are still there, in a file that is text at all,   *)
(* no more are unreadable than half lines were left, while one daemon writes   *)
(* at a time.                                                                  *)
DamageBounded ==
    crossed = 0 =>
        Cardinality({n \in acked :
            \E f \in {live, old} : IsText(f) /\ n \in Range(Content(f)) \ Readable(f)}) <= torn

(* The newest first, and of the records that were reported written and are in  *)
(* the live file only those left out that are older than the n shown.          *)
ShowsNewest(n) ==
    LET a == Answer(n) IN
    /\ \A i \in 1..Len(a) - 1 : a[i] > a[i + 1]
    /\ \A r \in (acked \intersect Range(Content(live))) \ Range(a) :
          Len(a) = n /\ r < Last(a)

(* `why` is "what just happened" (stallwatch.rs:375): while nothing was torn   *)
(* and daemons did not meet, `why -n` shows the newest record first, and       *)
(* leaves out one that was reported written and is still in the live file only *)
(* for n newer ones.                                                           *)
WhyIsNewest == torn = 0 /\ crossed = 0 => \A n \in 1..2 : ShowsNewest(n)
=============================================================================
