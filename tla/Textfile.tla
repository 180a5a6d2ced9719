------------------------------- MODULE Textfile ------------------------------
(* The textfile export (stallwatchd.rs write_textfile): a thread of every      *)
(* daemon renders the counters, writes them to one temporary file and renames  *)
(* it over the published one, while a collector reads.  An open file is kept   *)
(* by whoever opened it, whatever it is called by now.                         *)
EXTENDS DaemonSet

CONSTANT MaxScrapes   \* bound on the documents rendered

ASSUME TextfileAssumption == MaxScrapes \in Nat

Inodes == 1..2 + Cardinality(Daemons)

VARIABLES
    step,       \* where each daemon's thread is: "sleep", "write" or "rename"
    opened,     \* the file it writes to
    scrape,     \* the number of the document it writes
    doc,        \* what each file holds: a document's number, and whether all of it
    temporary,  \* the file called <path>.tmp, or None
    published,  \* the file called <path>, or None
    scrapes     \* the model's: how many documents were rendered

textVars == <<step, opened, scrape, doc, temporary, published, scrapes>>

Nothing == [n |-> 0, whole |-> FALSE]

TextInit ==
    /\ step = [d \in Daemons |-> "sleep"]
    /\ opened = [d \in Daemons |-> None] /\ scrape = [d \in Daemons |-> 0]
    /\ doc = [i \in Inodes |-> Nothing]
    /\ temporary = None /\ published = None /\ scrapes = 0

Back(d) ==
    /\ step' = [step EXCEPT ![d] = "sleep"]
    /\ opened' = [opened EXCEPT ![d] = None]
    /\ scrape' = [scrape EXCEPT ![d] = 0]

Unused == CHOOSE i \in Inodes : i \notin {temporary, published} \union {opened[d] : d \in Daemons}

(* Mutant: written in place.                                                   *)
OpenPublished(d) ==
    /\ step[d] = "sleep" /\ scrapes < MaxScrapes
    /\ scrapes' = scrapes + 1
    /\ scrape' = [scrape EXCEPT ![d] = scrapes + 1]
    /\ published' = IF published = None THEN Unused ELSE published
    /\ opened' = [opened EXCEPT ![d] = published']
    /\ doc' = [doc EXCEPT ![published'] = Nothing]
    /\ step' = [step EXCEPT ![d] = "write"]
    /\ UNCHANGED temporary

(* fs::write: create the file or empty the one that is there, ...              *)
OpenTemporary(d) ==
    /\ step[d] = "sleep" /\ scrapes < MaxScrapes
    /\ scrapes' = scrapes + 1
    /\ scrape' = [scrape EXCEPT ![d] = scrapes + 1]
    /\ temporary' = IF temporary = None THEN Unused ELSE temporary
    /\ opened' = [opened EXCEPT ![d] = temporary']
    /\ doc' = [doc EXCEPT ![temporary'] = Nothing]
    /\ step' = [step EXCEPT ![d] = "write"]
    /\ UNCHANGED published

(* ... and write it.  What another daemon wrote is overwritten, to its end or  *)
(* not.                                                                        *)
WriteDocument(d) ==
    /\ step[d] = "write"
    /\ \E whole \in IF doc[opened[d]] = Nothing THEN {TRUE} ELSE BOOLEAN :
          doc' = [doc EXCEPT ![opened[d]] = [n |-> scrape[d], whole |-> whole]]
    /\ step' = [step EXCEPT ![d] = "rename"]
    /\ UNCHANGED <<opened, scrape, temporary, published, scrapes>>

(* A write that fails, a full disk, leaves part of it; the next turn tries     *)
(* again.                                                                      *)
WriteFails(d) ==
    /\ step[d] = "write"
    /\ doc' = [doc EXCEPT ![opened[d]] = [n |-> scrape[d], whole |-> FALSE]]
    /\ Back(d)
    /\ UNCHANGED <<temporary, published, scrapes>>

(* Without a temporary file, because another daemon renamed it, an error.  A   *)
(* file that has lost its name is gone when nobody has it open.                *)
Publish(d) ==
    /\ step[d] = "rename"
    /\ IF temporary = None THEN UNCHANGED <<doc, temporary, published>>
       ELSE /\ published' = temporary /\ temporary' = None
            /\ doc' = [i \in Inodes |->
                  IF i = published /\ \A e \in Daemons : opened[e] # i THEN Nothing ELSE doc[i]]
    /\ Back(d)
    /\ UNCHANGED scrapes

StopTextfile(d) == Back(d) /\ UNCHANGED <<doc, temporary, published, scrapes>>

ExportTextfile(d) == OpenTemporary(d) \/ WriteDocument(d) \/ WriteFails(d) \/ Publish(d)
=============================================================================
