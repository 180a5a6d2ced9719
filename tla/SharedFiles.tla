----------------------------- MODULE SharedFiles -----------------------------
(* What several daemons of one user share: socket paths, the incident log and  *)
(* the textfile.  A daemon captures and exports once both its sockets are      *)
(* bound, and all of it stops when it dies, in the middle of anything.         *)
EXTENDS Sockets, Journal, Textfile

vars == <<socketVars, logVars, textVars>>

Init == SocketsInit /\ JournalInit /\ TextInit

StartUp(d) == (Start(d) \/ BindOrDie(d)) /\ UNCHANGED <<logVars, textVars>>

Record(d) == d \in Serving /\ (Begin(d) \/ AppendLine(d)) /\ UNCHANGED <<socketVars, textVars>>

Export(d) == d \in Serving /\ ExportTextfile(d) /\ UNCHANGED <<socketVars, logVars>>

Die(d) ==
    /\ StopDaemon(d)
    /\ IF pc[d] = "idle" THEN UNCHANGED logVars ELSE StopAppending(d) /\ UNCHANGED faults
    /\ StopTextfile(d)

Next == \E d \in Daemons : StartUp(d) \/ Record(d) \/ Export(d) \/ Die(d)

Spec == Init /\ [][Next]_vars

-----------------------------------------------------------------------------
(* A collector that opens the published file at any moment reads a whole       *)
(* document ("never written in place ... a reader sees either the old file or  *)
(* the new one", stallwatchd.rs:705), while daemons are started one after      *)
(* another: so do not write to one temporary file together.                    *)
WholeDocuments == ~overlapped /\ published # None => doc[published].whole
=============================================================================
