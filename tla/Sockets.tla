------------------------------- MODULE Sockets -------------------------------
(* Daemons starting, and the socket files they leave (stallwatchd.rs           *)
(* bind_or_die): look whether the file is there, connect to it, remove it when *)
(* nobody answers, bind, listen - first for the line protocol, then for        *)
(* Varlink.  Every call is a step: daemons may start together, and die at any. *)
EXTENDS DaemonSet, Sequences

CONSTANTS
    Stale,      \* what is left of a socket file whose daemon is gone
    MaxStarts   \* bound on how often daemons are started

ASSUME SocketsAssumption == MaxStarts \in Nat /\ {None, Stale} \cap Daemons = {} /\ None # Stale

Paths == <<"socket", "varlink">>     \* in the order main binds them
Places == 1..Len(Paths)

VARIABLES
    stage,      \* where each daemon is in bind_or_die: "off", "exists", "connect",
                \* "remove", "bind", "listen"; or "serving"
    place,      \* which of the two sockets it is at
    listening,  \* the sockets it listens on
    path,       \* the file at each path: the daemon that bound it, Stale or None

    starts,     \* the model's: how often daemons were started
    quit,       \* the model's: why a daemon last gave up starting, and whether to another
    overlapped  \* the model's: two daemons have been starting at once

socketVars == <<stage, place, listening, path, starts, quit, overlapped>>

Starting(d) == stage[d] \notin {"off", "serving"}
Serving == {d \in Daemons : stage[d] = "serving"}

(* A connect is answered if whoever bound the file still listens.              *)
Answers(s) == \E d \in Daemons : path[s] = d /\ s \in listening[d]

SocketsInit ==
    /\ stage = [d \in Daemons |-> "off"] /\ place = [d \in Daemons |-> 1]
    /\ listening = [d \in Daemons |-> {}] /\ path \in [Places -> {None, Stale}]
    /\ starts = 0
    /\ quit = [why |-> "no", other |-> TRUE] /\ overlapped = FALSE

To(d, label) == stage' = [stage EXCEPT ![d] = label]

Start(d) ==
    /\ stage[d] = "off" /\ starts < MaxStarts
    /\ starts' = starts + 1
    /\ To(d, "exists")
    /\ overlapped' = (overlapped \/ \E e \in Daemons : Starting(e))
    /\ UNCHANGED <<place, listening, path, quit>>

(* Whatever ends a process, what it listened on is closed and the files stay.  *)
Gone(d) ==
    /\ To(d, "off")
    /\ place' = [place EXCEPT ![d] = 1]
    /\ listening' = [listening EXCEPT ![d] = {}]
    /\ path' = [s \in Places |-> IF path[s] = d THEN Stale ELSE path[s]]
    /\ UNCHANGED <<starts, overlapped>>

Quit(d, why) ==
    /\ Gone(d)
    /\ quit' = [why |-> why, other |-> \E e \in Daemons : place[d] \in listening[e]]

LookForFile(d) ==
    /\ stage[d] = "exists"
    /\ To(d, IF path[place[d]] = None THEN "bind" ELSE "connect")
    /\ UNCHANGED <<place, listening, path, starts, quit, overlapped>>

(* Mutant: a file that is there is taken for a stale one.                      *)
TryNoConnect(d) ==
    /\ stage[d] = "connect"
    /\ To(d, "remove")
    /\ UNCHANGED <<place, listening, path, starts, quit, overlapped>>

(* Mutant: a file that is there is taken for a running daemon's.               *)
TakeForRunning(d) == stage[d] = "connect" /\ Quit(d, "running")

TryConnect(d) ==
    /\ stage[d] = "connect"
    /\ IF Answers(place[d]) THEN Quit(d, "running")
       ELSE To(d, "remove") /\ UNCHANGED <<place, listening, path, starts, quit, overlapped>>

(* Another daemon may have removed it, and that is an error.                   *)
RemoveStale(d) ==
    /\ stage[d] = "remove"
    /\ IF path[place[d]] = None THEN Quit(d, "not removed")
       ELSE /\ path' = [path EXCEPT ![place[d]] = None]
            /\ To(d, "bind")
            /\ UNCHANGED <<place, listening, starts, quit, overlapped>>

(* bind(2) makes the file; until listen(2) a connect to it is refused.         *)
BindSocket(d) ==
    /\ stage[d] = "bind"
    /\ IF path[place[d]] # None THEN Quit(d, "not bound")
       ELSE /\ path' = [path EXCEPT ![place[d]] = d]
            /\ To(d, "listen")
            /\ UNCHANGED <<place, listening, starts, quit, overlapped>>

Listen(d) ==
    /\ stage[d] = "listen"
    /\ listening' = [listening EXCEPT ![d] = @ \union {place[d]}]
    /\ IF place[d] = Len(Paths) THEN To(d, "serving") /\ place' = [place EXCEPT ![d] = 1]
       ELSE To(d, "exists") /\ place' = [place EXCEPT ![d] = @ + 1]
    /\ UNCHANGED <<path, starts, quit, overlapped>>

BindOrDie(d) == LookForFile(d) \/ TryConnect(d) \/ RemoveStale(d) \/ BindSocket(d) \/ Listen(d)

(* A crash, a kill or a stop by systemd: nothing is cleaned up.                *)
StopDaemon(d) == stage[d] # "off" /\ Gone(d) /\ UNCHANGED quit

-----------------------------------------------------------------------------
(* While daemons are started one after another, at most one serves, and it is  *)
(* the one clients reach on both sockets: neither a stale file nor a second    *)
(* start takes them from it.                                                   *)
OneServes ==
    ~overlapped =>
        /\ Cardinality(Serving) <= 1
        /\ \A d \in Daemons, s \in Places : s \in listening[d] => path[s] = d

(* While daemons are started one after another, none gives up but to another   *)
(* one that is running: a socket left by an unclean exit never keeps the next  *)
(* daemon out ("clearing a socket left by an unclean exit", stallwatchd.rs:599)*)
StaleNeverBlocks ==
    ~overlapped => quit.other /\ quit.why \in {"no", "running"}
=============================================================================
