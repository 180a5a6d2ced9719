--------------------------------- MODULE Wire ---------------------------------
(* Talking to the daemon (stallwatchd.rs handle, handle_varlink, serve_metrics; *)
(* ipc.rs, varlink.rs): three listeners, a thread for every connection, and     *)
(* clients that write a request in pieces, send several at once, stop halfway,  *)
(* hang up, or never read their reply.  A reply is written as it is read, as if *)
(* none fitted the socket's buffer.  A piece that completes a request carries   *)
(* the newline, the NUL or the blank line that ends it; HTTP's request line is  *)
(* all in the first piece.                                                      *)
EXTENDS Naturals, SequencesExt

CONSTANTS
    Clients,
    Honest,       \* those that finish what they write and read what they asked
    Sends,        \* what each client may send, of each protocol
    None,         \* no client, no reply
    MaxRequests   \* bound on the requests of a connection

Protocols == {"line", "varlink", "http"}

ASSUME WireAssumption ==
    /\ Honest \subseteq Clients /\ MaxRequests \in Nat
    /\ \A c \in Clients : \A p \in Protocols : None \notin Sends[c][p]

VARIABLES
    proto,    \* what each client speaks
    sent,     \* what it has sent, the last perhaps not to its end
    half,     \* whether that is so
    wire,     \* pieces written and not read
    more,     \* whether bytes that end nothing follow, not read
    end,      \* "open", "shut" when it will write no more, "gone"
    thread,   \* "none", "queued", "reading", "parse", "lock", "locked", "writing", "done"
    frame,    \* what the thread has of the request it reads
    answer,   \* the reply it writes
    got,      \* the replies each client has had
    ring      \* who holds the ring's mutex

clientVars == <<proto, sent, half, end>>
vars == <<clientVars, wire, more, thread, frame, answer, got, ring>>

Init ==
    /\ proto \in [Clients -> Protocols]
    /\ sent = [c \in Clients |-> << >>] /\ half = [c \in Clients |-> FALSE]
    /\ wire = [c \in Clients |-> << >>] /\ more = [c \in Clients |-> FALSE]
    /\ end = [c \in Clients |-> "open"]
    /\ thread = [c \in Clients |-> "none"] /\ frame = [c \in Clients |-> None]
    /\ answer = [c \in Clients |-> None] /\ got = [c \in Clients |-> << >>]
    /\ ring = None

-----------------------------------------------------------------------------
(* What each request gets, None where the connection is closed without a word.  *)
Request(line) ==
    CASE line = "PING" -> "PONG"
      [] line = "NOW" -> "newest frame"
      [] line = "SINCE seconds" -> "history"
      [] line = "not UTF-8" -> None
      [] OTHER -> "expected PING | NOW | SINCE"

(* parse_call, and what error_for makes of its errors.  GetStalls needs no      *)
(* window; a number out of range is brought into it.                            *)
Call(text) ==
    CASE text = "GetInfo" -> "info"
      [] text = "GetInterfaceDescription of ours" -> "description"
      [] text \in {"GetInterfaceDescription of another", "another interface"} -> "InterfaceNotFound"
      [] text = "GetStalls" -> "report"
      [] text = "GetHistory" -> "history"
      [] text = "another method" -> "MethodNotFound"
      [] text = "blank" -> None
      [] OTHER -> "InvalidParameter"

Page(request) ==
    CASE request = "GET /metrics" -> "metrics"
      [] request = "GET /" -> "link"
      [] request = "GET another" -> "404"
      [] request = "not UTF-8" -> None
      [] OTHER -> "405"

Reply(c, request) ==
    CASE proto[c] = "line" -> Request(request)
      [] proto[c] = "varlink" -> Call(request)
      [] proto[c] = "http" -> Page(request)

TakesRing(c) == answer[c] \in {"newest frame", "history"}

(* Mutant: a call that gets an error ends the conversation.                     *)
LastIfError(c) ==
    proto[c] # "varlink" \/ answer[c] \in {"InterfaceNotFound", "MethodNotFound", "InvalidParameter"}

(* A varlink conversation goes on after an error, unless it was not UTF-8.      *)
LastReply(c) == proto[c] # "varlink" \/ frame[c] = "not UTF-8"

(* What is left of a request cut by its client's end: only the terminator may   *)
(* be missing, and of HTTP's the request line is there.                         *)
Cut(c) ==
    {frame[c]} \union (CASE proto[c] = "line" -> {"other"}
                         [] proto[c] = "varlink" -> {"not JSON"}
                         [] proto[c] = "http" -> {})

-----------------------------------------------------------------------------
(* Clients.                                                                     *)
Talking(c) == end[c] = "open" /\ thread[c] \notin {"none", "done"}

Connect(c) ==
    /\ thread[c] = "none"
    /\ thread' = [thread EXCEPT ![c] = "queued"]
    /\ UNCHANGED <<clientVars, wire, more, frame, answer, got, ring>>

Put(c, whole) == wire' = [wire EXCEPT ![c] = Append(@, [request |-> Last(sent'[c]), whole |-> whole])]

SendPart(c) ==
    /\ Talking(c) /\ ~half[c] /\ Len(sent[c]) < MaxRequests
    /\ \E request \in Sends[c][proto[c]] : sent' = [sent EXCEPT ![c] = Append(@, request)]
    /\ half' = [half EXCEPT ![c] = TRUE]
    /\ Put(c, FALSE)
    /\ UNCHANGED <<proto, end, more, thread, frame, answer, got, ring>>

SendRest(c) ==
    /\ Talking(c) /\ half[c]
    /\ half' = [half EXCEPT ![c] = FALSE]
    /\ UNCHANGED sent /\ Put(c, TRUE)
    /\ UNCHANGED <<proto, end, more, thread, frame, answer, got, ring>>

(* It goes on with a request, and still does not end it.                        *)
Drip(c) ==
    /\ Talking(c) /\ c \notin Honest /\ half[c] /\ wire[c] = << >> /\ ~more[c]
    /\ more' = [more EXCEPT ![c] = TRUE]
    /\ UNCHANGED <<clientVars, wire, thread, frame, answer, got, ring>>

(* It shuts its side, and may still read, or is gone.                           *)
Stop(c) ==
    /\ thread[c] # "none" /\ c \notin Honest
    /\ \E e \in {"shut", "gone"} \ {end[c]} :
          end[c] # "gone" /\ end' = [end EXCEPT ![c] = e]
    /\ UNCHANGED <<proto, sent, half, wire, more, thread, frame, answer, got, ring>>

-----------------------------------------------------------------------------
(* Threads.                                                                     *)
(* Mutant: the listener serves a connection before it accepts the next.         *)
AcceptInTurn(c) ==
    /\ thread[c] = "queued"
    /\ \A d \in Clients : proto[d] = proto[c] => thread[d] \in {"none", "queued", "done"}
    /\ thread' = [thread EXCEPT ![c] = "reading"]
    /\ UNCHANGED <<clientVars, wire, more, frame, answer, got, ring>>

Accept(c) ==
    /\ thread[c] = "queued"
    /\ thread' = [thread EXCEPT ![c] = "reading"]
    /\ UNCHANGED <<clientVars, wire, more, frame, answer, got, ring>>

(* Mutant: one buffer for all the requests of a connection, never cleared.      *)
Gathered(c) == IF got[c] = << >> THEN Head(wire[c]).request ELSE "not JSON"

(* The buffer is new for every request.                                         *)
Fresh(c) == Head(wire[c]).request

Read(c) ==
    /\ thread[c] = "reading" /\ wire[c] # << >>
    /\ frame' = [frame EXCEPT ![c] = Fresh(c)]
    /\ wire' = [wire EXCEPT ![c] = Tail(@)] /\ more' = [more EXCEPT ![c] = FALSE]
    /\ thread' = [thread EXCEPT ![c] = IF Head(wire[c]).whole THEN "parse" ELSE "reading"]
    /\ UNCHANGED <<clientVars, answer, got, ring>>

ReadMore(c) ==
    /\ thread[c] = "reading" /\ more[c]
    /\ more' = [more EXCEPT ![c] = FALSE]
    /\ UNCHANGED <<clientVars, wire, thread, frame, answer, got, ring>>

Unread(c) == wire[c] # << >> \/ more[c]

End(c) ==
    /\ thread' = [thread EXCEPT ![c] = "done"]
    /\ UNCHANGED <<clientVars, wire, more, frame, answer, got, ring>>

(* End of file: nothing at all ends a varlink conversation, and is an empty     *)
(* request to the others; a cut request is taken for whole.                     *)
ReadEnd(c) ==
    /\ thread[c] = "reading" /\ ~Unread(c) /\ end[c] # "open"
    /\ IF frame[c] = None /\ proto[c] = "varlink" THEN End(c)
       ELSE /\ \E request \in IF frame[c] = None THEN {""} ELSE Cut(c) :
                  frame' = [frame EXCEPT ![c] = request]
            /\ thread' = [thread EXCEPT ![c] = "parse"]
            /\ UNCHANGED <<clientVars, wire, more, answer, got, ring>>

(* Mutant: no read timeout is set on the line protocol.                         *)
NotOnLine(c) == proto[c] # "line"

(* Every recv has a timeout, 5 or 10 s, which starts again with every byte that *)
(* comes; an honest client does not pause that long within a request.           *)
TimesOut(c) == c \in Honest => ~half[c]

(* The thread gives up, but a metrics request whose headers do not end is       *)
(* answered all the same.                                                       *)
Timeout(c) ==
    /\ thread[c] = "reading" /\ ~Unread(c) /\ end[c] = "open" /\ TimesOut(c)
    /\ IF proto[c] = "http" /\ frame[c] # None
       THEN /\ thread' = [thread EXCEPT ![c] = "parse"]
            /\ UNCHANGED <<clientVars, wire, more, frame, answer, got, ring>>
       ELSE End(c)

Parse(c) ==
    /\ thread[c] = "parse"
    /\ IF Reply(c, frame[c]) = None THEN End(c)
       ELSE /\ answer' = [answer EXCEPT ![c] = Reply(c, frame[c])]
            /\ thread' = [thread EXCEPT ![c] = IF TakesRing(c)' THEN "lock" ELSE "writing"]
            /\ UNCHANGED <<clientVars, wire, more, frame, got, ring>>

Lock(c) ==
    /\ thread[c] = "lock" /\ ring = None
    /\ ring' = c
    /\ thread' = [thread EXCEPT ![c] = "locked"]
    /\ UNCHANGED <<clientVars, wire, more, frame, answer, got>>

(* The report is copied and the mutex released before anything is written.      *)
Unlock(c) ==
    /\ thread[c] = "locked"
    /\ ring' = None
    /\ thread' = [thread EXCEPT ![c] = "writing"]
    /\ UNCHANGED <<clientVars, wire, more, frame, answer, got>>

WriteReply(c) ==
    /\ thread[c] = "writing" /\ end[c] # "gone"
    /\ got' = [got EXCEPT ![c] = Append(@, answer[c])]
    /\ frame' = [frame EXCEPT ![c] = None]
    /\ thread' = [thread EXCEPT ![c] = IF LastReply(c) THEN "done" ELSE "reading"]
    /\ UNCHANGED <<clientVars, wire, more, answer, ring>>

(* Of the three, metrics has a write timeout too, 30 s.                         *)
WriteTimesOut(c) == proto[c] = "http" /\ c \notin Honest

WriteFails(c) == thread[c] = "writing" /\ (end[c] = "gone" \/ WriteTimesOut(c)) /\ End(c)

Serve(c) ==
    \/ Read(c) \/ ReadMore(c) \/ ReadEnd(c) \/ Timeout(c) \/ Parse(c) \/ Lock(c) \/ Unlock(c)
    \/ WriteFails(c)

Next ==
    \E c \in Clients :
        \/ Connect(c) \/ SendPart(c) \/ SendRest(c) \/ Drip(c) \/ Stop(c)
        \/ Accept(c) \/ Serve(c) \/ WriteReply(c)

Spec ==
    /\ Init /\ [][Next]_vars
    /\ \A c \in Clients : WF_vars(Accept(c)) /\ WF_vars(Serve(c))
    /\ \A c \in Honest : WF_vars(SendRest(c)) /\ WF_vars(WriteReply(c))

-----------------------------------------------------------------------------
(* What a conversation of whole requests is answered with, each in turn, until  *)
(* one is not answered or the reply to one is the last.                         *)
Conversation(c, requests) ==
    LET Ends(i) == proto[c] # "varlink" \/ requests[i] = "not UTF-8"
        Answered == {i \in DOMAIN requests :
                        /\ \A j \in 1..i : Reply(c, requests[j]) # None
                        /\ \A j \in 1..(i - 1) : ~Ends(j)}
    IN  [i \in Answered |-> Reply(c, requests[i])]

Whole(c) == IF half[c] THEN Front(sent[c]) ELSE sent[c]

(* Replies answer the requests in their order, one each, whatever the pieces    *)
(* they came in and however many were sent ahead: only the reply to a request   *)
(* the client never finished may be about less than it meant, or to nothing.    *)
(* A thread leaves a client that behaves only when all it has sent is answered, *)
(* up to the reply, or the request left without one, that ends the conversation.*)
AnsweredInOrder ==
    /\ \A c \in Clients :
          \/ IsPrefix(got[c], Conversation(c, sent[c]))
          \/ /\ end[c] # "open" /\ IsPrefix(Front(got[c]), Conversation(c, Whole(c)))
             /\ half[c] \/ sent[c] = << >>
    /\ \A c \in Honest : thread[c] = "done" => got[c] = Conversation(c, sent[c])

(* "A slow or hostile client must not block the others" (stallwatchd.rs:539):   *)
(* what an honest client has asked in full is answered, whatever is done by the *)
(* clients that stop halfway or never read.                                     *)
OthersServed ==
    \A c \in Honest : \A n \in 1..MaxRequests :
        Len(Conversation(c, Whole(c))) >= n ~> Len(got[c]) >= n

(* A thread is held for ever by no client that behaves, and by no other but one *)
(* that goes on and on with a request it never ends (the timeouts bound a recv, *)
(* not a request), or one that does not read its reply, unless that is metrics. *)
ThreadsEnd ==
    \A c \in Clients :
        \/ c \notin Honest /\ []<><<Drip(c)>>_vars
        \/ thread[c] # "none" ~> \/ thread[c] = "done"
                                 \/ thread[c] = "writing" /\ c \notin Honest /\ proto[c] # "http"
=============================================================================
