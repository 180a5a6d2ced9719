-------------------------- MODULE SharedFilesProofs --------------------------
(* Proofs about daemons that share files, for any number of them and of starts *)
(* and for any log: as long as no two of them are starting at once, one        *)
(* serves, a stale socket keeps none out, and a collector sees whole documents.*)
(* Whether they meet or not, the log does not outgrow its cap; while they do   *)
(* not, a half line damages one record, and the newest are shown.              *)
EXTENDS SharedFiles, Counting

Stages == {"off", "exists", "connect", "remove", "bind", "listen", "serving"}

SocketTypes ==
    /\ stage \in [Daemons -> Stages]
    /\ place \in [Daemons -> Places]
    /\ listening \in [Daemons -> SUBSET Places]
    /\ path \in [Places -> Daemons \union {None, Stale}]
    /\ overlapped \in BOOLEAN

(* A daemon is alone in starting; it listens on the sockets it has come past,  *)
(* and what it has found of the next one still holds.                          *)
SocketInv ==
    /\ \A d, e \in Daemons : Starting(d) /\ Starting(e) => d = e
    /\ \A d \in Daemons :
          /\ stage[d] = "off" => listening[d] = {} /\ place[d] = 1
          /\ stage[d] = "serving" => listening[d] = Places
          /\ Starting(d) => listening[d] = {s \in Places : s < place[d]}
          /\ stage[d] = "connect" => path[place[d]] # None
          /\ stage[d] = "remove" => path[place[d]] = Stale
          /\ stage[d] = "bind" => path[place[d]] = None
          /\ stage[d] = "listen" => path[place[d]] = d
    /\ \A d \in Daemons, s \in Places :
          /\ s \in listening[d] => path[s] = d
          /\ path[s] = d => s \in listening[d] \/ (stage[d] = "listen" /\ place[d] = s)

QuitInv == quit.other /\ quit.why \in {"no", "running"}

(* Only the daemon that serves has a document in hand; what it writes to is    *)
(* not what is published.                                                      *)
TextInv ==
    /\ step \in [Daemons -> {"sleep", "write", "rename"}]
    /\ opened \in [Daemons -> Inodes \union {None}]
    /\ DOMAIN doc = Inodes
    /\ temporary \in Inodes \union {None} /\ published \in Inodes \union {None}
    /\ temporary # None => temporary # published
    /\ published # None => doc[published].whole
    /\ \A d \in Daemons :
          /\ step[d] # "sleep" => stage[d] = "serving"
          /\ step[d] = "sleep" => opened[d] = None
          /\ step[d] # "sleep" => temporary # None /\ opened[d] = temporary
          /\ step[d] = "write" => doc[temporary] = Nothing
          /\ step[d] = "rename" => doc[temporary].whole

IInv == SocketTypes /\ (~overlapped => SocketInv /\ QuitInv /\ TextInv)
-----------------------------------------------------------------------------
LEMMA PlacesAre == Places = {1, 2} /\ Len(Paths) = 2
  BY DEF Places, Paths

LEMMA Alone ==
    ASSUME SocketTypes, SocketInv, NEW d \in Daemons, NEW e \in Daemons,
           stage[d] = "serving", stage[e] = "serving"
    PROVE  d = e
  BY PlacesAre DEF SocketTypes, SocketInv

LEMMA Initially == Init => IInv
<1> SUFFICES ASSUME Init PROVE IInv
  OBVIOUS
<1>1. SocketTypes
  BY PlacesAre DEF Init, SocketsInit, SocketTypes, Stages
<1>2. SocketInv
  BY PlacesAre, SocketsAssumption DEF Init, SocketsInit, SocketInv, Starting
<1>3. QuitInv
  BY DEF Init, SocketsInit, QuitInv
<1>4. TextInv
  BY DEF Init, TextInit, TextInv
<1>5. QED
  BY <1>1, <1>2, <1>3, <1>4 DEF IInv

LEMMA StartKeeps ==
    ASSUME SocketTypes, ~overlapped => SocketInv /\ QuitInv, NEW d \in Daemons, Start(d)
    PROVE  SocketTypes' /\ (~overlapped' => ~overlapped /\ SocketInv' /\ QuitInv')
<1>1. SocketTypes'
  BY DEF SocketTypes, Start, To, Stages
<1>2. ASSUME ~overlapped' PROVE ~overlapped /\ SocketInv' /\ QuitInv'
  <2>1. ~overlapped /\ \A e \in Daemons : ~Starting(e)
    <3>1. overlapped' = (overlapped \/ \E e \in Daemons : Starting(e))
      BY DEF Start
    <3>2. QED
      <4> DEFINE Another == \E e \in Daemons : Starting(e)
      <4>1. overlapped' = (overlapped \/ Another)
        BY <3>1
      <4>2. ~overlapped /\ ~Another
        <5> HIDE DEF Another
        <5> QED
          BY <1>2, <4>1
      <4>3. QED
        BY <4>2
  <2>2. SocketInv /\ QuitInv
    BY <2>1
  <2>3. QuitInv'
    BY <2>2 DEF QuitInv, Start
  <2>4. /\ stage[d] = "off" /\ stage' = [stage EXCEPT ![d] = "exists"]
        /\ UNCHANGED <<place, listening, path>>
    BY DEF Start, To
  <2>5. SocketInv'
    BY <2>1, <2>2, <2>4, PlacesAre DEF SocketTypes, SocketInv, Starting
  <2>6. QED
    BY <2>1, <2>3, <2>5
<1>3. QED
  BY <1>1, <1>2

LEMMA GoneKeeps ==
    ASSUME SocketTypes, NEW d \in Daemons, stage[d] # "off", Gone(d)
    PROVE  SocketTypes' /\ (SocketInv => SocketInv')
<1>1. SocketTypes'
  BY PlacesAre DEF SocketTypes, Gone, To, Stages
<1>2. ASSUME SocketInv PROVE SocketInv'
  <2>1. \A e \in Daemons : e # d => /\ stage'[e] = stage[e] /\ place'[e] = place[e]
                                   /\ listening'[e] = listening[e]
    BY DEF Gone, To, SocketTypes
  <2>2. stage'[d] = "off" /\ listening'[d] = {} /\ place'[d] = 1
    BY DEF Gone, To, SocketTypes
  <2>3. \A s \in Places : path'[s] = IF path[s] = d THEN Stale ELSE path[s]
    BY DEF Gone
  <2>4. QED
    BY <1>2, <2>1, <2>2, <2>3, SocketsAssumption DEF SocketTypes, SocketInv, Starting
<1>3. QED
  BY <1>1, <1>2

(* Each call of bind_or_die keeps to what was found; the three ways to give up *)
(* are the point: only the first is ever taken.                                *)
LEMMA BindKeeps ==
    ASSUME SocketTypes, ~overlapped => SocketInv /\ QuitInv, NEW d \in Daemons, BindOrDie(d)
    PROVE  SocketTypes' /\ overlapped' = overlapped /\ (~overlapped => SocketInv' /\ QuitInv')
<1> USE PlacesAre, SocketsAssumption
<1>1. CASE LookForFile(d)
  <2>1. SocketTypes' /\ overlapped' = overlapped
    BY <1>1 DEF LookForFile, SocketTypes, To, Stages
  <2>2. ASSUME ~overlapped PROVE SocketInv' /\ QuitInv'
    BY <1>1, <2>2 DEF LookForFile, SocketTypes, SocketInv, QuitInv, To, Starting
  <2>3. QED
    BY <2>1, <2>2
<1>2. CASE TryConnect(d)
  <2>1. CASE Answers(place[d])
    <3>1. Quit(d, "running") /\ stage[d] # "off"
      BY <1>2, <2>1 DEF TryConnect
    <3>2. QuitInv'
      BY <3>1, <2>1 DEF Quit, QuitInv, Answers
    <3>3. QED
      BY <3>1, <3>2, GoneKeeps DEF Quit, Gone
  <2>2. CASE ~Answers(place[d])
    <3>1. SocketTypes' /\ overlapped' = overlapped
      BY <1>2, <2>2 DEF TryConnect, SocketTypes, To, Stages
    <3>2. ASSUME ~overlapped PROVE path[place[d]] = Stale
      <4>1. \A e \in Daemons : path[place[d]] = e => stage[e] = "listen"
        BY <2>2, <3>2 DEF Answers, SocketInv, SocketTypes
      <4>2. \A e \in Daemons : stage[e] # "listen"
        BY <1>2, <3>2 DEF TryConnect, SocketInv, Starting
      <4>3. path[place[d]] # None
        BY <1>2, <3>2 DEF TryConnect, SocketInv
      <4>4. QED
        BY <4>1, <4>2, <4>3 DEF SocketTypes
    <3>3. ASSUME ~overlapped PROVE SocketInv' /\ QuitInv'
      BY <1>2, <2>2, <3>2, <3>3 DEF TryConnect, SocketTypes, SocketInv, QuitInv, To, Starting
    <3>4. QED
      BY <3>1, <3>3
  <2>3. QED
    BY <2>1, <2>2
<1>3. CASE RemoveStale(d)
  <2>1. CASE path[place[d]] = None
    <3>1. overlapped
      BY <1>3, <2>1 DEF RemoveStale, SocketInv
    <3>2. QED
      BY <1>3, <2>1, <3>1, GoneKeeps DEF RemoveStale, Quit, Gone
  <2>2. CASE path[place[d]] # None
    <3>1. SocketTypes' /\ overlapped' = overlapped
      BY <1>3, <2>2 DEF RemoveStale, SocketTypes, To, Stages
    <3>2. ASSUME ~overlapped PROVE SocketInv' /\ QuitInv'
      BY <1>3, <2>2, <3>2 DEF RemoveStale, SocketTypes, SocketInv, QuitInv, To, Starting
    <3>3. QED
      BY <3>1, <3>2
  <2>3. QED
    BY <2>1, <2>2
<1>4. CASE BindSocket(d)
  <2>1. CASE path[place[d]] # None
    <3>1. overlapped
      BY <1>4, <2>1 DEF BindSocket, SocketInv
    <3>2. QED
      BY <1>4, <2>1, <3>1, GoneKeeps DEF BindSocket, Quit, Gone
  <2>2. CASE path[place[d]] = None
    <3>1. SocketTypes' /\ overlapped' = overlapped
      BY <1>4, <2>2 DEF BindSocket, SocketTypes, To, Stages
    <3>2. ASSUME ~overlapped PROVE SocketInv' /\ QuitInv'
      BY <1>4, <2>2, <3>2 DEF BindSocket, SocketTypes, SocketInv, QuitInv, To, Starting
    <3>3. QED
      BY <3>1, <3>2
  <2>3. QED
    BY <2>1, <2>2
<1>5. CASE Listen(d)
  <2>1. SocketTypes' /\ overlapped' = overlapped
    BY <1>5 DEF Listen, SocketTypes, To, Stages
  <2>2. ASSUME ~overlapped PROVE QuitInv'
    BY <1>5, <2>2 DEF Listen, QuitInv
  <2>3. ASSUME ~overlapped PROVE SocketInv'
    <3>1. \A e \in Daemons : e # d => /\ stage'[e] = stage[e] /\ place'[e] = place[e]
                                     /\ listening'[e] = listening[e]
      BY <1>5 DEF Listen, To, SocketTypes
    <3>2. listening'[d] = listening[d] \union {place[d]} /\ path' = path
      BY <1>5 DEF Listen, SocketTypes
    <3>3. \/ place[d] = 2 /\ stage'[d] = "serving" /\ place'[d] = 1
          \/ place[d] = 1 /\ stage'[d] = "exists" /\ place'[d] = 2
      BY <1>5 DEF Listen, To, SocketTypes
    <3>4. stage[d] = "listen" /\ path[place[d]] = d /\ listening[d] = {s \in Places : s < place[d]}
      BY <1>5, <2>3 DEF Listen, SocketInv, Starting
    <3>5. QED
      BY <2>3, <3>1, <3>2, <3>3, <3>4 DEF SocketTypes, SocketInv, Starting
  <2>4. QED
    BY <2>1, <2>2, <2>3
<1>6. QED
  BY <1>1, <1>2, <1>3, <1>4, <1>5 DEF BindOrDie

-----------------------------------------------------------------------------
(* A second inode is free for whoever is alone in writing.                     *)
LEMMA UnusedFacts ==
    ASSUME TextInv, NEW d \in Daemons, \A e \in Daemons : step[e] = "sleep", temporary = None
    PROVE  Unused \in Inodes /\ Unused # None /\ Unused # published
<1>1. Cardinality(Daemons) \in Nat /\ Cardinality(Daemons) # 0
  BY DaemonSetAssumption, FS_CardinalityType, FS_EmptySet
<1>2. {1, 2, 3} \subseteq Inodes
  BY <1>1 DEF Inodes
<1>3. {temporary, published} \union {opened[e] : e \in Daemons} \subseteq {None, published}
  BY DEF TextInv
<1>4. None \in {temporary, published} \union {opened[e] : e \in Daemons}
  OBVIOUS
<1>5. published \in {temporary, published} \union {opened[e] : e \in Daemons}
  OBVIOUS
<1>6. \E i \in {1, 2, 3} : i # None /\ i # published
  OBVIOUS
<1>7. \E i \in Inodes : i \notin {temporary, published} \union {opened[e] : e \in Daemons}
  BY <1>2, <1>3, <1>6
<1>8. QED
  BY <1>4, <1>5, <1>7 DEF Unused

LEMMA ExportKeeps ==
    ASSUME SocketTypes, SocketInv, TextInv, NEW d \in Daemons, stage[d] = "serving",
           ExportTextfile(d), UNCHANGED socketVars
    PROVE  TextInv'
<1>1. \A e \in Daemons : e # d => step[e] = "sleep" /\ opened[e] = None
  BY Alone DEF TextInv
<1>2. stage' = stage
  BY DEF socketVars
<1>3. CASE OpenTemporary(d)
  <2>1. \A e \in Daemons : step[e] = "sleep"
    BY <1>1, <1>3 DEF OpenTemporary
  <2>2. temporary' \in Inodes /\ temporary' # None /\ temporary' # published
    BY <1>3, <2>1, UnusedFacts DEF OpenTemporary, TextInv
  <2>3. /\ published' = published
        /\ doc' = [doc EXCEPT ![temporary'] = Nothing]
        /\ step' = [step EXCEPT ![d] = "write"]
        /\ opened' = [opened EXCEPT ![d] = temporary']
    BY <1>3 DEF OpenTemporary
  <2>4. QED
    BY <1>1, <1>2, <2>2, <2>3 DEF TextInv
<1>4. CASE WriteDocument(d)
  <2>1. step[d] = "write" /\ opened[d] = temporary /\ temporary \in Inodes /\ doc[temporary] = Nothing
    BY <1>4 DEF WriteDocument, TextInv
  <2>2. doc' = [doc EXCEPT ![temporary] = [n |-> scrape[d], whole |-> TRUE]]
    BY <1>4, <2>1 DEF WriteDocument
  <2>3. /\ step' = [step EXCEPT ![d] = "rename"]
        /\ UNCHANGED <<opened, temporary, published>>
    BY <1>4 DEF WriteDocument
  <2>4. QED
    BY <1>1, <1>2, <2>1, <2>2, <2>3 DEF TextInv
<1>5. CASE WriteFails(d)
  <2>1. step[d] = "write" /\ opened[d] = temporary /\ temporary \in Inodes
    BY <1>5 DEF WriteFails, TextInv
  <2>2. /\ doc' = [doc EXCEPT ![temporary] = [n |-> scrape[d], whole |-> FALSE]]
        /\ step' = [step EXCEPT ![d] = "sleep"] /\ opened' = [opened EXCEPT ![d] = None]
        /\ UNCHANGED <<temporary, published>>
    BY <1>5, <2>1 DEF WriteFails, Back
  <2>3. QED
    BY <1>1, <1>2, <2>1, <2>2 DEF TextInv
<1>6. CASE Publish(d)
  <2>1. step[d] = "rename" /\ temporary # None /\ temporary \in Inodes /\ doc[temporary].whole
    BY <1>6 DEF Publish, TextInv
  <2>2. /\ published' = temporary /\ temporary' = None
        /\ step' = [step EXCEPT ![d] = "sleep"] /\ opened' = [opened EXCEPT ![d] = None]
        /\ DOMAIN doc' = Inodes
        /\ doc'[temporary] = doc[temporary]
    BY <1>6, <2>1 DEF Publish, Back, TextInv
  <2>3. QED
    BY <1>1, <1>2, <2>1, <2>2 DEF TextInv
<1>7. QED
  BY <1>3, <1>4, <1>5, <1>6 DEF ExportTextfile

LEMMA Inductive == IInv /\ [Next]_vars => IInv'
<1> SUFFICES ASSUME IInv, [Next]_vars PROVE IInv'
  OBVIOUS
<1>1. CASE UNCHANGED vars
  BY <1>1 DEF vars, socketVars, logVars, textVars, IInv, SocketTypes, SocketInv, QuitInv, TextInv,
              Starting, Nothing
<1>2. ASSUME NEW d \in Daemons, StartUp(d) PROVE IInv'
  <2>1. SocketTypes' /\ (~overlapped' => ~overlapped /\ SocketInv' /\ QuitInv')
    BY <1>2, StartKeeps, BindKeeps DEF IInv, StartUp
  <2>2. stage[d] # "serving" /\ \A e \in Daemons : e # d => stage'[e] = stage[e]
    BY <1>2 DEF StartUp, Start, BindOrDie, LookForFile, TryConnect, RemoveStale, BindSocket, Listen,
                Quit, Gone, To, IInv, SocketTypes
  <2>3. UNCHANGED textVars
    BY <1>2 DEF StartUp
  <2>4. TextInv => TextInv'
    BY <2>2, <2>3 DEF TextInv, textVars
  <2>5. QED
    BY <2>1, <2>4 DEF IInv
<1>3. ASSUME NEW d \in Daemons, Record(d) PROVE IInv'
  BY <1>3 DEF Record, socketVars, textVars, IInv, SocketTypes, SocketInv, QuitInv, TextInv, Starting
<1>4. ASSUME NEW d \in Daemons, Export(d) PROVE IInv'
  <2>1. stage[d] = "serving" /\ ExportTextfile(d) /\ UNCHANGED socketVars
    BY <1>4 DEF Export, Serving
  <2>2. SocketTypes' /\ overlapped' = overlapped /\ (SocketInv => SocketInv') /\ (QuitInv => QuitInv')
    BY <2>1 DEF socketVars, IInv, SocketTypes, SocketInv, QuitInv, Starting
  <2>3. ~overlapped => TextInv'
    BY <2>1, ExportKeeps DEF IInv
  <2>4. QED
    BY <2>2, <2>3 DEF IInv
<1>5. ASSUME NEW d \in Daemons, Die(d) PROVE IInv'
  <2>1. stage[d] # "off" /\ Gone(d) /\ quit' = quit /\ overlapped' = overlapped
    BY <1>5 DEF Die, StopDaemon, Gone
  <2>2. SocketTypes' /\ (SocketInv => SocketInv')
    BY <2>1, GoneKeeps DEF IInv
  <2>3. QuitInv => QuitInv'
    BY <2>1 DEF QuitInv
  <2>4. \A e \in Daemons : e # d => stage'[e] = stage[e]
    BY <2>1 DEF Gone, To, IInv, SocketTypes
  <2>5. /\ step' = [step EXCEPT ![d] = "sleep"] /\ opened' = [opened EXCEPT ![d] = None]
        /\ UNCHANGED <<doc, temporary, published>>
    BY <1>5 DEF Die, StopTextfile, Back
  <2>6. TextInv => TextInv'
    BY <2>4, <2>5 DEF TextInv
  <2>7. QED
    BY <2>1, <2>2, <2>3, <2>6 DEF IInv
<1>6. QED
  BY <1>1, <1>2, <1>3, <1>4, <1>5 DEF Next

LEMMA Always == Spec => []IInv
<1>1. Init => IInv
  BY Initially
<1>2. IInv /\ [Next]_vars => IInv'
  BY Inductive
<1>3. QED
  BY <1>1, <1>2, PTL DEF Spec

-----------------------------------------------------------------------------
(* The log.  A writer past the size it looked at owes the file what it has yet *)
(* to write there; a file is never fuller than the cap and the debts allow.    *)
Labels == {"idle", "check", "rotate", "open", "text", "newline"}

LogTypes ==
    /\ data \in [Files -> Seq(Int)]
    /\ live \in Files \union {None} /\ old \in Files \union {None}
    /\ pc \in [Daemons -> Labels]
    /\ rec \in [Daemons -> Nat] /\ file \in [Daemons -> Files \union {None}]
    /\ \A d \in Daemons :
          /\ pc[d] # "idle" => rec[d] > 0
          /\ pc[d] \in {"text", "newline"} => file[d] \in Files
    /\ records \in 0 .. MaxRecords /\ kept \in Nat

(* A file in use was made for a record that is past `open`: there are as many  *)
(* files as records, so `open` finds a new one.                                *)
Used == {f \in Files : \/ data[f] # << >> \/ f = live \/ f = old
                       \/ \E d \in Daemons : pc[d] \in {"text", "newline"} /\ file[d] = f}
Unopened == {d \in Daemons : pc[d] \in {"check", "rotate", "open"}}
FilesInv == Cardinality(Used) + Cardinality(Unopened) <= records

Owed(d, f) ==
    IF (pc[d] = "open" /\ f = live) \/ (pc[d] = "text" /\ f = file[d]) THEN Line
    ELSE IF pc[d] = "newline" /\ f = file[d] THEN 1 ELSE 0
Debt(f) == SumFunction([d \in Daemons |-> Owed(d, f)])
Limit == Cap + (Writers + kept) * Line

DebtInv == Cap > 0 => \A f \in {live, old} \ {None} : Size(f) + Debt(f) < Limit

LogInv == LogTypes /\ FilesInv /\ DebtInv

LEMMA Numbers ==
    /\ Cap \in Nat /\ Text \in Nat /\ Half \in Nat /\ MaxRecords \in Nat
    /\ Line \in Nat /\ Writers \in Nat /\ Half <= Text /\ Line = Text + 1
    /\ IsFiniteSet(Daemons) /\ None \notin Files
  BY JournalAssumption, DaemonSetAssumption, FS_CardinalityType DEF Line, Writers

(* A piece appended adds its own weight.                                       *)
LEMMA BytesAppend ==
    ASSUME NEW s \in Seq(Int), NEW p \in Int
    PROVE  /\ Bytes(s) \in Nat /\ Weight(p) \in Nat
           /\ Append(s, p) \in Seq(Int) /\ Append(s, p) # << >>
           /\ Bytes(Append(s, p)) = Bytes(s) + Weight(p)
  <1> DEFINE n == Len(s)
             f == [i \in DOMAIN s |-> Weight(s[i])]
             t == Append(s, p)
             g == [i \in DOMAIN t |-> Weight(t[i])]
  <1>1. \A q \in Int : Weight(q) \in Nat
    BY Numbers DEF Weight
  <1>2. /\ n \in Nat /\ DOMAIN s = 1 .. n /\ DOMAIN t = 1 .. (n + 1) /\ t \in Seq(Int) /\ t # << >>
        /\ t[n + 1] = p /\ \A i \in 1 .. n : t[i] = s[i] /\ s[i] \in Int
    OBVIOUS
  <1> HIDE DEF n
  <1>3. 1 .. (n + 1) = (1 .. n) \cup {n + 1} /\ n + 1 \notin 1 .. n
    BY <1>2
  <1>4. IsFiniteSet(1 .. n)
    BY <1>2, FS_Interval
  <1> HIDE DEF t
  <1>5. DOMAIN f = 1 .. n /\ DOMAIN g = 1 .. (n + 1) /\ g[n + 1] = Weight(p)
    BY <1>2
  <1>6. \A i \in 1 .. n : g[i] = f[i] /\ f[i] \in Nat /\ f[i] \in Int
    <2> SUFFICES ASSUME NEW i \in 1 .. n PROVE g[i] = f[i] /\ f[i] \in Nat /\ f[i] \in Int
      OBVIOUS
    <2>1. i \in DOMAIN s /\ i \in DOMAIN t /\ t[i] = s[i] /\ s[i] \in Int
      BY <1>2
    <2>2. g[i] = Weight(t[i]) /\ f[i] = Weight(s[i])
      BY <2>1
    <2>3. Weight(s[i]) \in Nat
      BY <1>1, <2>1
    <2>4. QED
      BY <2>1, <2>2, <2>3
  <1>7. Weight(p) \in Nat
    BY <1>1
  <1>8. Bytes(s) = SumFunctionOnSet(f, 1 .. n) /\ Bytes(t) = SumFunctionOnSet(g, 1 .. (n + 1))
    BY <1>5 DEF Bytes, SumFunction
  <1> HIDE DEF f, g
  <1>9. \A i \in (1 .. n) \cup {n + 1} : g[i] \in Int
    BY <1>5, <1>6, <1>7
  <1>10. SumFunctionOnSet(g, (1 .. n) \cup {n + 1}) = g[n + 1] + SumFunctionOnSet(g, 1 .. n)
    BY <1>3, <1>4, <1>9, SumAdd
  <1>11. SumFunctionOnSet(g, 1 .. n) = SumFunctionOnSet(f, 1 .. n)
    <2>1. \A i \in 1 .. n : g[i] = f[i] /\ g[i] \in Int
      BY <1>6
    <2>2. QED
      BY <1>4, <2>1, SumSame
  <1>12. SumFunctionOnSet(f, 1 .. n) \in Nat
    BY <1>4, <1>6, SumNat
  <1>13. Bytes(t) = Bytes(s) + Weight(p)
    <2>1. Bytes(t) = Weight(p) + SumFunctionOnSet(f, 1 .. n)
      BY <1>3, <1>5, <1>8, <1>10, <1>11
    <2>2. QED
      BY <1>8, <1>12, <1>7, <2>1
  <1>14. QED
    BY <1>2, <1>8, <1>12, <1>7, <1>13 DEF t

(* An empty file is empty.                                                     *)
LEMMA BytesNone == Bytes(<< >>) = 0
  <1>1. DOMAIN << >> = {}
    OBVIOUS
  <1>2. QED
    BY <1>1, SumEmpty DEF Bytes, SumFunction

(* A file that has a name is one of those there have been.                     *)
LEMMA SizeIsNat ==
    ASSUME LogTypes, NEW f \in {live, old} \ {None}
    PROVE  f \in Files /\ Size(f) \in Nat
  <1>1. f \in Files /\ f # None /\ data[f] \in Seq(Int) /\ 0 \in Int
    BY DEF LogTypes
  <1>2. QED
    BY <1>1, BytesAppend DEF Size

(* No daemon owes more than one line.                                          *)
LEMMA DebtFacts ==
    ASSUME LogTypes, NEW f
    PROVE  /\ \A d \in Daemons : Owed(d, f) \in Nat /\ Owed(d, f) <= Line
           /\ Debt(f) \in Nat /\ Debt(f) <= Writers * Line
  <1> DEFINE g == [d \in Daemons |-> Owed(d, f)]
  <1>1. \A d \in Daemons : Owed(d, f) \in Nat /\ Owed(d, f) <= Line
    BY Numbers DEF Owed
  <1>2. \A d \in Daemons : g[d] \in Nat /\ g[d] <= Line
    BY <1>1
  <1>3. Debt(f) = SumFunctionOnSet(g, Daemons)
    BY DEF Debt, SumFunction
  <1> HIDE DEF g
  <1>4. QED
    BY <1>1, <1>2, <1>3, Numbers, SumNat, SumBound DEF Writers

LEMMA DebtLater ==
    ASSUME NEW CONSTANT f
    PROVE  (LogTypes => Debt(f) \in Nat /\ Debt(f) <= Writers * Line)'
  <1>1. LogTypes => Debt(f) \in Nat /\ Debt(f) <= Writers * Line
    BY DebtFacts
  <1>2. QED
    BY <1>1, PTL

(* When one daemon moves, the debt changes by its own.                         *)
LEMMA DebtChange ==
    ASSUME LogTypes, LogTypes', NEW CONSTANT f, NEW CONSTANT d \in Daemons,
           \A e \in Daemons \ {d} : Owed(e, f)' = Owed(e, f)
    PROVE  Debt(f)' = Debt(f) - Owed(d, f) + Owed(d, f)'
  <1> DEFINE g == [e \in Daemons |-> Owed(e, f)]
             h == [e \in Daemons |-> Owed(e, f)']
  <1>1. \A e \in Daemons : Owed(e, f) \in Nat /\ Owed(e, f)' \in Nat
    BY Numbers DEF Owed
  <1>2. Debt(f) = SumFunctionOnSet(g, Daemons) /\ Debt(f)' = SumFunctionOnSet(h, Daemons)
    BY DEF Debt, SumFunction
  <1>3. /\ \A e \in Daemons : g[e] \in Int /\ h[e] \in Int
        /\ \A e \in Daemons \ {d} : g[e] = h[e]
        /\ g[d] = Owed(d, f) /\ h[d] = Owed(d, f)'
    BY <1>1
  <1> HIDE DEF g, h
  <1>4. SumFunctionOnSet(h, Daemons) = SumFunctionOnSet(g, Daemons) - g[d] + h[d]
    BY <1>3, Numbers, SumChange
  <1>5. QED
    BY <1>2, <1>3, <1>4

(* And when what is owed only shrinks, so does the debt.                       *)
LEMMA DebtShrinks ==
    ASSUME LogTypes, LogTypes', NEW CONSTANT f,
           \A e \in Daemons : Owed(e, f)' <= Owed(e, f)
    PROVE  Debt(f)' <= Debt(f)
  <1> DEFINE g == [e \in Daemons |-> Owed(e, f)]
             h == [e \in Daemons |-> Owed(e, f)']
  <1>1. \A e \in Daemons : Owed(e, f) \in Nat /\ Owed(e, f)' \in Nat
    BY Numbers DEF Owed
  <1>2. Debt(f) = SumFunctionOnSet(g, Daemons) /\ Debt(f)' = SumFunctionOnSet(h, Daemons)
    BY DEF Debt, SumFunction
  <1>3. \A e \in Daemons : g[e] \in Nat /\ h[e] \in Nat /\ h[e] <= g[e]
    BY <1>1
  <1> HIDE DEF g, h
  <1>4. QED
    BY <1>2, <1>3, Numbers, SumLe

LEMMA NatTimes == \A a, b \in Nat : a * b \in Nat
  OBVIOUS

(* A file within the cap is within the limit, whoever writes to it next.       *)
LEMMA LimitFacts ==
    ASSUME LogTypes
    PROVE  /\ Limit \in Int /\ Cap + Writers * Line <= Limit
           /\ (kept' = kept => Limit' = Limit)
           /\ (kept' = kept + 1 => Limit' = Limit + Line)
  <1>1. Writers \in Nat /\ kept \in Nat /\ Line \in Nat /\ Cap \in Nat
    BY Numbers DEF LogTypes
  <1>2. (Writers + kept) * Line = Writers * Line + kept * Line
    BY <1>1, Distribute
  <1>3. Writers * Line \in Nat /\ kept * Line \in Nat
    BY <1>1, NatTimes
  <1>4. (Writers + (kept + 1)) * Line = (Writers + kept) * Line + 1 * Line
    <2>1. Writers + (kept + 1) = (Writers + kept) + 1 /\ Writers + kept \in Int
      BY <1>1
    <2>2. QED
      BY <1>1, <2>1, Distribute
  <1>5. Line' = Line /\ Writers' = Writers
    BY DEF Line, Writers
  <1>6. QED
    BY <1>1, <1>2, <1>3, <1>4, <1>5 DEF Limit

(* Files, and daemons yet to open one, can be counted.                         *)
LEMMA FilesAreFinite ==
    /\ IsFiniteSet(Files) /\ Cardinality(Files) = MaxRecords
    /\ IsFiniteSet(Used) /\ Cardinality(Used) \in Nat
    /\ IsFiniteSet(Unopened) /\ Cardinality(Unopened) \in Nat
  <1>1. IsFiniteSet(Files) /\ Cardinality(Files) = MaxRecords
    BY Numbers, FS_Interval DEF Files
  <1>2. Used \in SUBSET Files /\ Unopened \in SUBSET Daemons
    BY DEF Used, Unopened
  <1>3. QED
    BY <1>1, <1>2, Numbers, FS_Subset, FS_CardinalityType

(* There is a file left for a daemon that makes one.                           *)
LEMMA NewFileFacts ==
    ASSUME LogTypes, FilesInv, NEW d \in Daemons, pc[d] = "open", live = None
    PROVE  /\ NewFile \in Files /\ NewFile # old /\ data[NewFile] = << >>
           /\ \A e \in Daemons : pc[e] \in {"text", "newline"} => file[e] # NewFile
  <1>1. d \in Unopened
    BY DEF Unopened
  <1>2. Cardinality(Unopened) # 0
    BY <1>1, FilesAreFinite, FS_EmptySet
  <1>3. Cardinality(Used) < MaxRecords
    BY <1>2, FilesAreFinite, Numbers DEF FilesInv, LogTypes
  <1>4. PICK f \in Files : f \notin Used
    <2>1. Used \subseteq Files
      BY DEF Used
    <2>2. Used # Files
      BY <1>3, FilesAreFinite, Numbers
    <2>3. QED
      BY <2>1, <2>2
  <1>5. \E g \in Files : /\ g # live /\ g # old /\ data[g] = << >>
                         /\ \A e \in Daemons : pc[e] \in {"text", "newline"} => file[e] # g
    BY <1>4 DEF Used
  <1>6. QED
    BY <1>5 DEF NewFile

(* A daemon that takes no new file leaves room for all the others.             *)
LEMMA FewerFiles ==
    ASSUME LogTypes, LogTypes', FilesInv, Used' \subseteq Used, Unopened' \subseteq Unopened,
           records' = records
    PROVE  FilesInv'
  <1>1. /\ Cardinality(Used') <= Cardinality(Used) /\ Cardinality(Used') \in Nat
        /\ Cardinality(Unopened') <= Cardinality(Unopened) /\ Cardinality(Unopened') \in Nat
    BY FilesAreFinite, FS_Subset, FS_CardinalityType
  <1>2. Cardinality(Used) \in Nat /\ Cardinality(Unopened) \in Nat /\ records \in Nat
    BY FilesAreFinite DEF LogTypes
  <1>3. QED
    BY <1>1, <1>2 DEF FilesInv

LEMMA LogInitially == JournalInit => LogInv
  <1> SUFFICES ASSUME JournalInit PROVE LogInv
    OBVIOUS
  <1>1. LogTypes
    BY Numbers DEF JournalInit, LogTypes, Labels
  <1>2. Used = {} /\ Unopened = {}
    BY Numbers DEF JournalInit, Used, Unopened
  <1>3. FilesInv
    BY <1>2, FS_EmptySet DEF JournalInit, FilesInv
  <1>4. DebtInv
    BY DEF JournalInit, DebtInv
  <1>5. QED
    BY <1>1, <1>3, <1>4 DEF LogInv

(* A daemon that begins uses up a record, and owes nothing yet.                *)
LEMMA BeginKeeps ==
    ASSUME LogInv, NEW d \in Daemons, Begin(d)
    PROVE  LogInv'
  <1>2. /\ pc' = [pc EXCEPT ![d] = "check"] /\ pc[d] = "idle" /\ file' = file
        /\ UNCHANGED <<data, live, old, kept>> /\ records' = records + 1
        /\ records < MaxRecords /\ rec' = [rec EXCEPT ![d] = records + 1]
    BY DEF Begin, GoTo, disk
  <1>1. LogTypes'
    BY <1>2, Numbers DEF LogInv, LogTypes, Labels
  <1>3. FilesInv'
    <2>1. Used' = Used /\ Unopened' = Unopened \cup {d} /\ d \notin Unopened
      BY <1>2 DEF Used, Unopened, LogInv, LogTypes
    <2>2. Cardinality(Unopened') = Cardinality(Unopened) + 1
      BY <2>1, FilesAreFinite, FS_AddElement
    <2>3. QED
      BY <1>2, <2>1, <2>2, FilesAreFinite DEF FilesInv, LogInv, LogTypes
  <1>4. DebtInv'
    <2> SUFFICES ASSUME Cap > 0, NEW f \in {live, old} \ {None}
                 PROVE  Size(f)' + Debt(f)' < Limit'
      BY <1>2 DEF DebtInv
    <2>1. \A e \in Daemons : Owed(e, f)' = Owed(e, f)
      BY <1>2 DEF Owed, LogInv, LogTypes
    <2>2. Debt(f)' = Debt(f)
      BY <2>1 DEF Debt
    <2>3. Size(f)' = Size(f) /\ Limit' = Limit
      BY <1>2, LimitFacts DEF Size, LogInv
    <2>4. QED
      BY <2>2, <2>3 DEF LogInv, DebtInv
  <1>5. QED
    BY <1>1, <1>3, <1>4 DEF LogInv

(* A file found under the cap can take a line of every daemon.                 *)
LEMMA CheckSizeKeeps ==
    ASSUME LogInv, NEW d \in Daemons, CheckSize(d)
    PROVE  LogInv'
  <1>1. /\ pc[d] = "check" /\ pc' = [pc EXCEPT ![d] = pc'[d]] /\ pc'[d] \in {"rotate", "open"}
        /\ (Cap > 0 /\ Size(live) >= Cap => pc'[d] = "rotate")
        /\ UNCHANGED <<data, live, old, rec, file, records, kept>>
    BY DEF CheckSize, GoTo, disk, LogInv, LogTypes
  <1>2. LogTypes'
    BY <1>1 DEF LogInv, LogTypes, Labels
  <1>3. FilesInv'
    <2>1. Used' \subseteq Used /\ Unopened' \subseteq Unopened /\ records' = records
      BY <1>1 DEF Used, Unopened, LogInv, LogTypes
    <2>2. QED
      BY <1>2, <2>1, FewerFiles DEF LogInv
  <1>4. DebtInv'
    <2> SUFFICES ASSUME Cap > 0, NEW f \in {live, old} \ {None}
                 PROVE  Size(f)' + Debt(f)' < Limit'
      BY <1>1 DEF DebtInv
    <2>1. Size(f)' = Size(f) /\ Limit' = Limit
      BY <1>1, LimitFacts DEF Size, LogInv
    <2>2. CASE f # live \/ pc'[d] = "rotate"
      <3>1. \A e \in Daemons : Owed(e, f)' = Owed(e, f)
        BY <1>1, <2>2 DEF Owed, LogInv, LogTypes
      <3>2. Debt(f)' = Debt(f)
        BY <3>1 DEF Debt
      <3>3. QED
        BY <2>1, <3>2 DEF LogInv, DebtInv
    <2>3. CASE f = live /\ pc'[d] # "rotate"
      <3>1. Size(f) < Cap /\ Size(f) \in Nat
        <4>1. ~(Size(live) >= Cap)
          BY <1>1, <2>3
        <4>2. Size(f) \in Nat
          BY SizeIsNat DEF LogInv
        <4>3. QED
          BY <2>3, <4>1, <4>2, Numbers
      <3>2. Debt(f)' \in Nat /\ Debt(f)' <= Writers' * Line' /\ Writers' = Writers /\ Line' = Line
        <4>1. LogTypes' => Debt(f)' \in Nat /\ Debt(f)' <= Writers' * Line'
          BY DebtLater
        <4>2. QED
          BY <1>2, <4>1 DEF Writers, Line
      <3>3. Cap + Writers * Line <= Limit /\ Limit \in Int /\ Writers * Line \in Nat
        BY LimitFacts, NatTimes, Numbers DEF LogInv
      <3>4. QED
        BY <2>1, <3>1, <3>2, <3>3, Numbers
    <2>4. QED
      BY <1>1, <2>2, <2>3 DEF LogInv, LogTypes, Labels
  <1>5. QED
    BY <1>2, <1>3, <1>4 DEF LogInv

(* The file renamed is owed nothing any more by those who have yet to open.     *)
LEMMA RotateKeeps ==
    ASSUME LogInv, NEW d \in Daemons, Rotate(d)
    PROVE  LogInv'
  <1>1. /\ pc[d] = "rotate" /\ pc' = [pc EXCEPT ![d] = "open"]
        /\ live' = None /\ old' \in {live, old} /\ (live # None => old' = live)
        /\ (live = None => old' = old)
        /\ UNCHANGED <<data, rec, file, records, kept>>
    BY DEF Rotate, GoTo, disk
  <1>2. LogTypes'
    BY <1>1 DEF LogInv, LogTypes, Labels
  <1>3. FilesInv'
    <2>1. Used' \subseteq Used /\ Unopened' \subseteq Unopened /\ records' = records
      BY <1>1, Numbers DEF Used, Unopened, LogInv, LogTypes
    <2>2. QED
      BY <1>2, <2>1, FewerFiles DEF LogInv
  <1>4. DebtInv'
    <2> SUFFICES ASSUME Cap > 0, NEW f \in {live, old} \ {None}, f \in {live', old'}
                 PROVE  Size(f)' + Debt(f)' < Limit'
      BY <1>1 DEF DebtInv
    <2>1. Size(f)' = Size(f) /\ Limit' = Limit
      BY <1>1, LimitFacts DEF Size, LogInv
    <2>2. \A e \in Daemons : Owed(e, f)' <= Owed(e, f)
      BY <1>1, Numbers DEF Owed, LogInv, LogTypes
    <2>3. Debt(f)' <= Debt(f) /\ Debt(f) \in Nat
      BY <1>2, <2>2, DebtShrinks, DebtFacts DEF LogInv
    <2>4. Debt(f)' \in Nat
      BY <1>2, DebtLater
    <2>5. Size(f) + Debt(f) < Limit /\ Limit \in Int
      BY LimitFacts DEF LogInv, DebtInv
    <2>6. Size(f) \in Nat
      BY SizeIsNat DEF LogInv
    <2>7. QED
      BY <2>1, <2>3, <2>4, <2>5, <2>6
  <1>5. QED
    BY <1>2, <1>3, <1>4 DEF LogInv

(* A full file that keeps its name may grow by the record on its way.          *)
LEMMA RotateFailsKeeps ==
    ASSUME LogInv, NEW d \in Daemons, RotateFails(d)
    PROVE  LogInv'
  <1>1. /\ pc[d] = "rotate" /\ pc' = [pc EXCEPT ![d] = "open"] /\ kept' = kept + 1
        /\ UNCHANGED <<data, live, old, rec, file, records>>
    BY DEF RotateFails, GoTo, disk
  <1>2. LogTypes'
    BY <1>1 DEF LogInv, LogTypes, Labels
  <1>3. FilesInv'
    <2>1. Used' \subseteq Used /\ Unopened' \subseteq Unopened /\ records' = records
      BY <1>1 DEF Used, Unopened, LogInv, LogTypes
    <2>2. QED
      BY <1>2, <2>1, FewerFiles DEF LogInv
  <1>4. DebtInv'
    <2> SUFFICES ASSUME Cap > 0, NEW f \in {live, old} \ {None}
                 PROVE  Size(f)' + Debt(f)' < Limit'
      BY <1>1 DEF DebtInv
    <2>1. Size(f)' = Size(f) /\ Limit' = Limit + Line
      BY <1>1, LimitFacts DEF Size, LogInv
    <2>2. /\ \A e \in Daemons \ {d} : Owed(e, f)' = Owed(e, f)
          /\ Owed(d, f) = 0 /\ Owed(d, f)' \in Nat /\ Owed(d, f)' <= Line
      BY <1>1, Numbers DEF Owed, LogInv, LogTypes, Line
    <2>3. Debt(f)' = Debt(f) - Owed(d, f) + Owed(d, f)'
      BY <1>2, <2>2, DebtChange DEF LogInv
    <2>4. Size(f) + Debt(f) < Limit /\ Limit \in Int /\ Debt(f) \in Nat /\ Size(f) \in Nat
      BY LimitFacts, DebtFacts, SizeIsNat DEF LogInv, DebtInv
    <2>5. QED
      BY <2>1, <2>2, <2>3, <2>4, Numbers
  <1>5. QED
    BY <1>2, <1>3, <1>4 DEF LogInv

(* Opening makes at most one file, which is empty; what was owed to the live   *)
(* file is owed to the one opened.                                             *)
LEMMA OpenKeeps ==
    ASSUME LogInv, NEW d \in Daemons, Open(d)
    PROVE  LogInv'
  <1>1. /\ pc[d] = "open" /\ pc' = [pc EXCEPT ![d] = "text"]
        /\ live' = (IF live = None THEN NewFile ELSE live)
        /\ file' = [file EXCEPT ![d] = live']
        /\ UNCHANGED <<data, old, rec, records, kept>>
    BY DEF Open, GoTo
  <1>2. live = None => /\ live' \in Files /\ live' # old /\ data[live'] = << >>
                       /\ \A e \in Daemons : pc[e] \in {"text", "newline"} => file[e] # live'
    BY <1>1, NewFileFacts DEF LogInv
  <1>3. live' \in Files /\ live' # None
    BY <1>1, <1>2, Numbers DEF LogInv, LogTypes
  <1>4. LogTypes'
    BY <1>1, <1>3 DEF LogInv, LogTypes, Labels
  <1>5. FilesInv'
    <2>1. Used' \subseteq Used \cup {live'} /\ Unopened' = Unopened \ {d} /\ d \in Unopened
      BY <1>1 DEF Used, Unopened, LogInv, LogTypes
    <2>2. /\ IsFiniteSet(Used \cup {live'})
          /\ Cardinality(Used \cup {live'}) <= Cardinality(Used) + 1
          /\ Cardinality(Used \cup {live'}) \in Nat
      <3>1. /\ IsFiniteSet(Used \cup {live'})
            /\ Cardinality(Used \cup {live'}) =
                 IF live' \in Used THEN Cardinality(Used) ELSE Cardinality(Used) + 1
        BY FilesAreFinite, FS_AddElement
      <3>2. QED
        BY <3>1, FilesAreFinite
    <2>3. Cardinality(Used') <= Cardinality(Used \cup {live'}) /\ Cardinality(Used') \in Nat
      BY <2>1, <2>2, FS_Subset, FS_CardinalityType
    <2>4. Cardinality(Unopened') = Cardinality(Unopened) - 1
      BY <2>1, FilesAreFinite, FS_RemoveElement
    <2>5. QED
      BY <1>1, <2>2, <2>3, <2>4, FilesAreFinite DEF FilesInv, LogInv, LogTypes
  <1>6. DebtInv'
    <2> SUFFICES ASSUME Cap > 0, NEW f \in {live', old} \ {None}
                 PROVE  Size(f)' + Debt(f)' < Limit'
      BY <1>1 DEF DebtInv
    <2>1. Size(f)' = Size(f) /\ Limit' = Limit
      BY <1>1, LimitFacts DEF Size, LogInv
    <2>2. CASE f # live' \/ live # None
      <3>1. \A e \in Daemons : Owed(e, f)' = Owed(e, f)
        BY <1>1, <1>2, <1>3, <2>2 DEF Owed, LogInv, LogTypes
      <3>2. Debt(f)' = Debt(f)
        BY <3>1 DEF Debt
      <3>3. f \in {live, old} \ {None}
        BY <1>1, <2>2
      <3>4. QED
        BY <2>1, <3>2, <3>3 DEF LogInv, DebtInv
    <2>3. CASE f = live' /\ live = None
      <3>1. Size(f) = 0
        BY <1>2, <2>3, BytesNone DEF Size
      <3>2. Debt(f)' \in Nat /\ Debt(f)' <= Writers * Line
        BY <1>4, DebtLater DEF Writers, Line
      <3>3. Cap + Writers * Line <= Limit /\ Limit \in Int /\ Writers * Line \in Nat
        BY LimitFacts, NatTimes, Numbers DEF LogInv
      <3>4. QED
        BY <2>1, <3>1, <3>2, <3>3, Numbers
    <2>4. QED
      BY <2>2, <2>3
  <1>7. QED
    BY <1>4, <1>5, <1>6 DEF LogInv

(* A daemon that writes pays what it writes out of what it owes.               *)
Writes(d, piece) ==
    /\ piece \in Int
    /\ pc[d] \in {"text", "newline"}
    /\ data' = [data EXCEPT ![file[d]] = Append(@, piece)]
    /\ pc' = [pc EXCEPT ![d] = pc'[d]]
    /\ \/ pc'[d] = "newline" /\ UNCHANGED <<rec, file>>
       \/ /\ pc'[d] = "idle" /\ rec' = [rec EXCEPT ![d] = 0]
          /\ file' = [file EXCEPT ![d] = None]
    /\ Weight(piece) + (IF pc'[d] = "newline" THEN 1 ELSE 0) <= (IF pc[d] = "text" THEN Line ELSE 1)
    /\ UNCHANGED <<live, old, records, kept>>

LEMMA WritesKeeps ==
    ASSUME LogInv, NEW CONSTANT d \in Daemons, NEW CONSTANT piece, Writes(d, piece)
    PROVE  LogInv'
  <1>1. /\ file[d] \in Files /\ file[d] # None /\ data[file[d]] \in Seq(Int) /\ piece \in Int
        /\ rec[d] \in Nat /\ rec[d] > 0
    BY Numbers DEF Writes, LogInv, LogTypes
  <1>2. /\ data'[file[d]] = Append(data[file[d]], piece) /\ data'[file[d]] \in Seq(Int)
        /\ data'[file[d]] # << >> /\ \A g \in Files \ {file[d]} : data'[g] = data[g]
        /\ data' \in [Files -> Seq(Int)]
    BY <1>1, BytesAppend DEF Writes, LogInv, LogTypes
  <1>3. LogTypes'
    <2>1. /\ data' \in [Files -> Seq(Int)] /\ live' \in Files \cup {None}
          /\ old' \in Files \cup {None} /\ records' \in 0 .. MaxRecords /\ kept' \in Nat
      BY <1>2 DEF Writes, LogInv, LogTypes
    <2>2. pc' \in [Daemons -> Labels]
      BY DEF Writes, LogInv, LogTypes, Labels
    <2>3. rec' \in [Daemons -> Nat] /\ file' \in [Daemons -> Files \cup {None}]
      <3>1. \/ rec' = rec /\ file' = file
            \/ rec' = [rec EXCEPT ![d] = 0] /\ file' = [file EXCEPT ![d] = None]
        BY DEF Writes
      <3>2. rec \in [Daemons -> Nat] /\ file \in [Daemons -> Files \cup {None}]
        BY DEF LogInv, LogTypes
      <3>3. QED
        BY <3>1, <3>2
    <2>4. \A e \in Daemons : /\ pc'[e] # "idle" => rec'[e] > 0
                             /\ pc'[e] \in {"text", "newline"} => file'[e] \in Files
      BY <1>1 DEF Writes, LogInv, LogTypes
    <2>5. QED
      BY <2>1, <2>2, <2>3, <2>4 DEF LogTypes
  <1>4. FilesInv'
    <2>1. \A g \in Files : g # file[d] => (g \in Used' => g \in Used)
      BY <1>2 DEF Writes, Used, LogInv, LogTypes
    <2>2. file[d] \in Used /\ Used' \subseteq Files
      BY <1>1 DEF Writes, Used
    <2>3. Unopened' \subseteq Unopened /\ records' = records
      BY DEF Writes, Unopened, LogInv, LogTypes
    <2>4. Used' \subseteq Used
      BY <2>1, <2>2
    <2>5. QED
      BY <1>3, <2>3, <2>4, FewerFiles DEF LogInv
  <1>5. DebtInv'
    <2> SUFFICES ASSUME Cap > 0, NEW f \in {live, old} \ {None}
                 PROVE  Size(f)' + Debt(f)' < Limit'
      BY DEF DebtInv, Writes
    <2>1. Limit' = Limit /\ Limit \in Int /\ Size(f) + Debt(f) < Limit
      BY LimitFacts DEF Writes, LogInv, DebtInv
    <2>2. /\ f \in Files /\ f # None /\ Size(f) \in Nat /\ Size(f) = Bytes(data[f])
          /\ Debt(f) \in Nat /\ Debt(f)' \in Nat
      BY <1>3, SizeIsNat, DebtFacts, DebtLater DEF LogInv, Size
    <2>3. Size(f)' = Bytes(data'[f])
      BY <2>2 DEF Size
    <2>4. CASE f # file[d]
      <3>1. Size(f)' = Size(f)
        BY <1>2, <2>2, <2>3, <2>4
      <3>2. \A e \in Daemons : Owed(e, f)' <= Owed(e, f)
        BY <2>4, Numbers DEF Owed, Writes, LogInv, LogTypes
      <3>3. Debt(f)' <= Debt(f)
        BY <1>3, <3>2, DebtShrinks DEF LogInv
      <3>4. QED
        BY <2>1, <2>2, <3>1, <3>3
    <2>5. CASE f = file[d]
      <3>1. Size(f)' = Size(f) + Weight(piece) /\ Weight(piece) \in Nat
        BY <1>1, <1>2, <2>2, <2>3, <2>5, BytesAppend
      <3>2. \A e \in Daemons \ {d} : Owed(e, f)' = Owed(e, f)
        BY DEF Owed, Writes, LogInv, LogTypes
      <3>3. Debt(f)' = Debt(f) - Owed(d, f) + Owed(d, f)'
        BY <1>3, <3>2, DebtChange DEF LogInv
      <3>4. Owed(d, f) \in Nat /\ Owed(d, f)' \in Nat /\ Weight(piece) + Owed(d, f)' <= Owed(d, f)
        BY <2>5, Numbers DEF Owed, Writes
      <3>5. QED
        BY <2>1, <2>2, <3>1, <3>3, <3>4
    <2>6. QED
      BY <2>4, <2>5
  <1>6. QED
    BY <1>3, <1>4, <1>5 DEF LogInv

(* A daemon that gives up without a word owes nothing any more.                *)
LEMMA LeavesKeeps ==
    ASSUME LogInv, NEW d \in Daemons, Idle(d), UNCHANGED <<data, live, old, records, kept>>
    PROVE  LogInv'
  <1>1. LogTypes'
    BY DEF Idle, LogInv, LogTypes, Labels
  <1>2. FilesInv'
    <2>1. Used' \subseteq Used /\ Unopened' \subseteq Unopened
      BY DEF Idle, Used, Unopened, LogInv, LogTypes
    <2>2. QED
      BY <1>1, <2>1, FewerFiles DEF LogInv
  <1>3. DebtInv'
    <2> SUFFICES ASSUME Cap > 0, NEW f \in {live, old} \ {None}
                 PROVE  Size(f)' + Debt(f)' < Limit'
      BY DEF DebtInv
    <2>1. Limit' = Limit /\ Limit \in Int /\ Size(f) + Debt(f) < Limit /\ Size(f)' = Size(f)
      BY LimitFacts DEF LogInv, DebtInv, Size
    <2>2. \A e \in Daemons : Owed(e, f)' <= Owed(e, f)
      BY Numbers DEF Owed, Idle, LogInv, LogTypes
    <2>3. Debt(f)' <= Debt(f) /\ Debt(f) \in Nat /\ Debt(f)' \in Nat /\ Size(f) \in Nat
      BY <1>1, <2>2, DebtShrinks, DebtFacts, DebtLater, SizeIsNat DEF LogInv
    <2>4. QED
      BY <2>1, <2>3
  <1>4. QED
    BY <1>1, <1>2, <1>3 DEF LogInv

LEMMA WriteTextKeeps ==
    ASSUME LogInv, NEW d \in Daemons, WriteText(d)
    PROVE  LogInv'
  <1>1. /\ pc[d] = "text" /\ pc'[d] = "newline" /\ rec[d] \in Nat /\ rec[d] > 0
        /\ pc' = [pc EXCEPT ![d] = "newline"] /\ UNCHANGED <<live, old, rec, file, records, kept>>
        /\ data' = [data EXCEPT ![file[d]] = Append(@, rec[d])]
    BY DEF WriteText, Write, GoTo, LogInv, LogTypes
  <1>2. Weight(rec[d]) = Text
    BY <1>1 DEF Weight, NL
  <1>3. Writes(d, rec[d])
    BY <1>1, <1>2, Numbers DEF Writes
  <1>4. QED
    BY <1>3, WritesKeeps

LEMMA WriteNewlineKeeps ==
    ASSUME LogInv, NEW d \in Daemons, WriteNewline(d)
    PROVE  LogInv'
  <1>1. /\ pc[d] = "newline" /\ pc'[d] = "idle"
        /\ pc' = [pc EXCEPT ![d] = "idle"] /\ rec' = [rec EXCEPT ![d] = 0]
        /\ file' = [file EXCEPT ![d] = None] /\ UNCHANGED <<live, old, records, kept>>
        /\ data' = [data EXCEPT ![file[d]] = Append(@, NL)]
    BY DEF WriteNewline, Write, Idle, LogInv, LogTypes
  <1>2. Weight(NL) = 1
    BY DEF Weight
  <1>3. Writes(d, NL)
    BY <1>1, <1>2 DEF Writes, NL
  <1>4. QED
    BY <1>3, WritesKeeps

LEMMA StopAppendingKeeps ==
    ASSUME LogInv, NEW d \in Daemons, StopAppending(d)
    PROVE  LogInv'
  <1>1. Idle(d) /\ UNCHANGED <<live, old, records, kept>>
    BY DEF StopAppending
  <1>2. CASE data' = data
    BY <1>1, <1>2, LeavesKeeps
  <1>3. CASE data' # data
    <2>1. pc[d] = "text" /\ \E piece \in {-rec[d], CUT} : Write(d, piece)
      BY <1>3 DEF StopAppending
    <2>2. PICK piece \in {-rec[d], CUT} : Write(d, piece)
      BY <2>1
    <2>3. rec[d] \in Nat /\ rec[d] > 0
      BY <2>1 DEF LogInv, LogTypes
    <2>4. piece \in Int /\ piece < 0
      BY <2>3, Numbers DEF CUT
    <2>5. pc'[d] = "idle" /\ pc' = [pc EXCEPT ![d] = "idle"]
      BY <1>1 DEF Idle, LogInv, LogTypes
    <2>6. Weight(piece) = Half
      BY <2>4 DEF Weight, NL
    <2>7. Writes(d, piece)
      <3>1. /\ data' = [data EXCEPT ![file[d]] = Append(@, piece)]
            /\ rec' = [rec EXCEPT ![d] = 0] /\ file' = [file EXCEPT ![d] = None]
        BY <1>1, <2>2 DEF Write, Idle
      <3>2. Weight(piece) + 0 <= Line
        BY <2>6, Numbers
      <3>3. pc' = [pc EXCEPT ![d] = pc'[d]]
        BY <2>5
      <3>4. QED
        BY <1>1, <2>1, <2>4, <2>5, <3>1, <3>2, <3>3 DEF Writes
    <2>8. QED
      BY <2>7, WritesKeeps
  <1>4. QED
    BY <1>2, <1>3

(* Nothing else a daemon does touches the log.                                 *)
LEMMA LogInductive == LogInv /\ [Next]_vars => LogInv'
<1> SUFFICES ASSUME LogInv, [Next]_vars PROVE LogInv'
  OBVIOUS
<1>1. ASSUME UNCHANGED logVars PROVE LogInv'
  BY <1>1 DEF logVars, LogInv, LogTypes, FilesInv, Used, Unopened, DebtInv, Size, Debt, Owed, Limit,
              Line, Writers
<1>2. CASE UNCHANGED vars
  BY <1>1, <1>2 DEF vars
<1>3. ASSUME NEW d \in Daemons, StartUp(d) \/ Export(d) PROVE LogInv'
  BY <1>1, <1>3 DEF StartUp, Export
<1>4. ASSUME NEW d \in Daemons, Record(d) PROVE LogInv'
  <2>1. AppendFails(d) => StopAppending(d)
    BY DEF AppendFails
  <2>2. QED
    BY <1>4, <2>1, BeginKeeps, CheckSizeKeeps, RotateKeeps, RotateFailsKeeps, OpenKeeps,
       WriteTextKeeps, WriteNewlineKeeps, StopAppendingKeeps DEF Record, AppendLine
<1>5. ASSUME NEW d \in Daemons, Die(d) PROVE LogInv'
  <2>1. UNCHANGED logVars \/ StopAppending(d)
    BY <1>5 DEF Die
  <2>2. QED
    BY <1>1, <2>1, StopAppendingKeeps
<1>6. QED
  BY <1>2, <1>3, <1>4, <1>5 DEF Next

-----------------------------------------------------------------------------
(* What half a line spoils.  While daemons do not meet, a record reported      *)
(* written has its newline, so what makes it unreadable is the piece before    *)
(* it: one that no newline follows and that nobody is about to end.            *)
Ends(f, i) == IF i < Len(data[f]) THEN data[f][i + 1] = NL
              ELSE \E d \in Daemons : pc[d] = "newline" /\ file[d] = f
Broken == {p \in Files \X Nat : /\ p[2] \in 1 .. Len(data[p[1]])
                                /\ data[p[1]][p[2]] # NL /\ ~Ends(p[1], p[2])}

Sole == \A d, e \in Daemons : pc[d] # "idle" /\ pc[e] # "idle" => d = e
Unacked == /\ acked \subseteq 1 .. records
           /\ \A d \in Daemons : pc[d] # "idle" => rec[d] \in (1 .. records) \ acked
Known == \A f \in Files : \A i \in 1 .. Len(data[f]) :
            /\ data[f][i] <= records
            /\ data[f][i] \in acked => i < Len(data[f]) /\ data[f][i + 1] = NL
            /\ \A d \in Daemons : pc[d] # "idle" /\ data[f][i] = rec[d] =>
                                     pc[d] = "newline" /\ f = file[d] /\ i = Len(data[f])
AtEnd == \A d \in Daemons : pc[d] = "newline" =>
            Len(data[file[d]]) > 0 /\ data[file[d]][Len(data[file[d]])] = rec[d]
Spoiled == IsFiniteSet(Broken) /\ Cardinality(Broken) <= torn

TornInv == /\ torn \in Nat
           /\ crossed = 0 => Sole /\ Unacked /\ Known /\ AtEnd /\ Spoiled

LEMMA TornInitially == JournalInit => TornInv
  <1> SUFFICES ASSUME JournalInit PROVE TornInv
    OBVIOUS
  <1>1. torn = 0 /\ acked = {} /\ \A d \in Daemons : pc[d] = "idle"
    BY DEF JournalInit
  <1>2. \A f \in Files : Len(data[f]) = 0
    BY DEF JournalInit
  <1>3. Broken = {}
    BY <1>2 DEF Broken
  <1>4. Spoiled
    BY <1>1, <1>3, FS_EmptySet DEF Spoiled
  <1>5. QED
    BY <1>1, <1>2, <1>4 DEF TornInv, Sole, Unacked, Known, AtEnd

(* A sequence with a piece more.                                               *)
LEMMA PieceAppend ==
    ASSUME NEW q \in Seq(Int), NEW p \in Int
    PROVE  /\ Len(q) \in Nat /\ Len(Append(q, p)) = Len(q) + 1
           /\ Append(q, p)[Len(q) + 1] = p
           /\ \A i \in 1 .. Len(q) : Append(q, p)[i] = q[i] /\ q[i] \in Int
  OBVIOUS

(* A daemon that begins where none is at work takes a number never used.       *)
LEMMA BeginSpoilsNothing ==
    ASSUME LogInv, TornInv, NEW d \in Daemons, Begin(d)
    PROVE  TornInv'
  <1> SUFFICES ASSUME crossed' = 0
               PROVE  Sole' /\ Unacked' /\ Known' /\ AtEnd' /\ Spoiled'
    BY DEF TornInv, Begin
  <1>1. /\ pc[d] = "idle" /\ pc' = [pc EXCEPT ![d] = "check"] /\ records' = records + 1
        /\ rec' = [rec EXCEPT ![d] = records + 1]
        /\ UNCHANGED <<data, file, acked, torn>>
    BY DEF Begin, GoTo, disk
  <1>2. (\A e \in Daemons : pc[e] = "idle") /\ crossed = 0
    <2> DEFINE Another == \E e \in Daemons : pc[e] # "idle"
    <2>1. crossed' = IF Another THEN 1 ELSE crossed
      BY DEF Begin
    <2>2. ~Another /\ crossed = 0
      <3> HIDE DEF Another
      <3> QED
        BY <2>1
    <2>3. QED
      BY <2>2
  <1>3. Sole /\ Unacked /\ Known /\ AtEnd /\ Spoiled
    BY <1>2 DEF TornInv
  <1>4. records \in Nat /\ \A f \in Files : data[f] \in Seq(Int)
    BY DEF LogInv, LogTypes
  <1>5. Sole' /\ AtEnd'
    BY <1>1, <1>2 DEF Sole, AtEnd, LogInv, LogTypes
  <1>6. Unacked'
    BY <1>1, <1>2, <1>3, <1>4 DEF Unacked, LogInv, LogTypes
  <1>7. Known'
    <2> SUFFICES ASSUME NEW f \in Files, NEW i \in 1 .. Len(data[f])
                 PROVE  /\ data[f][i] <= records + 1
                        /\ data[f][i] \in acked => i < Len(data[f]) /\ data[f][i + 1] = NL
                        /\ \A e \in Daemons : pc'[e] # "idle" => data[f][i] # rec'[e]
      BY <1>1 DEF Known
    <2>1. data[f][i] <= records /\ data[f][i] \in Int
      BY <1>3, <1>4 DEF Known
    <2>2. data[f][i] \in acked => i < Len(data[f]) /\ data[f][i + 1] = NL
      BY <1>3 DEF Known
    <2>3. \A e \in Daemons : pc'[e] # "idle" => rec'[e] = records + 1
      BY <1>1, <1>2 DEF LogInv, LogTypes
    <2>4. QED
      BY <1>4, <2>1, <2>2, <2>3
  <1>8. Spoiled'
    <2>1. Broken' = Broken
      BY <1>1, <1>2 DEF Broken, Ends, LogInv, LogTypes
    <2>2. QED
      BY <1>1, <1>3, <2>1 DEF Spoiled
  <1>9. QED
    BY <1>5, <1>6, <1>7, <1>8

(* Neither does one that has not begun to write.                               *)
Quiet(d) ==
    /\ pc[d] \notin {"idle", "newline"} /\ pc'[d] # "newline"
    /\ pc' = [pc EXCEPT ![d] = pc'[d]]
    /\ file' = [file EXCEPT ![d] = file'[d]]
    /\ rec' = rec \/ (pc'[d] = "idle" /\ rec' = [rec EXCEPT ![d] = 0])
    /\ UNCHANGED <<data, records, acked, torn, crossed>>

LEMMA QuietSpoilsNothing ==
    ASSUME LogInv, TornInv, NEW d \in Daemons, Quiet(d)
    PROVE  TornInv'
  <1> SUFFICES ASSUME crossed = 0
               PROVE  Sole' /\ Unacked' /\ Known' /\ AtEnd' /\ Spoiled'
    BY DEF TornInv, Quiet
  <1>1. Sole /\ Unacked /\ Known /\ AtEnd /\ Spoiled
    BY DEF TornInv
  <1>2. /\ \A e \in Daemons : e # d => pc'[e] = pc[e] /\ rec'[e] = rec[e] /\ file'[e] = file[e]
        /\ pc'[d] # "idle" => rec'[d] = rec[d]
        /\ UNCHANGED <<data, records, acked, torn>>
    BY DEF Quiet, LogInv, LogTypes
  <1>3. Sole' /\ Unacked' /\ AtEnd'
    BY <1>1, <1>2 DEF Quiet, Sole, Unacked, AtEnd
  <1>4. Known'
    BY <1>1, <1>2 DEF Quiet, Known
  <1>5. Spoiled'
    <2>1. \A f, i : Ends(f, i)' = Ends(f, i)
      BY <1>2 DEF Quiet, Ends
    <2>2. Broken' = Broken
      BY <1>2, <2>1 DEF Broken
    <2>3. QED
      BY <1>1, <1>2, <2>2 DEF Spoiled
  <1>6. QED
    BY <1>3, <1>4, <1>5

(* A piece more at the end of one file.                                        *)
LEMMA OnePieceMore ==
    ASSUME LogInv, NEW d \in Daemons, file[d] \in Files, NEW CONSTANT piece \in Int, Write(d, piece)
    PROVE  /\ data'[file[d]] = Append(data[file[d]], piece)
           /\ \A f \in Files \ {file[d]} : data'[f] = data[f]
           /\ Len(data[file[d]]) \in Nat /\ Len(data'[file[d]]) = Len(data[file[d]]) + 1
           /\ data'[file[d]][Len(data[file[d]]) + 1] = piece
           /\ \A i \in 1 .. Len(data[file[d]]) :
                 data'[file[d]][i] = data[file[d]][i] /\ data[file[d]][i] \in Int
  <1>1. data[file[d]] \in Seq(Int) /\ data'[file[d]] = Append(data[file[d]], piece)
    BY DEF LogInv, LogTypes, Write
  <1>2. \A f \in Files \ {file[d]} : data'[f] = data[f]
    BY DEF LogInv, LogTypes, Write
  <1>3. QED
    BY <1>1, <1>2, PieceAppend

(* The pieces before it stay, and so does what follows each of them.           *)
LEMMA PiecesKept ==
    ASSUME LogInv, NEW d \in Daemons, file[d] \in Files, NEW CONSTANT piece \in Int, Write(d, piece),
           NEW f \in Files, NEW i \in 1 .. Len(data[f])
    PROVE  /\ i \in Nat /\ Len(data[f]) \in Nat
           /\ i \in 1 .. Len(data'[f]) /\ data'[f][i] = data[f][i]
           /\ i < Len(data[f]) => i < Len(data'[f]) /\ data'[f][i + 1] = data[f][i + 1]
  <1>1. Len(data[f]) \in Nat /\ i \in 1 .. Len(data[f]) /\ i \in Nat
    BY DEF LogInv, LogTypes
  <1>2. CASE f # file[d]
    <2>1. data'[f] = data[f]
      BY <1>2, OnePieceMore
    <2>2. QED
      BY <1>1, <2>1
  <1>3. CASE f = file[d]
    <2>1. Len(data'[f]) = Len(data[f]) + 1 /\ \A j \in 1 .. Len(data[f]) : data'[f][j] = data[f][j]
      BY <1>3, OnePieceMore
    <2>2. i < Len(data[f]) => i + 1 \in 1 .. Len(data[f])
      BY <1>1
    <2>3. QED
      BY <1>1, <2>1, <2>2
  <1>4. QED
    BY <1>2, <1>3

LEMMA TextSpoilsNothing ==
    ASSUME LogInv, TornInv, NEW CONSTANT d \in Daemons, WriteText(d)
    PROVE  TornInv'
  <1> SUFFICES ASSUME crossed = 0
               PROVE  Sole' /\ Unacked' /\ Known' /\ AtEnd' /\ Spoiled'
    BY DEF TornInv, WriteText
  <1>1. Sole /\ Unacked /\ Known /\ AtEnd /\ Spoiled
    BY DEF TornInv
  <1>2. /\ pc[d] = "text" /\ pc'[d] = "newline" /\ Write(d, rec[d]) /\ file[d] \in Files
        /\ pc' = [pc EXCEPT ![d] = "newline"]
        /\ UNCHANGED <<rec, file, records, acked, torn>>
    BY DEF WriteText, GoTo, LogInv, LogTypes
  <1>3. /\ rec[d] \in (1 .. records) \ acked /\ rec[d] \in Int /\ records \in Nat
        /\ \A e \in Daemons : e # d => pc[e] = "idle" /\ pc'[e] = "idle"
    BY <1>1, <1>2 DEF Sole, Unacked, LogInv, LogTypes
  <1> DEFINE f0 == file[d]
             n == Len(data[f0])
  <1>4. /\ \A f \in Files \ {f0} : data'[f] = data[f]
        /\ n \in Nat /\ Len(data'[f0]) = n + 1 /\ data'[f0][n + 1] = rec[d]
        /\ \A f \in Files : \A i \in 1 .. Len(data[f]) :
              /\ i \in Nat /\ Len(data[f]) \in Nat
              /\ i \in 1 .. Len(data'[f]) /\ data'[f][i] = data[f][i]
              /\ i < Len(data[f]) => i < Len(data'[f]) /\ data'[f][i + 1] = data[f][i + 1]
    <2>1. \A piece : piece = rec[d] => piece \in Int /\ Write(d, piece)
      BY <1>2, <1>3
    <2>2. PICK piece : piece = rec[d]
      OBVIOUS
    <2>3. piece \in Int /\ Write(d, piece)
      BY <2>1, <2>2
    <2>4. QED
      BY <1>2, <2>2, <2>3, OnePieceMore, PiecesKept
  <1>5. Sole' /\ Unacked'
    BY <1>1, <1>2, <1>3 DEF Sole, Unacked
  <1>6. AtEnd'
    BY <1>2, <1>3, <1>4 DEF AtEnd
  <1>7. Known'
    <2> SUFFICES ASSUME NEW f \in Files, NEW i \in 1 .. Len(data'[f])
                 PROVE  /\ data'[f][i] <= records
                        /\ data'[f][i] \in acked => i < Len(data'[f]) /\ data'[f][i + 1] = NL
                        /\ \A e \in Daemons : pc'[e] # "idle" /\ data'[f][i] = rec[e] =>
                               pc'[e] = "newline" /\ f = file[e] /\ i = Len(data'[f])
      BY <1>2 DEF Known
    <2>1. CASE f # f0 \/ i \in 1 .. n
      <3>1. /\ i \in 1 .. Len(data[f]) /\ data'[f][i] = data[f][i]
            /\ (i < Len(data[f]) => i < Len(data'[f]) /\ data'[f][i + 1] = data[f][i + 1])
        <4>1. i \in 1 .. Len(data[f])
          BY <1>4, <2>1
        <4>2. QED
          BY <1>4, <4>1
      <3>2. /\ data[f][i] <= records
            /\ data[f][i] \in acked => i < Len(data[f]) /\ data[f][i + 1] = NL
            /\ data[f][i] # rec[d]
        BY <1>1, <1>2, <3>1 DEF Known
      <3>3. QED
        BY <1>3, <3>1, <3>2
    <2>2. CASE f = f0 /\ i = n + 1
      BY <1>2, <1>3, <1>4, <2>2
    <2>3. QED
      BY <1>4, <2>1, <2>2
  <1>8. Broken' = Broken
    <2> SUFFICES ASSUME NEW f \in Files, NEW i \in Nat
                 PROVE  (<<f, i>> \in Broken') <=> (<<f, i>> \in Broken)
      BY DEF Broken
    <2>1. CASE f # f0
      <3>1. data'[f] = data[f] /\ (Ends(f, i)' <=> Ends(f, i))
        BY <1>2, <1>3, <1>4, <2>1 DEF Ends
      <3>2. QED
        BY <3>1 DEF Broken
    <2>2. CASE f = f0 /\ i \in 1 .. n
      <3>1. data'[f][i] = data[f][i] /\ i \in 1 .. Len(data'[f])
        BY <1>4, <2>2
      <3>2. Ends(f, i)' <=> Ends(f, i)
        <4>1. CASE i < n
          <5>1. f = f0 /\ i \in 1 .. Len(data[f]) /\ i < Len(data[f])
            BY <2>2, <4>1
          <5>2. i < Len(data'[f]) /\ data'[f][i + 1] = data[f][i + 1] /\ NL' = NL
            BY <1>4, <5>1 DEF NL
          <5>3. QED
            BY <5>1, <5>2 DEF Ends
        <4>2. CASE i = n
          <5>1. ~Ends(f, i)
            BY <1>2, <1>3, <2>2, <4>2 DEF Ends
          <5>2. ~Ends(f, i)'
            BY <1>3, <1>4, <2>2, <4>2 DEF Ends, NL
          <5>3. QED
            BY <5>1, <5>2
        <4>3. QED
          BY <1>4, <2>2, <4>1, <4>2
      <3>3. QED
        BY <2>2, <3>1, <3>2 DEF Broken
    <2>3. CASE f = f0 /\ i = n + 1
      <3>1. Ends(f, i)'
        BY <1>2, <1>4, <2>3 DEF Ends
      <3>2. i \notin 1 .. Len(data[f])
        BY <1>4, <2>3
      <3>3. QED
        BY <3>1, <3>2 DEF Broken
    <2>4. CASE f = f0 /\ i \notin 1 .. (n + 1)
      BY <1>4, <2>4 DEF Broken
    <2>5. QED
      BY <1>4, <2>1, <2>2, <2>3, <2>4
  <1>9. QED
    BY <1>1, <1>2, <1>5, <1>6, <1>7, <1>8 DEF Spoiled

LEMMA NewlineSpoilsNothing ==
    ASSUME LogInv, TornInv, NEW CONSTANT d \in Daemons, WriteNewline(d)
    PROVE  TornInv'
  <1> SUFFICES ASSUME crossed = 0
               PROVE  Sole' /\ Unacked' /\ Known' /\ AtEnd' /\ Spoiled'
    BY DEF TornInv, WriteNewline
  <1>1. Sole /\ Unacked /\ Known /\ AtEnd /\ Spoiled
    BY DEF TornInv
  <1>2. /\ pc[d] = "newline" /\ pc'[d] = "idle" /\ Write(d, NL) /\ file[d] \in Files
        /\ pc' = [pc EXCEPT ![d] = "idle"] /\ acked' = acked \cup {rec[d]}
        /\ UNCHANGED <<records, torn>>
    BY DEF WriteNewline, Idle, LogInv, LogTypes
  <1>3. /\ rec[d] \in (1 .. records) \ acked /\ records \in Nat
        /\ \A e \in Daemons : pc'[e] = "idle" /\ (e # d => pc[e] = "idle")
    BY <1>1, <1>2 DEF Sole, Unacked, LogInv, LogTypes
  <1> DEFINE f0 == file[d]
             n == Len(data[f0])
  <1>4. /\ \A f \in Files \ {f0} : data'[f] = data[f]
        /\ n \in Nat /\ Len(data'[f0]) = n + 1 /\ data'[f0][n + 1] = NL
        /\ \A f \in Files : \A i \in 1 .. Len(data[f]) :
              /\ i \in Nat /\ Len(data[f]) \in Nat
              /\ i \in 1 .. Len(data'[f]) /\ data'[f][i] = data[f][i]
              /\ i < Len(data[f]) => i < Len(data'[f]) /\ data'[f][i + 1] = data[f][i + 1]
    BY <1>2, OnePieceMore, PiecesKept DEF NL
  <1>5. n > 0 /\ data[f0][n] = rec[d]
    BY <1>1, <1>2 DEF AtEnd
  <1>6. Sole' /\ Unacked' /\ AtEnd'
    BY <1>1, <1>2, <1>3 DEF Sole, Unacked, AtEnd
  <1>7. Known'
    <2> SUFFICES ASSUME NEW f \in Files, NEW i \in 1 .. Len(data'[f])
                 PROVE  /\ data'[f][i] <= records
                        /\ data'[f][i] \in acked' => i < Len(data'[f]) /\ data'[f][i + 1] = NL
      BY <1>2, <1>3 DEF Known
    <2>1. CASE f # f0 \/ i \in 1 .. n
      <3>1. /\ i \in 1 .. Len(data[f]) /\ data'[f][i] = data[f][i]
            /\ (i < Len(data[f]) => i < Len(data'[f]) /\ data'[f][i + 1] = data[f][i + 1])
        <4>1. i \in 1 .. Len(data[f])
          BY <1>4, <2>1
        <4>2. QED
          BY <1>4, <4>1
      <3>2. /\ data[f][i] <= records
            /\ data[f][i] \in acked => i < Len(data[f]) /\ data[f][i + 1] = NL
            /\ data[f][i] = rec[d] => f = f0 /\ i = n
        BY <1>1, <1>2, <3>1 DEF Known
      <3>3. QED
        BY <1>2, <1>4, <3>1, <3>2
    <2>2. CASE f = f0 /\ i = n + 1
      <3>1. 0 \notin acked' /\ data'[f][i] = 0 /\ 0 <= records
        BY <1>1, <1>2, <1>3, <1>4, <2>2 DEF Unacked, NL
      <3>2. QED
        BY <3>1
    <2>3. QED
      BY <1>4, <2>1, <2>2
  <1>8. Broken' = Broken
    <2> SUFFICES ASSUME NEW f \in Files, NEW i \in Nat
                 PROVE  (<<f, i>> \in Broken') <=> (<<f, i>> \in Broken)
      BY DEF Broken
    <2>1. CASE f # f0
      <3>1. data'[f] = data[f] /\ (Ends(f, i)' <=> Ends(f, i))
        BY <1>2, <1>3, <1>4, <2>1 DEF Ends
      <3>2. QED
        BY <3>1 DEF Broken
    <2>2. CASE f = f0 /\ i \in 1 .. n
      <3>1. data'[f][i] = data[f][i] /\ i \in 1 .. Len(data'[f])
        BY <1>4, <2>2
      <3>2. Ends(f, i)' <=> Ends(f, i)
        <4>1. CASE i < n
          <5>1. f = f0 /\ i \in 1 .. Len(data[f]) /\ i < Len(data[f])
            BY <2>2, <4>1
          <5>2. i < Len(data'[f]) /\ data'[f][i + 1] = data[f][i + 1] /\ NL' = NL
            BY <1>4, <5>1 DEF NL
          <5>3. QED
            BY <5>1, <5>2 DEF Ends
        <4>2. CASE i = n
          <5>1. Ends(f, i)
            BY <1>2, <2>2, <4>2 DEF Ends
          <5>2. Ends(f, i)'
            BY <1>4, <2>2, <4>2 DEF Ends, NL
          <5>3. QED
            BY <5>1, <5>2
        <4>3. QED
          BY <1>4, <2>2, <4>1, <4>2
      <3>3. QED
        BY <2>2, <3>1, <3>2 DEF Broken
    <2>3. CASE f = f0 /\ i = n + 1
      <3>1. data'[f][i] = NL /\ NL' = NL
        BY <1>4, <2>3 DEF NL
      <3>2. i \notin 1 .. Len(data[f])
        BY <1>4, <2>3
      <3>3. QED
        BY <3>1, <3>2 DEF Broken
    <2>4. CASE f = f0 /\ i \notin 1 .. (n + 1)
      BY <1>4, <2>4 DEF Broken
    <2>5. QED
      BY <1>4, <2>1, <2>2, <2>3, <2>4
  <1>9. QED
    BY <1>1, <1>2, <1>6, <1>7, <1>8 DEF Spoiled

(* One more half line spoils at most one more record.                          *)
LEMMA OneMoreBroken ==
    ASSUME Spoiled, torn \in Nat, torn' = torn + 1, NEW x, Broken' \subseteq Broken \cup {x}
    PROVE  Spoiled'
  <1>1. /\ IsFiniteSet(Broken \cup {x})
        /\ Cardinality(Broken \cup {x}) = IF x \in Broken THEN Cardinality(Broken)
                                          ELSE Cardinality(Broken) + 1
    BY FS_AddElement DEF Spoiled
  <1>2. Cardinality(Broken) \in Nat /\ Cardinality(Broken) <= torn
    BY FS_CardinalityType DEF Spoiled
  <1>3. IsFiniteSet(Broken') /\ Cardinality(Broken') <= Cardinality(Broken \cup {x})
    BY <1>1, FS_Subset
  <1>4. Cardinality(Broken') \in Nat
    BY <1>3, FS_CardinalityType
  <1>5. QED
    BY <1>1, <1>2, <1>3, <1>4 DEF Spoiled

LEMMA HalfSpoilsOne ==
    ASSUME LogInv, TornInv, NEW CONSTANT d \in Daemons, pc[d] = "text", StopAppending(d),
           NEW CONSTANT piece \in Int, Write(d, piece), piece < 0, torn' = torn + 1
    PROVE  TornInv'
  <1>0. torn \in Nat /\ torn' \in Nat
    BY DEF TornInv
  <1> SUFFICES ASSUME crossed = 0
               PROVE  Sole' /\ Unacked' /\ Known' /\ AtEnd' /\ Spoiled'
    BY <1>0 DEF TornInv, StopAppending
  <1>1. Sole /\ Unacked /\ Known /\ AtEnd /\ Spoiled
    BY DEF TornInv
  <1>2. pc'[d] = "idle" /\ file[d] \in Files /\ UNCHANGED <<records, acked>>
    BY DEF StopAppending, Idle, LogInv, LogTypes
  <1>3. records \in Nat /\ \A e \in Daemons : pc'[e] = "idle" /\ (e # d => pc[e] = "idle")
    BY <1>1, <1>2 DEF StopAppending, Idle, Sole, LogInv, LogTypes
  <1> DEFINE f0 == file[d]
             n == Len(data[f0])
  <1>4. /\ \A f \in Files \ {f0} : data'[f] = data[f]
        /\ n \in Nat /\ Len(data'[f0]) = n + 1 /\ data'[f0][n + 1] = piece
        /\ \A f \in Files : \A i \in 1 .. Len(data[f]) :
              /\ i \in Nat /\ Len(data[f]) \in Nat
              /\ i \in 1 .. Len(data'[f]) /\ data'[f][i] = data[f][i]
              /\ i < Len(data[f]) => i < Len(data'[f]) /\ data'[f][i + 1] = data[f][i + 1]
    BY <1>2, OnePieceMore, PiecesKept
  <1>5. Sole' /\ Unacked' /\ AtEnd'
    BY <1>1, <1>2, <1>3 DEF Sole, Unacked, AtEnd
  <1>6. Known'
    <2> SUFFICES ASSUME NEW f \in Files, NEW i \in 1 .. Len(data'[f])
                 PROVE  /\ data'[f][i] <= records
                        /\ data'[f][i] \in acked => i < Len(data'[f]) /\ data'[f][i + 1] = NL
      BY <1>2, <1>3 DEF Known
    <2>1. CASE f # f0 \/ i \in 1 .. n
      <3>1. /\ i \in 1 .. Len(data[f]) /\ data'[f][i] = data[f][i]
            /\ (i < Len(data[f]) => i < Len(data'[f]) /\ data'[f][i + 1] = data[f][i + 1])
        <4>1. i \in 1 .. Len(data[f])
          BY <1>4, <2>1
        <4>2. QED
          BY <1>4, <4>1
      <3>2. /\ data[f][i] <= records
            /\ data[f][i] \in acked => i < Len(data[f]) /\ data[f][i + 1] = NL
        BY <1>1, <3>1 DEF Known
      <3>3. QED
        BY <3>1, <3>2
    <2>2. CASE f = f0 /\ i = n + 1
      <3>1. piece \notin acked /\ data'[f][i] = piece /\ piece <= records
        BY <1>1, <1>3, <1>4, <2>2 DEF Unacked
      <3>2. QED
        BY <3>1
    <2>3. QED
      BY <1>4, <2>1, <2>2
  <1>7. Broken' \subseteq Broken \cup {<<f0, n + 1>>}
    <2> SUFFICES ASSUME NEW f \in Files, NEW i \in Nat, <<f, i>> \in Broken',
                        f # f0 \/ i # n + 1
                 PROVE  <<f, i>> \in Broken
      BY DEF Broken
    <2>1. CASE f # f0
      <3>1. data'[f] = data[f] /\ (Ends(f, i)' <=> Ends(f, i))
        BY <1>3, <1>4, <2>1 DEF Ends
      <3>2. QED
        BY <3>1 DEF Broken
    <2>2. CASE f = f0
      <3>1. i \in 1 .. n /\ data'[f][i] = data[f][i]
        BY <1>4, <2>2 DEF Broken
      <3>2. ~Ends(f, i)
        <4>1. CASE i < n
          <5>1. f = f0 /\ i \in 1 .. Len(data[f]) /\ i < Len(data[f])
            BY <2>2, <3>1, <4>1
          <5>2. i < Len(data'[f]) /\ data'[f][i + 1] = data[f][i + 1] /\ NL' = NL
            BY <1>4, <5>1 DEF NL
          <5>3. ~Ends(f, i)'
            BY DEF Broken
          <5>4. QED
            BY <5>1, <5>2, <5>3 DEF Ends
        <4>2. CASE i = n
          BY <1>3, <2>2, <4>2 DEF Ends
        <4>3. QED
          BY <1>4, <3>1, <4>1, <4>2
      <3>3. QED
        BY <2>2, <3>1, <3>2 DEF Broken
    <2>3. QED
      BY <2>1, <2>2
  <1>8. QED
    BY <1>0, <1>1, <1>5, <1>6, <1>7, OneMoreBroken

LEMMA NoNewlineSpoilsOne ==
    ASSUME LogInv, TornInv, NEW CONSTANT d \in Daemons, pc[d] = "newline", StopAppending(d)
    PROVE  TornInv'
  <1>0. torn \in Nat /\ torn' = torn + 1 /\ torn' \in Nat
    BY DEF TornInv, StopAppending
  <1> SUFFICES ASSUME crossed = 0
               PROVE  Sole' /\ Unacked' /\ Known' /\ AtEnd' /\ Spoiled'
    BY <1>0 DEF TornInv, StopAppending
  <1>1. Sole /\ Unacked /\ Known /\ AtEnd /\ Spoiled
    BY DEF TornInv
  <1>2. pc'[d] = "idle" /\ file[d] \in Files /\ UNCHANGED <<data, records, acked>>
    BY DEF StopAppending, Idle, LogInv, LogTypes
  <1>3. \A e \in Daemons : pc'[e] = "idle" /\ (e # d => pc[e] = "idle")
    BY <1>1, <1>2 DEF StopAppending, Idle, Sole, LogInv, LogTypes
  <1>4. Sole' /\ Unacked' /\ AtEnd' /\ Known'
    BY <1>1, <1>2, <1>3 DEF Sole, Unacked, AtEnd, Known
  <1> DEFINE f0 == file[d]
             n == Len(data[f0])
  <1>5. Broken' \subseteq Broken \cup {<<f0, n>>}
    <2> SUFFICES ASSUME NEW f \in Files, NEW i \in Nat, <<f, i>> \in Broken',
                        f # f0 \/ i # n
                 PROVE  <<f, i>> \in Broken
      BY DEF Broken
    <2>1. i \in 1 .. Len(data[f]) /\ data[f][i] # NL /\ ~Ends(f, i)'
      BY <1>2 DEF Broken, NL
    <2>2. ~Ends(f, i)
      <3>1. CASE i < Len(data[f])
        BY <1>2, <2>1, <3>1 DEF Ends, NL
      <3>2. CASE ~(i < Len(data[f]))
        <4>1. f # f0
          BY <2>1, <3>2 DEF LogInv, LogTypes
        <4>2. QED
          BY <1>3, <3>2, <4>1 DEF Ends
      <3>3. QED
        BY <3>1, <3>2
    <2>3. QED
      BY <2>1, <2>2 DEF Broken
  <1>6. Spoiled'
    BY <1>0, <1>1, <1>5, OneMoreBroken
  <1>7. QED
    BY <1>4, <1>6

LEMMA StoppingSpoilsOne ==
    ASSUME LogInv, TornInv, NEW CONSTANT d \in Daemons, pc[d] # "idle", StopAppending(d)
    PROVE  TornInv'
  <1>1. CASE pc[d] = "newline"
    BY <1>1, NoNewlineSpoilsOne
  <1>2. CASE pc[d] # "newline" /\ UNCHANGED <<data, torn>>
    <2>1. Quiet(d)
      BY <1>2 DEF StopAppending, Idle, Quiet, LogInv, LogTypes
    <2>2. QED
      BY <2>1, QuietSpoilsNothing
  <1>3. CASE pc[d] = "text" /\ torn' = torn + 1 /\ \E piece \in {-rec[d], CUT} : Write(d, piece)
    <2>1. PICK piece \in {-rec[d], CUT} : Write(d, piece)
      BY <1>3
    <2>2. rec[d] \in Nat /\ rec[d] > 0
      BY <1>3 DEF LogInv, LogTypes
    <2>3. piece \in Int /\ piece < 0
      BY <2>2, Numbers DEF CUT
    <2>4. QED
      BY <1>3, <2>1, <2>3, HalfSpoilsOne
  <1>4. QED
    BY <1>1, <1>2, <1>3 DEF StopAppending

LEMMA TornInductive == LogInv /\ TornInv /\ [Next]_vars => TornInv'
<1> SUFFICES ASSUME LogInv, TornInv, [Next]_vars PROVE TornInv'
  OBVIOUS
<1>1. ASSUME UNCHANGED logVars PROVE TornInv'
  BY <1>1 DEF logVars, TornInv, Sole, Unacked, Known, AtEnd, Spoiled, Broken, Ends, NL
<1>2. CASE UNCHANGED vars
  BY <1>1, <1>2 DEF vars
<1>3. ASSUME NEW d \in Daemons, StartUp(d) \/ Export(d) PROVE TornInv'
  BY <1>1, <1>3 DEF StartUp, Export
<1>4. ASSUME NEW d \in Daemons, Record(d) PROVE TornInv'
  <2>1. AppendFails(d) => StopAppending(d) /\ pc[d] # "idle"
    BY DEF AppendFails
  <2>2. CheckSize(d) => Quiet(d)
    BY DEF CheckSize, GoTo, disk, Quiet, LogInv, LogTypes
  <2>3. Rotate(d) \/ RotateFails(d) => Quiet(d)
    BY DEF Rotate, RotateFails, GoTo, disk, Quiet, LogInv, LogTypes
  <2>4. Open(d) => Quiet(d)
    BY DEF Open, GoTo, Quiet, LogInv, LogTypes
  <2>5. QED
    BY <1>4, <2>1, <2>2, <2>3, <2>4, BeginSpoilsNothing, QuietSpoilsNothing, TextSpoilsNothing,
       NewlineSpoilsNothing, StoppingSpoilsOne DEF Record, AppendLine
<1>5. ASSUME NEW d \in Daemons, Die(d) PROVE TornInv'
  <2>1. UNCHANGED logVars \/ (StopAppending(d) /\ pc[d] # "idle")
    BY <1>5 DEF Die
  <2>2. QED
    BY <1>1, <2>1, StoppingSpoilsOne
<1>6. QED
  BY <1>2, <1>3, <1>4, <1>5 DEF Next

-----------------------------------------------------------------------------
(* What `why` shows.  Until something is torn or two daemons meet, the numbers *)
(* in every file only rise, and who is at work has the last one given out.     *)
Rising == \A f \in Files : \A i, j \in 1 .. Len(data[f]) :
            /\ data[f][i] >= 0
            /\ i < j /\ data[f][i] > 0 /\ data[f][j] > 0 => data[f][i] < data[f][j]
Newest == \A d \in Daemons : pc[d] # "idle" => rec[d] = records

OrderInv == torn = 0 /\ crossed = 0 => Rising /\ Newest

LEMMA OrderInitially == JournalInit => OrderInv
  <1> SUFFICES ASSUME JournalInit PROVE OrderInv
    OBVIOUS
  <1>1. \A f \in Files : Len(data[f]) = 0
    BY DEF JournalInit
  <1>2. QED
    BY <1>1 DEF JournalInit, OrderInv, Rising, Newest

(* A daemon at the end of a file adds a newline or the newest record.          *)
LEMMA RisesOn ==
    ASSUME LogInv, Rising, NEW d \in Daemons, file[d] \in Files, NEW CONSTANT piece \in Int,
           Write(d, piece), piece >= 0,
           piece > 0 => \A i \in 1 .. Len(data[file[d]]) : data[file[d]][i] < piece
    PROVE  Rising'
  <1> DEFINE f0 == file[d]
             n == Len(data[f0])
  <1>1. /\ \A f \in Files \ {f0} : data'[f] = data[f]
        /\ n \in Nat /\ Len(data'[f0]) = n + 1 /\ data'[f0][n + 1] = piece
        /\ \A i \in 1 .. n : data'[f0][i] = data[f0][i] /\ data[f0][i] \in Int
    BY OnePieceMore
  <1> SUFFICES ASSUME NEW f \in Files, NEW i \in 1 .. Len(data'[f]), NEW j \in 1 .. Len(data'[f])
               PROVE  /\ data'[f][i] >= 0
                      /\ i < j /\ data'[f][i] > 0 /\ data'[f][j] > 0 => data'[f][i] < data'[f][j]
    BY DEF Rising
  <1>2. CASE f # f0
    BY <1>1, <1>2 DEF Rising
  <1>3. CASE f = f0
    <2>1. i \in 1 .. (n + 1) /\ j \in 1 .. (n + 1)
      BY <1>1, <1>3
    <2>2. CASE i \in 1 .. n /\ j \in 1 .. n
      BY <1>1, <1>3, <2>2 DEF Rising
    <2>3. CASE i = n + 1
      BY <1>1, <1>3, <2>1, <2>3
    <2>4. CASE i \in 1 .. n /\ j = n + 1
      BY <1>1, <1>3, <2>4 DEF Rising
    <2>5. QED
      BY <1>1, <2>1, <2>2, <2>3, <2>4
  <1>4. QED
    BY <1>2, <1>3

LEMMA OrderInductive == LogInv /\ TornInv /\ OrderInv /\ [Next]_vars => OrderInv'
<1> SUFFICES ASSUME LogInv, TornInv, OrderInv, [Next]_vars, torn' = 0, crossed' = 0
             PROVE  Rising' /\ Newest'
  BY DEF OrderInv
<1>1. ASSUME UNCHANGED logVars PROVE Rising' /\ Newest'
  BY <1>1 DEF logVars, OrderInv, Rising, Newest
<1>2. CASE UNCHANGED vars
  BY <1>1, <1>2 DEF vars
<1>3. ASSUME NEW d \in Daemons, StartUp(d) \/ Export(d) PROVE Rising' /\ Newest'
  BY <1>1, <1>3 DEF StartUp, Export
<1>4. ASSUME NEW d \in Daemons, Begin(d) PROVE Rising' /\ Newest'
  <2>1. /\ pc[d] = "idle" /\ pc' = [pc EXCEPT ![d] = "check"] /\ records' = records + 1
        /\ rec' = [rec EXCEPT ![d] = records + 1] /\ UNCHANGED <<data, torn>>
    BY <1>4 DEF Begin, GoTo, disk
  <2>2. (\A e \in Daemons : pc[e] = "idle") /\ crossed = 0
    <3> DEFINE Another == \E e \in Daemons : pc[e] # "idle"
    <3>1. crossed' = IF Another THEN 1 ELSE crossed
      BY <1>4 DEF Begin
    <3>2. ~Another /\ crossed = 0
      <4> HIDE DEF Another
      <4> QED
        BY <3>1
    <3>3. QED
      BY <3>2
  <2>3. Rising'
    BY <2>1, <2>2 DEF OrderInv, Rising
  <2>4. Newest'
    BY <2>1, <2>2 DEF Newest, LogInv, LogTypes
  <2>5. QED
    BY <2>3, <2>4
<1>5. ASSUME NEW d \in Daemons, WriteText(d) PROVE Rising' /\ Newest'
  <2>1. torn = 0 /\ crossed = 0
    BY <1>5 DEF WriteText
  <2>2. Rising /\ Newest /\ Unacked /\ Known
    BY <2>1 DEF OrderInv, TornInv
  <2>3. /\ pc[d] = "text" /\ Write(d, rec[d]) /\ file[d] \in Files
        /\ pc' = [pc EXCEPT ![d] = "newline"] /\ UNCHANGED <<rec, records>>
    BY <1>5 DEF WriteText, GoTo, LogInv, LogTypes
  <2>4. rec[d] \in Nat /\ rec[d] > 0 /\ rec[d] = records
    BY <2>2, <2>3 DEF Newest, LogInv, LogTypes
  <2>5. ASSUME NEW i \in 1 .. Len(data[file[d]]) PROVE data[file[d]][i] < rec[d]
    <3>1. data[file[d]][i] <= records /\ data[file[d]][i] # rec[d]
      BY <2>2, <2>3 DEF Known
    <3>2. data[file[d]][i] \in Int
      BY <2>3 DEF LogInv, LogTypes
    <3>3. QED
      BY <2>4, <3>1, <3>2
  <2>6. \A piece : piece = rec[d] => piece \in Int /\ piece >= 0 /\ Write(d, piece) /\
                       \A i \in 1 .. Len(data[file[d]]) : data[file[d]][i] < piece
    BY <2>3, <2>4, <2>5
  <2>7. PICK piece : piece = rec[d]
    OBVIOUS
  <2>8. piece \in Int /\ piece >= 0 /\ Write(d, piece) /\
        \A i \in 1 .. Len(data[file[d]]) : data[file[d]][i] < piece
    BY <2>6, <2>7
  <2>9. Rising'
    BY <2>2, <2>3, <2>8, RisesOn
  <2>10. Newest'
    BY <2>2, <2>3 DEF Newest, LogInv, LogTypes
  <2>11. QED
    BY <2>9, <2>10
<1>6. ASSUME NEW d \in Daemons, WriteNewline(d) PROVE Rising' /\ Newest'
  <2>1. torn = 0 /\ crossed = 0
    BY <1>6 DEF WriteNewline
  <2>2. Rising /\ Newest
    BY <2>1 DEF OrderInv
  <2>3. Write(d, NL) /\ file[d] \in Files
    BY <1>6 DEF WriteNewline, LogInv, LogTypes
  <2>4. Rising'
    BY <2>2, <2>3, RisesOn DEF NL
  <2>5. Newest'
    BY <1>6, <2>2 DEF WriteNewline, Idle, Newest, LogInv, LogTypes
  <2>6. QED
    BY <2>4, <2>5
<1>7. ASSUME NEW d \in Daemons, StopAppending(d) PROVE Rising' /\ Newest'
  <2>1. torn \in Nat
    BY DEF TornInv
  <2>2. data' = data /\ torn = 0 /\ crossed = 0
    BY <1>7, <2>1 DEF StopAppending
  <2>3. Rising /\ Newest
    BY <2>2 DEF OrderInv
  <2>4. QED
    BY <1>7, <2>2, <2>3 DEF StopAppending, Idle, Rising, Newest, LogInv, LogTypes
<1>8. ASSUME NEW d \in Daemons, CheckSize(d) \/ Rotate(d) \/ RotateFails(d) \/ Open(d)
      PROVE  Rising' /\ Newest'
  <2>1. /\ pc[d] # "idle" /\ (\A e \in Daemons : e # d => pc'[e] = pc[e])
        /\ UNCHANGED <<data, rec, records, torn, crossed>>
    BY <1>8 DEF CheckSize, Rotate, RotateFails, Open, GoTo, disk, LogInv, LogTypes
  <2>2. Rising /\ Newest
    BY <2>1 DEF OrderInv
  <2>3. QED
    BY <2>1, <2>2 DEF Rising, Newest
<1>9. QED
  <2>1. ASSUME NEW d \in Daemons, Record(d) PROVE Rising' /\ Newest'
    BY <1>4, <1>5, <1>6, <1>7, <1>8, <2>1 DEF Record, AppendLine, AppendFails
  <2>2. ASSUME NEW d \in Daemons, Die(d) PROVE Rising' /\ Newest'
    BY <1>1, <1>7, <2>2 DEF Die
  <2>3. QED
    BY <1>2, <1>3, <2>1, <2>2 DEF Next

(* While nothing is torn, every record in a file can be read from it.          *)
LEMMA AllReadable ==
    ASSUME LogInv, TornInv, Rising, torn = 0, crossed = 0, NEW f \in Files
    PROVE  Records(f) = {i \in 1 .. Len(data[f]) : data[f][i] > 0}
  <1>1. data[f] \in Seq(Int) /\ Len(data[f]) \in Nat /\ Content(f) = data[f]
        /\ DOMAIN Content(f) = 1 .. Len(data[f])
    BY Numbers DEF LogInv, LogTypes, Content
  <1>2. Broken = {}
    <2>1. IsFiniteSet(Broken) /\ Cardinality(Broken) <= 0
      BY DEF TornInv, Spoiled
    <2>2. QED
      BY <2>1, FS_CardinalityType, FS_EmptySet
  <1>3. IsText(f)
    <2>1. \A i \in 1 .. Len(data[f]) : data[f][i] >= 0 /\ data[f][i] \in Int
      BY <1>1 DEF Rising
    <2>2. CUT \in Int /\ CUT < 0
      BY Numbers DEF CUT
    <2>3. \A i \in 1 .. Len(data[f]) : data[f][i] # CUT
      BY <2>1, <2>2
    <2>4. QED
      BY <1>1, <2>3 DEF IsText, Range
  <1>4. ASSUME NEW i \in 1 .. Len(data[f]), data[f][i] > 0 PROVE ReadableAt(data[f], i)
    <2>1. ASSUME NEW k \in 1 .. Len(data[f]), data[f][k] # NL PROVE Ends(f, k)
      <3>1. <<f, k>> \notin Broken /\ <<f, k>> \in Files \X Nat
        BY <1>1, <1>2
      <3>2. QED
        BY <2>1, <3>1 DEF Broken
    <2>2. data[f][i] # NL
      BY <1>1, <1>4 DEF NL
    <2>3. i = Len(data[f]) \/ data[f][i + 1] = NL
      BY <1>1, <2>1, <2>2 DEF Ends
    <2>4. ASSUME i # 1 PROVE data[f][i - 1] = NL
      <3>1. i - 1 \in 1 .. Len(data[f]) /\ i - 1 < Len(data[f]) /\ (i - 1) + 1 = i
        BY <1>1, <2>4
      <3>2. ~Ends(f, i - 1)
        BY <2>2, <3>1 DEF Ends
      <3>3. QED
        BY <2>1, <3>1, <3>2
    <2>5. QED
      BY <1>4, <2>3, <2>4 DEF ReadableAt
  <1>5. \A i \in 1 .. Len(data[f]) : ReadableAt(data[f], i) <=> data[f][i] > 0
    BY <1>4 DEF ReadableAt
  <1>6. QED
    BY <1>1, <1>3, <1>5 DEF Records

(* The records of the live file, as they come.                                 *)
LEMMA RecordsRise ==
    ASSUME LogInv, TornInv, OrderInv, torn = 0, crossed = 0
    PROVE  LET m == Members(Content(live), Records(live)) IN
           /\ m \in Seq(Int)
           /\ \A k, l \in 1 .. Len(m) : k < l => m[k] < m[l]
           /\ \A r \in acked \cap Range(Content(live)) : \E k \in 1 .. Len(m) : m[k] = r
  <1> DEFINE s == Content(live)
             P == Records(live)
             m == Members(s, P)
  <1>1. Rising /\ Unacked
    BY DEF OrderInv, TornInv
  <1>2. s \in Seq(Int) /\ P \in SUBSET DOMAIN s
    BY DEF Content, Records, LogInv, LogTypes
  <1>3. /\ \A i \in P : s[i] > 0
        /\ \A i \in DOMAIN s : s[i] > 0 => i \in P
        /\ \A i, j \in P : i < j => s[i] < s[j]
    <2>1. CASE live = None
      BY <2>1 DEF Content, Records
    <2>2. CASE live # None
      <3>1. live \in Files /\ s = data[live] /\ DOMAIN s = 1 .. Len(data[live])
        BY <2>2 DEF Content, LogInv, LogTypes
      <3>2. P = {i \in 1 .. Len(data[live]) : data[live][i] > 0}
        BY <1>1, <3>1, AllReadable
      <3>3. QED
        BY <1>1, <3>1, <3>2 DEF Rising
    <2>3. QED
      BY <2>1, <2>2
  <1>4. \A r \in acked \cap Range(s) : \E i \in P : s[i] = r
    BY <1>1, <1>3 DEF Range, Unacked
  <1> HIDE DEF s, P
  <1>5. /\ m \in Seq(Int) /\ Len(m) = Cardinality(P) /\ Cardinality(P) \in Nat
        /\ \A k \in 1 .. Cardinality(P) : \E i \in P : m[k] = s[i]
        /\ \A i \in P : \E k \in 1 .. Cardinality(P) : m[k] = s[i]
        /\ \A k, l \in 1 .. Cardinality(P) : k < l => \E i, j \in P : i < j /\ m[k] = s[i] /\ m[l] = s[j]
    BY <1>2, MembersFacts
  <1> HIDE DEF m
  <1>6. ASSUME NEW k \in 1 .. Len(m), NEW l \in 1 .. Len(m), k < l PROVE m[k] < m[l]
    <2>1. PICK i, j \in P : i < j /\ m[k] = s[i] /\ m[l] = s[j]
      BY <1>5, <1>6
    <2>2. QED
      BY <1>3, <2>1
  <1>7. ASSUME NEW r \in acked \cap Range(s) PROVE \E k \in 1 .. Len(m) : m[k] = r
    <2>1. PICK i \in P : s[i] = r
      BY <1>4
    <2>2. PICK k \in 1 .. Cardinality(P) : m[k] = s[i]
      BY <1>5
    <2>3. QED
      BY <1>5, <2>1, <2>2
  <1>8. QED
    BY <1>5, <1>6, <1>7 DEF m, s, P

(* The last n of a sequence that rises, newest first: they fall, and whatever  *)
(* is left out is below them all.                                              *)
LEMMA NewestFirst ==
    ASSUME NEW m \in Seq(Int), \A k, l \in 1 .. Len(m) : k < l => m[k] < m[l], NEW n \in Nat \ {0}
    PROVE  LET a == First(Reverse(m), n) IN
           /\ \A i \in 1 .. Len(a) - 1 : a[i] > a[i + 1]
           /\ \A k \in 1 .. Len(m) : m[k] \notin Range(a) => Len(a) = n /\ m[k] < Last(a)
  <1> DEFINE b == Reverse(m)
             c == IF Len(b) < n THEN Len(b) ELSE n
             a == First(b, n)
             L == Len(m)
  <1>1. L \in Nat /\ n \in Nat /\ n > 0
    OBVIOUS
  <1>2. b \in Seq(Int) /\ Len(b) = L /\ \A i \in 1 .. L : b[i] = m[L - i + 1]
    BY DEF Reverse
  <1>3. c \in 0 .. L /\ c <= n /\ (c < n => c = L)
    BY <1>1, <1>2
  <1>4. a = SubSeq(b, 1, c)
    BY DEF First
  <1> HIDE DEF b, c, a
  <1>5. Len(a) = c /\ DOMAIN a = 1 .. c /\ \A i \in 1 .. c : a[i] = b[i]
    BY <1>2, <1>3, <1>4
  <1>6. \A i \in 1 .. c : L - i + 1 \in 1 .. L /\ a[i] = m[L - i + 1]
    <2> HIDE DEF L
    <2>1. \A i \in 1 .. c : i \in 1 .. L /\ L - i + 1 \in 1 .. L
      BY <1>1, <1>3
    <2>2. QED
      BY <1>2, <1>5, <2>1
  <1>7. \A i \in 1 .. Len(a) - 1 : a[i] > a[i + 1]
    <2> SUFFICES ASSUME NEW i \in 1 .. c - 1 PROVE a[i] > a[i + 1]
      BY <1>5
    <2>1. i \in 1 .. c /\ i + 1 \in 1 .. c /\ L - (i + 1) + 1 < L - i + 1
      BY <1>1, <1>3
    <2>2. m[L - (i + 1) + 1] < m[L - i + 1]
      BY <1>6, <2>1
    <2>3. a[i] = m[L - i + 1] /\ a[i + 1] = m[L - (i + 1) + 1] /\ a[i] \in Int /\ a[i + 1] \in Int
      BY <1>6, <2>1
    <2>4. QED
      BY <2>2, <2>3
  <1>8. ASSUME NEW k \in 1 .. Len(m), m[k] \notin Range(a) PROVE Len(a) = n /\ m[k] < Last(a)
    <2>1. k <= L - c
      <3> SUFFICES ASSUME L - k + 1 \in 1 .. c PROVE FALSE
        BY <1>1, <1>3
      <3>1. a[L - k + 1] = m[k]
        BY <1>1, <1>6
      <3>2. QED
        BY <1>5, <1>8, <3>1 DEF Range
    <2>2. c = n
      BY <1>1, <1>3, <2>1
    <2>3. c \in 1 .. c /\ Last(a) = m[L - c + 1] /\ L - c + 1 \in 1 .. L /\ k < L - c + 1
      BY <1>1, <1>3, <1>5, <1>6, <2>1, <2>2 DEF Last
    <2>4. QED
      BY <1>5, <2>2, <2>3
  <1>9. QED
    BY <1>7, <1>8 DEF a, b

LEMMA TheLogHolds == Spec => [](LogInv /\ TornInv /\ OrderInv)
<1>1. Init => LogInv /\ TornInv /\ OrderInv
  BY LogInitially, TornInitially, OrderInitially DEF Init
<1>2. (LogInv /\ TornInv /\ OrderInv) /\ [Next]_vars => (LogInv /\ TornInv /\ OrderInv)'
  BY LogInductive, TornInductive, OrderInductive
<1>3. QED
  BY <1>1, <1>2, PTL DEF Spec

-----------------------------------------------------------------------------
(* Of any number of daemons started one after another, and killed at any step, *)
(* at most one serves, and clients reach it on both sockets.                   *)
THEOREM OneDaemonServes == Spec => []OneServes
<1>1. IInv => OneServes
  <2> SUFFICES ASSUME IInv, ~overlapped PROVE OneServes
    BY DEF OneServes
  <2>1. \A d, e \in Serving : d = e
    BY Alone DEF Serving, IInv
  <2>2. Cardinality(Serving) <= 1
    <3>1. CASE Serving = {}
      BY <3>1, FS_EmptySet
    <3>2. CASE Serving # {}
      <4>1. PICK d \in Serving : Serving = {d}
        BY <2>1, <3>2
      <4>2. Cardinality(Serving) = 1
        BY <4>1, FS_Singleton
      <4>3. QED
        BY <4>2
    <3>3. QED
      BY <3>1, <3>2
  <2>3. \A d \in Daemons, s \in Places : s \in listening[d] => path[s] = d
    BY DEF IInv, SocketInv
  <2>4. QED
    BY <2>2, <2>3 DEF OneServes
<1>2. QED
  BY <1>1, Always, PTL

(* No daemon started by itself ever gives up to a socket file without a daemon *)
(* behind it.                                                                  *)
THEOREM StaleIsCleared == Spec => []StaleNeverBlocks
<1>1. IInv => StaleNeverBlocks
  BY DEF IInv, QuitInv, StaleNeverBlocks
<1>2. QED
  BY <1>1, Always, PTL

(* Whoever opens the published textfile reads a document to its end, whatever  *)
(* write failed or daemon died half-way through the next.                      *)
THEOREM DocumentsAreWhole == Spec => []WholeDocuments
<1>1. IInv => WholeDocuments
  BY DEF IInv, TextInv, WholeDocuments
<1>2. QED
  BY <1>1, Always, PTL

(* Neither generation of the log outgrows the cap by more than one line for    *)
(* each daemon that writes and each rename that failed, however many daemons   *)
(* append, rotate over one another, fail half way and die.                     *)
THEOREM TheDiskIsBounded == Spec => []DiskBounded
<1>1. LogInv => DiskBounded
  <2> SUFFICES ASSUME LogInv, Cap > 0, NEW f \in {live, old} \ {None} PROVE Size(f) < Limit
    BY DEF DiskBounded, Limit
  <2>1. Size(f) + Debt(f) < Limit /\ Limit \in Int /\ Size(f) \in Nat /\ Debt(f) \in Nat
    BY LimitFacts, SizeIsNat, DebtFacts DEF LogInv, DebtInv
  <2>2. QED
    BY <2>1
<1>2. QED
  BY <1>1, TheLogHolds, PTL

(* A record reported written is unreadable only because of a broken piece just *)
(* before it, a different one for each.                                        *)
LEMMA SpoiledBySomething ==
    ASSUME LogInv, TornInv, crossed = 0, NEW n \in acked, NEW f \in {live, old}, IsText(f),
           n \in Range(Content(f)) \ Readable(f)
    PROVE  f \in Files /\ \E i \in Nat : <<f, i>> \in Broken /\ data[f][i + 1] = n
  <1>1. PICK i \in DOMAIN Content(f) : Content(f)[i] = n
    BY DEF Range
  <1>2. Content(f) = IF f = None THEN << >> ELSE data[f]
    BY DEF Content
  <1>3. f # None /\ f \in Files /\ Content(f) = data[f] /\ data[f] \in Seq(Int)
    BY <1>1, <1>2 DEF LogInv, LogTypes
  <1>4. i \in 1 .. Len(data[f]) /\ i \in Nat /\ Len(data[f]) \in Nat /\ data[f][i] = n
    BY <1>1, <1>3
  <1>5. n > 0 /\ i < Len(data[f]) /\ data[f][i + 1] = NL
    BY <1>3, <1>4 DEF TornInv, Unacked, Known, LogInv, LogTypes
  <1>6. ~ReadableAt(data[f], i)
    BY <1>1, <1>3, <1>4 DEF Readable, Records
  <1>7. i # 1 /\ data[f][i - 1] # NL
    BY <1>4, <1>5, <1>6 DEF ReadableAt
  <1> DEFINE j == i - 1
  <1>8. j \in Nat /\ j \in 1 .. Len(data[f]) /\ j < Len(data[f]) /\ j + 1 = i
    BY <1>4, <1>7
  <1>9. ~Ends(f, j)
    BY <1>4, <1>5, <1>8 DEF Ends, NL
  <1>10. <<f, j>> \in Broken
    BY <1>3, <1>7, <1>8, <1>9 DEF Broken
  <1>11. QED
    BY <1>3, <1>4, <1>8, <1>10

(* While daemons do not meet, half a line costs at most one record that was    *)
(* reported written, of the files that are text: a half line cut inside a      *)
(* character makes all of its file unreadable (stallwatch.rs:388).             *)
THEOREM DamageIsConfined == Spec => []DamageBounded
<1>1. LogInv /\ TornInv => DamageBounded
  <2> SUFFICES ASSUME LogInv, TornInv, crossed = 0 PROVE DamageBounded
    BY DEF DamageBounded
  <2> DEFINE Lost == {n \in acked : \E f \in {live, old} :
                         IsText(f) /\ n \in Range(Content(f)) \ Readable(f)}
             Cause(n) == CHOOSE p \in Broken : data[p[1]][p[2] + 1] = n
             cause == [n \in Lost |-> Cause(n)]
  <2>1. ASSUME NEW n \in Lost PROVE Cause(n) \in Broken /\ data[Cause(n)[1]][Cause(n)[2] + 1] = n
    <3>1. PICK f \in {live, old} : IsText(f) /\ n \in Range(Content(f)) \ Readable(f)
      OBVIOUS
    <3>2. PICK i \in Nat : f \in Files /\ <<f, i>> \in Broken /\ data[f][i + 1] = n
      BY <3>1, SpoiledBySomething
    <3>3. \E p \in Broken : data[p[1]][p[2] + 1] = n
      BY <3>2
    <3>4. QED
      BY <3>3
  <2> HIDE DEF Lost, Cause
  <2>2. cause \in Injection(Lost, Broken)
    <3>1. cause \in [Lost -> Broken]
      BY <2>1
    <3>2. ASSUME NEW m \in Lost, NEW n \in Lost, cause[m] = cause[n] PROVE m = n
      <4>1. Cause(m) = Cause(n)
        BY <3>2
      <4>2. QED
        BY <2>1, <4>1
    <3> HIDE DEF cause
    <3>3. QED
      BY <3>1, <3>2 DEF Injection, IsInjective
  <2>3. IsFiniteSet(Broken) /\ Cardinality(Broken) <= torn /\ torn \in Nat
    BY DEF TornInv, Spoiled
  <2>4. IsFiniteSet(Lost) /\ Cardinality(Lost) <= Cardinality(Broken)
    BY <2>2, <2>3, FS_Injection
  <2>5. Cardinality(Lost) <= torn
    BY <2>3, <2>4, FS_CardinalityType
  <2>6. QED
    BY <2>5 DEF DamageBounded, Lost
<1>2. QED
  BY <1>1, TheLogHolds, PTL

(* Whatever was rotated and given up before, and however many it is asked for. *)
LEMMA AnyNumberIsShown ==
    ASSUME LogInv, TornInv, OrderInv, torn = 0, crossed = 0, NEW n \in Nat \ {0}
    PROVE  ShowsNewest(n)
<1> DEFINE m == Members(Content(live), Records(live))
           a == First(Reverse(m), n)
<1>1. /\ m \in Seq(Int)
      /\ \A k, l \in 1 .. Len(m) : k < l => m[k] < m[l]
      /\ \A r \in acked \cap Range(Content(live)) : \E k \in 1 .. Len(m) : m[k] = r
  BY RecordsRise
<1> HIDE DEF m
<1>2. /\ \A i \in 1 .. Len(a) - 1 : a[i] > a[i + 1]
      /\ \A k \in 1 .. Len(m) : m[k] \notin Range(a) => Len(a) = n /\ m[k] < Last(a)
  BY <1>1, NewestFirst
<1>3. a = Answer(n)
  BY DEF Answer, m
<1> HIDE DEF a
<1>4. QED
  BY <1>1, <1>2, <1>3 DEF ShowsNewest

(* `stallwatch why` shows the newest record first and leaves out only older    *)
(* ones than it shows: of any number of records, and for any number asked for. *)
THEOREM AnswersAreNewest ==
    Spec => [](torn = 0 /\ crossed = 0 => \A n \in Nat \ {0} : ShowsNewest(n))
<1>1. LogInv /\ TornInv /\ OrderInv => (torn = 0 /\ crossed = 0 => \A n \in Nat \ {0} : ShowsNewest(n))
  BY AnyNumberIsShown
<1>2. QED
  BY <1>1, TheLogHolds, PTL

(* The same for as many as TLC asks for.                                       *)
THEOREM TheNewestIsShown == Spec => []WhyIsNewest
<1>1. (torn = 0 /\ crossed = 0 => \A n \in Nat \ {0} : ShowsNewest(n)) => WhyIsNewest
  BY DEF WhyIsNewest
<1>2. QED
  BY <1>1, AnswersAreNewest, PTL
=============================================================================
