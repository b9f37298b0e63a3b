-------------------------- MODULE LifecycleProofs --------------------------
(* What Lifecycle promises, for any number of users, ports and names: nothing *)
(* stays open, the port comes back, what get_link() hands out is live, and    *)
(* who waits on a transport that stops is told.                               *)
EXTENDS Lifecycle, TLAPS

\* A transport that nothing has begun to stop.
Live(l) ==
  /\ link[l] # None /\ link[l].sock = "open"
  /\ ~link[l].stopped /\ ~link[l].stopping /\ link[l].listener # "ended"

\* Which globals are set at which step of a call, and what it has in hand.
Phases ==
  /\ globals.engine = globals.factory
  /\ globals.factory = None => globals.anidb = None
  /\ op # None =>
       /\ globals.anidb = None
       /\ op.pc \notin {"clear", "publish link"} => globals.factory = None
       /\ op.pc \in {"cache", "clear"} => op.engine = None
       /\ op.pc \in {"cache", "build"} => op.link = None /\ op.port \in Ports
       /\ op.pc \in {"build", "publish", "publish link"} => op.engine # None
       /\ op.pc = "publish link" => op.engine = globals.engine

\* How far the transport in the hands of a call has come.  The wake-up datagram is
\* there for as long as a listener told to leave still reads: what lets the join
\* end with the listener out of recv(), and the port free once the socket is
\* closed.
Teardown ==
  op # None =>
    /\ op.link # None => link[op.link] # None
    /\ op.pc \in {"logout", "stop", "stop listener", "wake", "join", "abort"} => op.link # None
    /\ op.link # None =>
         /\ op.pc \in {"publish", "publish link"} => Live(op.link)
         /\ op.pc \in {"wake", "join"} => link[op.link].stopping
         /\ op.pc = "join" /\ link[op.link].listener = "recv" => link[op.link].nudged
         /\ op.pc \in {"abort", "dispose"} => link[op.link].sock = "closed"

\* Nobody reads from a closed socket.
ClosedIsQuiet ==
  \A l \in Clients :
    link[l] # None /\ link[l].sock = "closed" => link[l].listener # "recv"

\* Every port that is held is held by a transport that somebody answers for.
PortsAccounted ==
  \A l \in Clients :
    HoldsPort(l) => l \in {globals.anidb} \cup lost \cup (IF op = None THEN {} ELSE {op.link})

IInv ==
  /\ TypeOK /\ Phases /\ Teardown /\ ClosedIsQuiet /\ PortsAccounted
  /\ NothingStranded /\ GetLinkIsLive /\ WaitersAreTold

-----------------------------------------------------------------------------
(* What a step does, field by field *)

\* The call under way goes to the step pc with the same things in hand.
OpGoes(pc) ==
  /\ op' \in Calls /\ op' # None
  /\ op'.pc = pc /\ op'.engine = op.engine /\ op'.link = op.link

\* Of the transports, only l changes, to these values.
Became(l, sock, listener, stopping, nudged, stopped, aborted) ==
  /\ l \in Clients /\ link[l] # None
  /\ link' \in [Clients -> Links \cup {None}] /\ link'[l] # None
  /\ link'[l].sock = sock /\ link'[l].listener = listener
  /\ link'[l].stopping = stopping /\ link'[l].nudged = nudged
  /\ link'[l].stopped = stopped /\ link'[l].aborted = aborted
  /\ \A m \in Clients : m # l => link'[m] = link[m]

\* Of the users, only u changes, to these values.
UserBecame(u, pc, l) ==
  /\ user' \in [Users -> Holdings]
  /\ user'[u].pc = pc /\ user'[u].link = l
  /\ \A v \in Users : v # u => user'[v] = user[v]

\* The globals are these.
GlobalsBecame(engine, factory, anidb) ==
  /\ globals' \in [engine: Clients \cup {None}, factory: Clients \cup {None},
                  anidb: Clients \cup {None}]
  /\ globals'.engine = engine /\ globals'.factory = factory /\ globals'.anidb = anidb

\* A call under way is not None.
LEMMA CallsExist == ASSUME NEW c \in Calls PROVE c # None
BY LifecycleAssumption

\* Nor is a transport.
LEMMA LinksExist == ASSUME NEW r \in Links PROVE r # None
BY LifecycleAssumption

\* A step that only moves a call on leaves it what it has in hand.
LEMMA GoesOn ==
  ASSUME op \in Calls, NEW pc \in {"publish link", "stop", "stop listener", "wake", "join",
                                   "abort", "dispose"}, Goes(pc)
  PROVE  OpGoes(pc)
<1>1. op' = [op EXCEPT !.pc = pc]
  BY DEF Goes
<1>2. op' \in Calls /\ op'.pc = pc /\ op'.engine = op.engine /\ op'.link = op.link
  BY <1>1 DEF Calls
<1>3. QED
  BY <1>2, CallsExist DEF OpGoes

\* A transport that is replaced leaves the others alone.
LEMMA LinkMoves ==
  ASSUME TypeOK, NEW l \in Clients, NEW r \in Links, link' = [link EXCEPT ![l] = r]
  PROVE  /\ link' \in [Clients -> Links \cup {None}] /\ link'[l] = r /\ link'[l] # None
         /\ \A m \in Clients : m # l => link'[m] = link[m]
<1>1. link \in [Clients -> Links \cup {None}]
  BY DEF TypeOK
<1>2. r # None
  BY LinksExist
<1>3. QED
  BY <1>1, <1>2

\* A user that moves leaves the others alone.
LEMMA UserMoves ==
  ASSUME TypeOK, NEW u \in Users, NEW r \in Holdings, user' = [user EXCEPT ![u] = r]
  PROVE  UserBecame(u, r.pc, r.link)
BY DEF TypeOK, UserBecame

\* The sender is told to leave.
LEMMA StopDoes ==
  ASSUME TypeOK, Teardown, Stop
  PROVE  /\ op \in Calls /\ op # None /\ op.pc = "stop" /\ OpGoes("stop listener")
         /\ Became(op.link, link[op.link].sock, link[op.link].listener,
                         link[op.link].stopping, link[op.link].nudged, TRUE,
                         link[op.link].aborted)
         /\ UNCHANGED <<globals, engines, user, last, lost>>
<1>f. UNCHANGED <<globals, engines, user, last, lost>>
  BY DEF Stop, Goes
<1>1. op \in Calls /\ op # None /\ op.pc = "stop" /\ Goes("stop listener")
  BY DEF Stop, At, TypeOK
<1>2. op.link \in Clients /\ link[op.link] # None /\ link[op.link] \in Links
  BY <1>1 DEF Teardown, TypeOK, Calls
<1> DEFINE r == [link[op.link] EXCEPT !.stopped = TRUE]
<1>3. link' = [link EXCEPT ![op.link] = r]
  BY <1>1, <1>2 DEF Stop, TypeOK
<1>4. /\ r \in Links
      /\ r.sock = link[op.link].sock
      /\ r.listener = link[op.link].listener
      /\ r.stopping = link[op.link].stopping
      /\ r.nudged = link[op.link].nudged
      /\ r.stopped = TRUE
      /\ r.aborted = link[op.link].aborted
  BY <1>1, <1>2 DEF Links
<1> HIDE DEF r
<1>5. QED
  BY <1>f, <1>1, <1>2, <1>3, <1>4, LinkMoves, GoesOn DEF Became

\* The listener is told to leave.
LEMMA StopListenerDoes ==
  ASSUME TypeOK, Teardown, StopListener
  PROVE  /\ op \in Calls /\ op # None /\ op.pc = "stop listener" /\ OpGoes("wake")
         /\ Became(op.link, link[op.link].sock, link[op.link].listener, TRUE,
                         link[op.link].nudged, link[op.link].stopped,
                         link[op.link].aborted)
         /\ UNCHANGED <<globals, engines, user, last, lost>>
<1>f. UNCHANGED <<globals, engines, user, last, lost>>
  BY DEF StopListener, Goes
<1>1. op \in Calls /\ op # None /\ op.pc = "stop listener" /\ Goes("wake")
  BY DEF StopListener, At, TypeOK
<1>2. op.link \in Clients /\ link[op.link] # None /\ link[op.link] \in Links
  BY <1>1 DEF Teardown, TypeOK, Calls
<1> DEFINE r == [link[op.link] EXCEPT !.stopping = TRUE]
<1>3. link' = [link EXCEPT ![op.link] = r]
  BY <1>1, <1>2 DEF StopListener, TypeOK
<1>4. /\ r \in Links
      /\ r.sock = link[op.link].sock
      /\ r.listener = link[op.link].listener
      /\ r.stopping = TRUE
      /\ r.nudged = link[op.link].nudged
      /\ r.stopped = link[op.link].stopped
      /\ r.aborted = link[op.link].aborted
  BY <1>1, <1>2 DEF Links
<1> HIDE DEF r
<1>5. QED
  BY <1>f, <1>1, <1>2, <1>3, <1>4, LinkMoves, GoesOn DEF Became

\* The wake-up is sent.
LEMMA WakeDoes ==
  ASSUME TypeOK, Teardown, Wake
  PROVE  /\ op \in Calls /\ op # None /\ op.pc = "wake" /\ OpGoes("join")
         /\ Became(op.link, link[op.link].sock, link[op.link].listener,
                         link[op.link].stopping, TRUE, link[op.link].stopped,
                         link[op.link].aborted)
         /\ UNCHANGED <<globals, engines, user, last, lost>>
<1>f. UNCHANGED <<globals, engines, user, last, lost>>
  BY DEF Wake, Goes
<1>1. op \in Calls /\ op # None /\ op.pc = "wake" /\ Goes("join")
  BY DEF Wake, At, TypeOK
<1>2. op.link \in Clients /\ link[op.link] # None /\ link[op.link] \in Links
  BY <1>1 DEF Teardown, TypeOK, Calls
<1> DEFINE r == [link[op.link] EXCEPT !.nudged = TRUE]
<1>3. link' = [link EXCEPT ![op.link] = r]
  BY <1>1, <1>2 DEF Wake, TypeOK
<1>4. /\ r \in Links
      /\ r.sock = link[op.link].sock
      /\ r.listener = link[op.link].listener
      /\ r.stopping = link[op.link].stopping
      /\ r.nudged = TRUE
      /\ r.stopped = link[op.link].stopped
      /\ r.aborted = link[op.link].aborted
  BY <1>1, <1>2 DEF Links
<1> HIDE DEF r
<1>5. QED
  BY <1>f, <1>1, <1>2, <1>3, <1>4, LinkMoves, GoesOn DEF Became

\* The socket is closed.
LEMMA JoinDoes ==
  ASSUME TypeOK, Teardown, Join
  PROVE  /\ op \in Calls /\ op # None /\ op.pc = "join" /\ OpGoes("abort")
         /\ Became(op.link, "closed", link[op.link].listener,
                         link[op.link].stopping, link[op.link].nudged,
                         link[op.link].stopped, link[op.link].aborted)
         /\ UNCHANGED <<globals, engines, user, last, lost>>
<1>f. UNCHANGED <<globals, engines, user, last, lost>>
  BY DEF Join, Goes
<1>1. op \in Calls /\ op # None /\ op.pc = "join" /\ Goes("abort")
  BY DEF Join, At, TypeOK
<1>2. op.link \in Clients /\ link[op.link] # None /\ link[op.link] \in Links
  BY <1>1 DEF Teardown, TypeOK, Calls
<1> DEFINE r == [link[op.link] EXCEPT !.sock = "closed"]
<1>3. link' = [link EXCEPT ![op.link] = r]
  BY <1>1, <1>2 DEF Join, TypeOK
<1>4. /\ r \in Links
      /\ r.sock = "closed"
      /\ r.listener = link[op.link].listener
      /\ r.stopping = link[op.link].stopping
      /\ r.nudged = link[op.link].nudged
      /\ r.stopped = link[op.link].stopped
      /\ r.aborted = link[op.link].aborted
  BY <1>1, <1>2 DEF Links
<1> HIDE DEF r
<1>5. QED
  BY <1>f, <1>1, <1>2, <1>3, <1>4, LinkMoves, GoesOn DEF Became

\* The waits are ended.
LEMMA AbortDoes ==
  ASSUME TypeOK, Teardown, Abort
  PROVE  /\ op \in Calls /\ op # None /\ op.pc = "abort" /\ OpGoes("dispose")
         /\ Became(op.link, link[op.link].sock, link[op.link].listener,
                         link[op.link].stopping, link[op.link].nudged,
                         link[op.link].stopped, TRUE)
         /\ UNCHANGED <<globals, engines, last, lost>>
<1>f. UNCHANGED <<globals, engines, last, lost>>
  BY DEF Abort, Goes
<1>1. op \in Calls /\ op # None /\ op.pc = "abort" /\ Goes("dispose")
  BY DEF Abort, At, TypeOK
<1>2. op.link \in Clients /\ link[op.link] # None /\ link[op.link] \in Links
  BY <1>1 DEF Teardown, TypeOK, Calls
<1> DEFINE r == [link[op.link] EXCEPT !.aborted = TRUE]
<1>3. link' = [link EXCEPT ![op.link] = r]
  BY <1>1, <1>2 DEF Abort, TypeOK
<1>4. /\ r \in Links
      /\ r.sock = link[op.link].sock
      /\ r.listener = link[op.link].listener
      /\ r.stopping = link[op.link].stopping
      /\ r.nudged = link[op.link].nudged
      /\ r.stopped = link[op.link].stopped
      /\ r.aborted = TRUE
  BY <1>1, <1>2 DEF Links
<1> HIDE DEF r
<1>5. QED
  BY <1>f, <1>1, <1>2, <1>3, <1>4, LinkMoves, GoesOn DEF Became

\* A listener at its loop reads, or leaves.
LEMMA LoopDoes ==
  ASSUME TypeOK, NEW l \in Clients, Loop(l)
  PROVE  /\ link[l] # None /\ link[l].listener = "looping"
         /\ Became(l, link[l].sock,
                         IF link[l].stopping \/ link[l].sock = "closed" THEN "ended" ELSE "recv",
                         link[l].stopping, link[l].nudged, link[l].stopped,
                         link[l].aborted)
         /\ UNCHANGED <<globals, engines, op, last, user, lost>>
<1>f. UNCHANGED <<globals, engines, op, last, user, lost>>
  BY DEF Loop
<1>1. link[l] # None /\ link[l] \in Links /\ link[l].listener = "looping"
  BY DEF Loop, TypeOK
<1> DEFINE r == [link[l] EXCEPT !.listener =
                       IF link[l].stopping \/ link[l].sock = "closed" THEN "ended" ELSE "recv"]
<1>3. link' = [link EXCEPT ![l] = r]
  BY <1>1 DEF Loop, TypeOK
<1>4. /\ r \in Links
      /\ r.sock = link[l].sock
      /\ r.listener = IF link[l].stopping \/ link[l].sock = "closed" THEN "ended" ELSE "recv"
      /\ r.stopping = link[l].stopping
      /\ r.nudged = link[l].nudged
      /\ r.stopped = link[l].stopped
      /\ r.aborted = link[l].aborted
  BY <1>1 DEF Links
<1> HIDE DEF r
<1>5. QED
  BY <1>f, <1>1, <1>3, <1>4, LinkMoves DEF Became

\* A listener that reads comes back.
LEMMA RecvDoes ==
  ASSUME TypeOK, NEW l \in Clients, Recv(l)
  PROVE  /\ link[l] # None /\ link[l].listener = "recv"
         /\ Became(l, link[l].sock, Received(l), link[l].stopping, FALSE,
                         link[l].stopped, link[l].aborted)
         /\ UNCHANGED <<globals, engines, op, last, lost>>
<1>f. UNCHANGED <<globals, engines, op, last, lost>>
  BY DEF Recv
<1>1. link[l] # None /\ link[l] \in Links /\ link[l].listener = "recv"
  BY DEF Recv, TypeOK
<1> DEFINE r == [link[l] EXCEPT !.listener = Received(l), !.nudged = FALSE]
<1>3. link' = [link EXCEPT ![l] = r]
  BY <1>1 DEF Recv, TypeOK
<1>4. /\ r \in Links
      /\ r.sock = link[l].sock
      /\ r.listener = Received(l)
      /\ r.stopping = link[l].stopping
      /\ r.nudged = FALSE
      /\ r.stopped = link[l].stopped
      /\ r.aborted = link[l].aborted
  BY <1>1 DEF Links, Received
<1> HIDE DEF r
<1>5. QED
  BY <1>f, <1>1, <1>3, <1>4, LinkMoves DEF Became

\* A listener that was busy is at its loop again.
LEMMA TurnDoes ==
  ASSUME TypeOK, NEW l \in Clients, Turn(l)
  PROVE  /\ link[l] # None /\ link[l].listener = "busy"
         /\ Became(l, link[l].sock, "looping", link[l].stopping, link[l].nudged,
                         link[l].stopped, link[l].aborted)
         /\ UNCHANGED <<globals, engines, op, last, user, lost>>
<1>f. UNCHANGED <<globals, engines, op, last, user, lost>>
  BY DEF Turn
<1>1. link[l] # None /\ link[l] \in Links /\ link[l].listener = "busy"
  BY DEF Turn, TypeOK
<1> DEFINE r == [link[l] EXCEPT !.listener = "looping"]
<1>3. link' = [link EXCEPT ![l] = r]
  BY <1>1 DEF Turn, TypeOK
<1>4. /\ r \in Links
      /\ r.sock = link[l].sock
      /\ r.listener = "looping"
      /\ r.stopping = link[l].stopping
      /\ r.nudged = link[l].nudged
      /\ r.stopped = link[l].stopped
      /\ r.aborted = link[l].aborted
  BY <1>1 DEF Links
<1> HIDE DEF r
<1>5. QED
  BY <1>f, <1>1, <1>3, <1>4, LinkMoves DEF Became

\* A user that takes the transport takes the published one.
LEMMA GetLinkDoes ==
  ASSUME TypeOK, NEW u \in Users, GetLink(u)
  PROVE  /\ user[u].pc = "idle" /\ globals.anidb # None
         /\ UserBecame(u, "holds", globals.anidb)
         /\ UNCHANGED <<globals, engines, link, op, last, lost>>
<1>f. UNCHANGED <<globals, engines, link, op, last, lost>>
  BY DEF GetLink
<1>1. user[u].pc = "idle" /\ globals.anidb # None /\ user[u] \in Holdings
  BY DEF GetLink, TypeOK
<1> DEFINE r == [pc |-> "holds", link |-> globals.anidb]
<1>2. user' = [user EXCEPT ![u] = r]
  BY DEF GetLink, TypeOK
<1>3. r \in Holdings /\ r.pc = "holds" /\ r.link = globals.anidb
  BY <1>1 DEF Holdings, TypeOK
<1> HIDE DEF r
<1>4. QED
  BY <1>f, <1>1, <1>2, <1>3, UserMoves

\* A request on a stopped transport is heard by nobody.
LEMMA RequestDoes ==
  ASSUME TypeOK, NEW u \in Users, Request(u)
  PROVE  /\ user[u].pc = "holds"
         /\ UserBecame(u, IF link[user[u].link].aborted THEN "unheard" ELSE "queued", user[u].link)
         /\ UNCHANGED <<globals, engines, link, op, last, lost>>
<1>f. UNCHANGED <<globals, engines, link, op, last, lost>>
  BY DEF Request
<1>1. user[u].pc = "holds" /\ user[u] \in Holdings
  BY DEF Request, TypeOK
<1> DEFINE r == [user[u] EXCEPT !.pc = IF link[user[u].link].aborted THEN "unheard" ELSE "queued"]
<1>2. user' = [user EXCEPT ![u] = r]
  BY DEF Request, TypeOK
<1>3. /\ r \in Holdings /\ r.link = user[u].link
      /\ r.pc = (IF link[user[u].link].aborted THEN "unheard" ELSE "queued")
  BY <1>1 DEF Holdings, TypeOK
<1> HIDE DEF r
<1>4. QED
  BY <1>f, <1>1, <1>2, <1>3, UserMoves

\* A request that leaves is still waited for.
LEMMA SendDoes ==
  ASSUME TypeOK, NEW u \in Users, Send(u)
  PROVE  /\ user[u].pc = "queued"
         /\ UserBecame(u, "sent", user[u].link)
         /\ UNCHANGED <<globals, engines, link, op, last, lost>>
<1>f. UNCHANGED <<globals, engines, link, op, last, lost>>
  BY DEF Send
<1>1. user[u].pc = "queued" /\ user[u] \in Holdings
  BY DEF Send, TypeOK
<1> DEFINE r == [user[u] EXCEPT !.pc = "sent"]
<1>2. user' = [user EXCEPT ![u] = r]
  BY DEF Send, TypeOK
<1>3. r \in Holdings /\ r.pc = "sent" /\ r.link = user[u].link
  BY <1>1 DEF Holdings, TypeOK
<1> HIDE DEF r
<1>4. QED
  BY <1>f, <1>1, <1>2, <1>3, UserMoves

\* A wait that is given up is over.
LEMMA GiveUpDoes ==
  ASSUME TypeOK, NEW u \in Users, GiveUp(u)
  PROVE  /\ user[u].pc = "unheard"
         /\ UserBecame(u, "holds", user[u].link)
         /\ UNCHANGED <<globals, engines, link, op, last, lost>>
<1>f. UNCHANGED <<globals, engines, link, op, last, lost>>
  BY DEF GiveUp
<1>1. user[u].pc = "unheard" /\ user[u] \in Holdings
  BY DEF GiveUp, TypeOK
<1> DEFINE r == [user[u] EXCEPT !.pc = "holds"]
<1>2. user' = [user EXCEPT ![u] = r]
  BY DEF GiveUp, TypeOK
<1>3. r \in Holdings /\ r.pc = "holds" /\ r.link = user[u].link
  BY <1>1 DEF Holdings, TypeOK
<1> HIDE DEF r
<1>4. QED
  BY <1>f, <1>1, <1>2, <1>3, UserMoves

\* A user that lets go holds nothing.
LEMMA DropDoes ==
  ASSUME TypeOK, NEW u \in Users, Drop(u)
  PROVE  /\ user[u].pc = "holds"
         /\ UserBecame(u, "idle", None)
         /\ UNCHANGED <<globals, engines, link, op, last, lost>>
<1>f. UNCHANGED <<globals, engines, link, op, last, lost>>
  BY DEF Drop
<1>1. user[u].pc = "holds" /\ user[u] \in Holdings
  BY DEF Drop, TypeOK
<1> DEFINE r == [pc |-> "idle", link |-> None]
<1>2. user' = [user EXCEPT ![u] = r]
  BY DEF Drop, TypeOK
<1>3. r \in Holdings /\ r.pc = "idle" /\ r.link = None
  BY <1>1 DEF Holdings, TypeOK
<1> HIDE DEF r
<1>4. QED
  BY <1>f, <1>1, <1>2, <1>3, UserMoves

\* A call under way is a call.
LEMMA UnderWay == ASSUME TypeOK, NEW pc, At(pc) PROVE op \in Calls /\ op # None /\ op.pc = pc
BY DEF TypeOK, At

\* The call under way goes to the step pc with engine and link in hand.
Holds(pc, engine, l) ==
  /\ op' \in Calls /\ op' # None
  /\ op'.pc = pc /\ op'.engine = engine /\ op'.link = l
  /\ pc \in {"cache", "build"} => op'.port \in Ports

\* An init() that is not refused begins with nothing in hand.
LEMMA InitCallDoes ==
  ASSUME TypeOK, NEW dbOnly \in BOOLEAN, NEW port \in Ports, InitCall(dbOnly, port)
  PROVE  /\ op = None
         /\ op' = None \/ (globals.factory = None /\ Holds("cache", None, None))
         /\ last' \in {last, "already", "refused"}
         /\ UNCHANGED <<globals, engines, link, user, lost>>
<1>f. UNCHANGED <<globals, engines, link, user, lost>>
  BY DEF InitCall
<1> DEFINE c == [pc |-> "cache", engine |-> None, link |-> None,
                 dbOnly |-> dbOnly, port |-> port, failed |-> FALSE]
<1>1. op = None /\ (op' = None \/ (globals.factory = None /\ op' = c))
  BY DEF InitCall
<1>l. last' \in {last, "already", "refused"}
  BY DEF InitCall
<1>2. c \in Calls /\ c.pc = "cache" /\ c.engine = None /\ c.link = None /\ c.port \in Ports
  BY DEF Calls
<1> HIDE DEF c
<1>3. QED
  BY <1>f, <1>1, <1>l, <1>2, CallsExist DEF Holds

\* init_db() leaves the call with an engine, or without the call.
LEMMA OpenCacheDoes ==
  ASSUME TypeOK, Phases, OpenCache
  PROVE  /\ op \in Calls /\ op # None /\ op.pc = "cache"
         /\ \/ op' = None /\ last' = "raised" /\ engines' = engines /\ lost' = lost
            \/ \E e \in Clients :
                 \/ /\ engines' = engines \cup {e} /\ lost' = lost /\ last' = last
                    /\ Holds("publish", e, op.link) \/ Holds("build", e, op.link)
                 \/ /\ op' = None /\ last' = "raised"
                    /\ lost = {} /\ engines' = engines \cup {e} /\ lost' = {e}
         /\ UNCHANGED <<globals, link, user>>
<1>f. UNCHANGED <<globals, link, user>>
  BY DEF OpenCache
<1>1. op \in Calls /\ op # None /\ op.pc = "cache" /\ op.port \in Ports
  BY UnderWay DEF OpenCache, Phases
<1>2. CASE Returns("raised") /\ UNCHANGED <<engines, lost>>
  BY <1>1, <1>f, <1>2 DEF Returns
<1>3. ASSUME NEW e \in Fresh, engines' = engines \cup {e}, UNCHANGED <<last, lost>>,
             op' = [op EXCEPT !.engine = e, !.pc = IF op.dbOnly THEN "publish" ELSE "build"]
      PROVE  Holds("publish", e, op.link) \/ Holds("build", e, op.link)
  <2>1. /\ op' \in Calls /\ op'.pc \in {"publish", "build"} /\ op'.engine = e
        /\ op'.link = op.link /\ op'.port \in Ports
    BY <1>1, <1>3 DEF Calls, Fresh
  <2>2. QED
    BY <2>1, CallsExist DEF Holds
<1>4. ASSUME NEW e \in Fresh, lost = {}, engines' = engines \cup {e}, lost' = {e},
             Returns("raised")
      PROVE  op' = None /\ last' = "raised"
  BY <1>4 DEF Returns
<1>5. Fresh \subseteq Clients
  BY DEF Fresh
<1>6. QED
  BY <1>f, <1>1, <1>2, <1>3, <1>4, <1>5 DEF OpenCache, Returns

\* A transport that was built is live; a call that could not build it has given its
\* engine back.
LEMMA BuildLinkDoes ==
  ASSUME TypeOK, Phases, BuildLink
  PROVE  /\ op \in Calls /\ op # None /\ op.pc = "build"
         /\ \/ /\ op' = None /\ last' = "raised" /\ engines' = engines \ {op.engine}
               /\ link' = link /\ lost' = lost
            \/ \E l \in Clients :
                 /\ link' \in [Clients -> Links \cup {None}]
                 /\ link'[l] # None
                 /\ link'[l].sock = "open" /\ link'[l].listener = "looping"
                 /\ ~link'[l].stopping /\ ~link'[l].stopped /\ ~link'[l].aborted
                 /\ \A m \in Clients : m # l => link'[m] = link[m]
                 /\ \/ /\ Holds("publish", op.engine, l)
                       /\ engines' = engines /\ last' = last /\ lost' = lost
                    \/ /\ op' = None /\ last' = "raised"
                       /\ lost = {} /\ lost' = {l} /\ engines' = engines \ {op.engine}
         /\ UNCHANGED <<globals, user>>
<1>f. UNCHANGED <<globals, user>>
  BY DEF BuildLink
<1>1. op \in Calls /\ op # None /\ op.pc = "build" /\ op.port \in Ports
  BY UnderWay DEF BuildLink, Phases
<1>2. CASE engines' = engines \ {op.engine} /\ Returns("raised") /\ UNCHANGED <<link, lost>>
  BY <1>1, <1>f, <1>2 DEF Returns
<1>3. CASE ~(engines' = engines \ {op.engine} /\ Returns("raised") /\ UNCHANGED <<link, lost>>)
  <2> DEFINE r == NewLink(op.port)
  <2>1. PICK l \in Fresh :
          /\ link' = [link EXCEPT ![l] = r]
          /\ \/ /\ op' = [op EXCEPT !.link = l, !.pc = "publish"]
                /\ UNCHANGED <<engines, last, lost>>
             \/ /\ lost = {} /\ lost' = {l}
                /\ engines' = engines \ {op.engine}
                /\ Returns("raised")
    BY <1>3 DEF BuildLink
  <2>2. l \in Clients
    BY DEF Fresh
  <2>3. /\ r \in Links /\ r.sock = "open" /\ r.listener = "looping"
        /\ ~r.stopping /\ ~r.stopped /\ ~r.aborted
    BY <1>1 DEF NewLink, Links
  <2> HIDE DEF r
  <2>4. /\ link' \in [Clients -> Links \cup {None}] /\ link'[l] = r /\ link'[l] # None
        /\ \A m \in Clients : m # l => link'[m] = link[m]
    BY <2>1, <2>2, <2>3, LinkMoves
  <2>5. ASSUME op' = [op EXCEPT !.link = l, !.pc = "publish"]
        PROVE  Holds("publish", op.engine, l)
    <3>1. op' \in Calls /\ op'.pc = "publish" /\ op'.engine = op.engine /\ op'.link = l
      BY <1>1, <2>2, <2>5 DEF Calls
    <3>2. QED
      BY <3>1, CallsExist DEF Holds
  <2>6. QED
    BY <1>1, <1>f, <2>1, <2>2, <2>3, <2>4, <2>5 DEF Returns
<1>4. QED
  BY <1>f, <1>2, <1>3

\* close() begins by taking the transport.
LEMMA CloseDoes ==
  ASSUME TypeOK, Close
  PROVE  /\ op = None /\ Holds("clear", None, globals.anidb)
         /\ GlobalsBecame(globals.engine, globals.factory, None)
         /\ UNCHANGED <<engines, link, last, user, lost>>
<1>f. /\ globals' = [globals EXCEPT !.anidb = None]
      /\ UNCHANGED <<engines, link, last, user, lost>>
  BY DEF Close
<1> DEFINE c == [pc |-> "clear", engine |-> None, link |-> globals.anidb,
                 dbOnly |-> FALSE, port |-> None, failed |-> FALSE]
<1>1. op = None /\ op' = c
  BY DEF Close
<1>2. c \in Calls /\ c.pc = "clear" /\ c.engine = None /\ c.link = globals.anidb
  BY DEF Calls, TypeOK
<1> HIDE DEF c
<1>3. GlobalsBecame(globals.engine, globals.factory, None)
  BY <1>f DEF TypeOK, GlobalsBecame
<1>4. QED
  BY <1>f, <1>1, <1>2, <1>3, CallsExist DEF Holds

\* Then it takes the engine, and goes on to whichever of the two it has to end.
LEMMA CloseCacheDoes ==
  ASSUME TypeOK, CloseCache
  PROVE  /\ op \in Calls /\ op # None /\ op.pc = "clear"
         /\ Holds(IF op.link = None THEN "dispose" ELSE "logout", globals.engine, op.link)
         /\ GlobalsBecame(None, None, globals.anidb)
         /\ UNCHANGED <<engines, link, last, user, lost>>
<1>f. /\ globals' = [globals EXCEPT !.engine = None, !.factory = None]
      /\ UNCHANGED <<engines, link, last, user, lost>>
  BY DEF CloseCache
<1> DEFINE pc == IF op.link = None THEN "dispose" ELSE "logout"
<1>1. op \in Calls /\ op # None /\ op.pc = "clear"
  BY UnderWay DEF CloseCache
<1>2. op' = [op EXCEPT !.engine = globals.engine, !.pc = pc]
  BY DEF CloseCache
<1>3. pc \in {"dispose", "logout"} /\ globals.engine \in Clients \cup {None}
  BY DEF TypeOK
<1> HIDE DEF pc
<1>4. op' \in Calls /\ op'.pc = pc /\ op'.engine = globals.engine /\ op'.link = op.link
  BY <1>1, <1>2, <1>3 DEF Calls
<1>5. Holds(pc, globals.engine, op.link)
  BY <1>3, <1>4, CallsExist DEF Holds
<1>6. GlobalsBecame(None, None, globals.anidb)
  BY <1>f DEF TypeOK, GlobalsBecame
<1>7. QED
  BY <1>f, <1>1, <1>5, <1>6 DEF pc

\* The logout comes to an end, one way or another.
LEMMA LogoutDoes ==
  ASSUME TypeOK, Logout
  PROVE  /\ op \in Calls /\ op # None /\ op.pc = "logout" /\ OpGoes("stop")
         /\ UNCHANGED <<globals, engines, link, last, user, lost>>
<1>f. UNCHANGED <<globals, engines, link, last, user, lost>>
  BY DEF Logout
<1>1. op \in Calls /\ op # None /\ op.pc = "logout"
  BY UnderWay DEF Logout
<1>2. PICK failed \in BOOLEAN : op' = [op EXCEPT !.pc = "stop", !.failed = failed]
  BY DEF Logout
<1>3. op' \in Calls /\ op'.pc = "stop" /\ op'.engine = op.engine /\ op'.link = op.link
  BY <1>1, <1>2 DEF Calls
<1>4. QED
  BY <1>f, <1>1, <1>3, CallsExist DEF OpGoes

\* Publishing the cache sets its two globals.
LEMMA PublishDoes ==
  ASSUME TypeOK, Publish
  PROVE  /\ op \in Calls /\ op # None /\ op.pc = "publish" /\ OpGoes("publish link")
         /\ GlobalsBecame(op.engine, op.engine, globals.anidb)
         /\ UNCHANGED <<engines, link, last, user, lost>>
<1>f. UNCHANGED <<engines, link, last, user, lost>>
  BY DEF Publish, Goes
<1>1. op \in Calls /\ op # None /\ op.pc = "publish" /\ Goes("publish link")
  BY UnderWay DEF Publish
<1>2. op.engine \in Clients \cup {None}
  BY <1>1 DEF Calls
<1>3. GlobalsBecame(op.engine, op.engine, globals.anidb)
  BY <1>2 DEF Publish, TypeOK, GlobalsBecame
<1>4. QED
  BY <1>f, <1>1, <1>3, GoesOn

\* The transport is published last.
LEMMA PublishLinkDoes ==
  ASSUME TypeOK, PublishLink
  PROVE  /\ op \in Calls /\ op # None /\ op.pc = "publish link" /\ op' = None
         /\ GlobalsBecame(globals.engine, globals.factory, op.link) /\ last' = "done"
         /\ UNCHANGED <<engines, link, user, lost>>
<1>1. /\ op \in Calls /\ op # None /\ op.pc = "publish link" /\ op' = None
      /\ last' = "done" /\ UNCHANGED <<engines, link, user, lost>>
  BY UnderWay DEF PublishLink, Returns
<1>2. op.link \in Clients \cup {None}
  BY <1>1 DEF Calls
<1>3. GlobalsBecame(globals.engine, globals.factory, op.link)
  BY <1>2 DEF PublishLink, TypeOK, GlobalsBecame
<1>4. QED
  BY <1>1, <1>3

\* Whatever has become of the transport, the engine is disposed.
LEMMA DisposeDoes ==
  ASSUME TypeOK, Dispose
  PROVE  /\ op \in Calls /\ op # None /\ op.pc = "dispose" /\ op' = None
         /\ engines' = engines \ {op.engine} /\ last' \in {"done", "raised"}
         /\ UNCHANGED <<globals, link, user, lost>>
BY UnderWay DEF Dispose, Returns

\* An end of the waits on a transport is one of all of them.
LEMMA AbortTells ==
  ASSUME TypeOK, Abort
  PROVE  /\ user' \in [Users -> Holdings]
         /\ \A u \in Users :
              /\ user'[u].link = user[u].link
              /\ user'[u].pc = IF user[u].link = op.link /\ user[u].pc \in {"queued", "sent"}
                                 THEN "holds" ELSE user[u].pc
<1>1. ASSUME NEW u \in Users
      PROVE  /\ user'[u] \in Holdings /\ user'[u].link = user[u].link
             /\ user'[u].pc = IF user[u].link = op.link /\ user[u].pc \in {"queued", "sent"}
                                THEN "holds" ELSE user[u].pc
  <2>1. user[u] \in Holdings
    BY DEF TypeOK
  <2>2. user'[u] = IF user[u].link = op.link /\ user[u].pc \in {"queued", "sent"}
                     THEN [user[u] EXCEPT !.pc = "holds"] ELSE user[u]
    BY DEF Abort
  <2>3. QED
    BY <2>1, <2>2 DEF Holdings
<1>2. user' = [u \in Users |-> user'[u]]
  BY DEF Abort
<1>3. QED
  BY <1>1, <1>2

\* A reply ends one wait at most, and begins none.
LEMMA RecvTells ==
  ASSUME TypeOK, NEW l \in Clients, Recv(l)
  PROVE  /\ user' \in [Users -> Holdings]
         /\ \A u \in Users :
              /\ user'[u].link = user[u].link
              /\ user'[u].pc = user[u].pc \/ (user[u].pc = "sent" /\ user'[u].pc = "holds")
<1>1. CASE user' = user
  <2>1. user' \in [Users -> Holdings]
    BY <1>1 DEF TypeOK
  <2>2. QED
    BY <1>1, <2>1
<1>2. ASSUME NEW v \in Users, user[v].pc = "sent", user' = [user EXCEPT ![v].pc = "holds"]
      PROVE  /\ user' \in [Users -> Holdings]
             /\ \A u \in Users :
                  /\ user'[u].link = user[u].link
                  /\ user'[u].pc = user[u].pc \/ (user[u].pc = "sent" /\ user'[u].pc = "holds")
  <2> DEFINE r == [user[v] EXCEPT !.pc = "holds"]
  <2>1. user' = [user EXCEPT ![v] = r]
    BY <1>2
  <2>2. r \in Holdings /\ r.pc = "holds" /\ r.link = user[v].link
    BY DEF Holdings, TypeOK
  <2> HIDE DEF r
  <2>3. UserBecame(v, "holds", user[v].link)
    BY <2>1, <2>2, UserMoves
  <2>4. ASSUME NEW u \in Users
        PROVE  /\ user'[u].link = user[u].link
               /\ user'[u].pc = user[u].pc \/ (user[u].pc = "sent" /\ user'[u].pc = "holds")
    <3>1. CASE u = v
      BY <1>2, <2>3, <3>1 DEF UserBecame
    <3>2. CASE u # v
      BY <2>3, <3>2 DEF UserBecame
    <3>3. QED
      BY <3>1, <3>2
  <2>5. QED
    BY <2>3, <2>4 DEF UserBecame
<1>3. QED
  BY <1>1, <1>2 DEF Recv

-----------------------------------------------------------------------------
(* Every step keeps the invariant *)

\* Every step keeps the types.
LEMMA TypeStep == IInv /\ [Next]_vars => TypeOK'
<1> SUFFICES ASSUME IInv, [Next]_vars PROVE TypeOK'
  OBVIOUS
<1>t. TypeOK /\ Phases /\ Teardown
  BY DEF IInv
<1>1. ASSUME NEW dbOnly \in BOOLEAN, NEW port \in Ports, InitCall(dbOnly, port)
      PROVE  TypeOK'
  BY <1>1, <1>t, InitCallDoes DEF Holds, TypeOK
<1>2. CASE OpenCache
  BY <1>2, <1>t, OpenCacheDoes DEF Holds, TypeOK
<1>3. CASE BuildLink
  BY <1>3, <1>t, BuildLinkDoes DEF Holds, TypeOK
<1>4. CASE Publish
  BY <1>4, <1>t, PublishDoes DEF OpGoes, GlobalsBecame, TypeOK
<1>5. CASE PublishLink
  BY <1>5, <1>t, PublishLinkDoes DEF GlobalsBecame, TypeOK
<1>6. CASE Close
  BY <1>6, <1>t, CloseDoes DEF Holds, GlobalsBecame, TypeOK
<1>7. CASE CloseCache
  BY <1>7, <1>t, CloseCacheDoes DEF Holds, GlobalsBecame, TypeOK
<1>8. CASE Logout
  BY <1>8, <1>t, LogoutDoes DEF OpGoes, TypeOK
<1>9. CASE Stop
  <2>1. link' \in [Clients -> Links \cup {None}] /\ op' \in Calls
    BY <1>9, <1>t, StopDoes DEF Became, OpGoes
  <2>2. UNCHANGED <<globals, engines, user, last, lost>>
    BY <1>9, <1>t, StopDoes
  <2>3. QED
    BY <1>t, <2>1, <2>2 DEF TypeOK
<1>10. CASE StopListener
  <2>1. link' \in [Clients -> Links \cup {None}] /\ op' \in Calls
    BY <1>10, <1>t, StopListenerDoes DEF Became, OpGoes
  <2>2. UNCHANGED <<globals, engines, user, last, lost>>
    BY <1>10, <1>t, StopListenerDoes
  <2>3. QED
    BY <1>t, <2>1, <2>2 DEF TypeOK
<1>11. CASE Wake
  <2>1. link' \in [Clients -> Links \cup {None}] /\ op' \in Calls
    BY <1>11, <1>t, WakeDoes DEF Became, OpGoes
  <2>2. UNCHANGED <<globals, engines, user, last, lost>>
    BY <1>11, <1>t, WakeDoes
  <2>3. QED
    BY <1>t, <2>1, <2>2 DEF TypeOK
<1>12. CASE Join
  <2>1. link' \in [Clients -> Links \cup {None}] /\ op' \in Calls
    BY <1>12, <1>t, JoinDoes DEF Became, OpGoes
  <2>2. UNCHANGED <<globals, engines, user, last, lost>>
    BY <1>12, <1>t, JoinDoes
  <2>3. QED
    BY <1>t, <2>1, <2>2 DEF TypeOK
<1>13. CASE Abort
  <2>1. /\ link' \in [Clients -> Links \cup {None}] /\ user' \in [Users -> Holdings]
        /\ op' \in Calls
        /\ \A u \in Users : user'[u].link = user[u].link
        /\ \A u \in Users : user'[u].pc = "idle" <=> user[u].pc = "idle"
    BY <1>13, <1>t, AbortDoes, AbortTells DEF Became, OpGoes
  <2>2. QED
    BY <1>13, <1>t, <2>1, AbortDoes DEF TypeOK
<1>14. CASE Dispose
  BY <1>14, <1>t, DisposeDoes DEF TypeOK
<1>15. ASSUME NEW l \in Clients, Loop(l) PROVE TypeOK'
  BY <1>15, <1>t, LoopDoes DEF Became, TypeOK
<1>16. ASSUME NEW l \in Clients, Recv(l) PROVE TypeOK'
  <2>1. /\ link' \in [Clients -> Links \cup {None}] /\ user' \in [Users -> Holdings]
        /\ \A u \in Users : user'[u].link = user[u].link
        /\ \A u \in Users : user'[u].pc = "idle" <=> user[u].pc = "idle"
    BY <1>16, <1>t, RecvDoes, RecvTells DEF Became
  <2>2. QED
    BY <1>16, <1>t, <2>1, RecvDoes DEF TypeOK
<1>17. ASSUME NEW l \in Clients, Turn(l) PROVE TypeOK'
  BY <1>17, <1>t, TurnDoes DEF Became, TypeOK
<1>18. ASSUME NEW u \in Users, GetLink(u) PROVE TypeOK'
  BY <1>18, <1>t, GetLinkDoes DEF UserBecame, TypeOK
<1>19. ASSUME NEW u \in Users, Request(u) PROVE TypeOK'
  BY <1>19, <1>t, RequestDoes DEF UserBecame, TypeOK
<1>20. ASSUME NEW u \in Users, Send(u) PROVE TypeOK'
  BY <1>20, <1>t, SendDoes DEF UserBecame, TypeOK
<1>21. ASSUME NEW u \in Users, GiveUp(u) PROVE TypeOK'
  BY <1>21, <1>t, GiveUpDoes DEF UserBecame, TypeOK
<1>22. ASSUME NEW u \in Users, Drop(u) PROVE TypeOK'
  BY <1>22, <1>t, DropDoes DEF UserBecame, TypeOK
<1>23. CASE UNCHANGED vars
  BY <1>23, <1>t DEF vars, TypeOK
<1>24. QED
  BY <1>1, <1>2, <1>3, <1>4, <1>5, <1>6, <1>7, <1>8, <1>9, <1>10, <1>11, <1>12, <1>13,
     <1>14, <1>15, <1>16, <1>17, <1>18, <1>19, <1>20, <1>21, <1>22, <1>23 DEF Next

\* Every step keeps the globals and the step of the call in accord.
LEMMA PhasesStep == IInv /\ [Next]_vars => Phases'
<1> SUFFICES ASSUME IInv, [Next]_vars PROVE Phases'
  OBVIOUS
<1>t. TypeOK /\ Phases /\ Teardown
  BY DEF IInv
<1>1. ASSUME NEW dbOnly \in BOOLEAN, NEW port \in Ports, InitCall(dbOnly, port)
      PROVE  Phases'
  BY <1>1, <1>t, InitCallDoes DEF Holds, TypeOK, Phases
<1>2. CASE OpenCache
  <2>1. /\ op.pc = "cache" /\ op # None /\ globals' = globals
        /\ op' = None \/ \E e \in Clients :
                           Holds("publish", e, op.link) \/ Holds("build", e, op.link)
    BY <1>2, <1>t, OpenCacheDoes
  <2>2. /\ globals.factory = None /\ globals.engine = None /\ globals.anidb = None
        /\ op.link = None
    BY <1>t, <2>1 DEF Phases
  <2>3. CASE op' = None
    BY <2>1, <2>2, <2>3 DEF Phases
  <2>4. ASSUME NEW e \in Clients, Holds("publish", e, op.link) \/ Holds("build", e, op.link)
        PROVE  Phases'
    <3>1. e # None
      BY LifecycleAssumption
    <3>2. QED
      BY <2>1, <2>2, <2>4, <3>1 DEF Phases, Holds
  <2>5. QED
    BY <2>1, <2>3, <2>4
<1>3. CASE BuildLink
  BY <1>3, <1>t, BuildLinkDoes DEF Holds, TypeOK, Phases
<1>4. CASE Publish
  BY <1>4, <1>t, PublishDoes DEF OpGoes, GlobalsBecame, TypeOK, Phases
<1>5. CASE PublishLink
  BY <1>5, <1>t, PublishLinkDoes DEF GlobalsBecame, TypeOK, Phases
<1>6. CASE Close
  BY <1>6, <1>t, CloseDoes DEF Holds, GlobalsBecame, TypeOK, Phases
<1>7. CASE CloseCache
  BY <1>7, <1>t, CloseCacheDoes DEF Holds, GlobalsBecame, TypeOK, Phases
<1>8. CASE Logout
  BY <1>8, <1>t, LogoutDoes DEF OpGoes, TypeOK, Phases
<1>9. CASE Stop
  BY <1>9, <1>t, StopDoes DEF Became, OpGoes, TypeOK, Phases
<1>10. CASE StopListener
  BY <1>10, <1>t, StopListenerDoes DEF Became, OpGoes, TypeOK, Phases
<1>11. CASE Wake
  BY <1>11, <1>t, WakeDoes DEF Became, OpGoes, TypeOK, Phases
<1>12. CASE Join
  BY <1>12, <1>t, JoinDoes DEF Became, OpGoes, TypeOK, Phases
<1>13. CASE Abort
  BY <1>13, <1>t, AbortDoes DEF Became, OpGoes, TypeOK, Phases
<1>14. CASE Dispose
  BY <1>14, <1>t, DisposeDoes DEF TypeOK, Phases
<1>15. ASSUME NEW l \in Clients, Loop(l) PROVE Phases'
  BY <1>15, <1>t, LoopDoes DEF Became, TypeOK, Phases
<1>16. ASSUME NEW l \in Clients, Recv(l) PROVE Phases'
  BY <1>16, <1>t, RecvDoes DEF Became, TypeOK, Phases
<1>17. ASSUME NEW l \in Clients, Turn(l) PROVE Phases'
  BY <1>17, <1>t, TurnDoes DEF Became, TypeOK, Phases
<1>18. ASSUME NEW u \in Users, GetLink(u) PROVE Phases'
  BY <1>18, <1>t, GetLinkDoes DEF TypeOK, Phases
<1>19. ASSUME NEW u \in Users, Request(u) PROVE Phases'
  BY <1>19, <1>t, RequestDoes DEF TypeOK, Phases
<1>20. ASSUME NEW u \in Users, Send(u) PROVE Phases'
  BY <1>20, <1>t, SendDoes DEF TypeOK, Phases
<1>21. ASSUME NEW u \in Users, GiveUp(u) PROVE Phases'
  BY <1>21, <1>t, GiveUpDoes DEF TypeOK, Phases
<1>22. ASSUME NEW u \in Users, Drop(u) PROVE Phases'
  BY <1>22, <1>t, DropDoes DEF TypeOK, Phases
<1>23. CASE UNCHANGED vars
  BY <1>23, <1>t DEF vars, TypeOK, Phases
<1>24. QED
  BY <1>1, <1>2, <1>3, <1>4, <1>5, <1>6, <1>7, <1>8, <1>9, <1>10, <1>11, <1>12, <1>13,
     <1>14, <1>15, <1>16, <1>17, <1>18, <1>19, <1>20, <1>21, <1>22, <1>23 DEF Next

\* Every step keeps the transport in hand where its call expects it.
LEMMA TeardownStep == IInv /\ [Next]_vars => Teardown'
<1> SUFFICES ASSUME IInv, [Next]_vars PROVE Teardown'
  OBVIOUS
<1>t. TypeOK /\ Phases /\ Teardown /\ GetLinkIsLive
  BY DEF IInv
<1>1. ASSUME NEW dbOnly \in BOOLEAN, NEW port \in Ports, InitCall(dbOnly, port)
      PROVE  Teardown'
  BY <1>1, <1>t, InitCallDoes DEF Holds, Phases, Teardown, Live
<1>2. CASE OpenCache
  BY <1>2, <1>t, OpenCacheDoes DEF Holds, Phases, Teardown, Live
<1>3. CASE BuildLink
  BY <1>3, <1>t, BuildLinkDoes DEF Holds, Phases, Teardown, Live
<1>4. CASE Publish
  BY <1>4, <1>t, PublishDoes DEF OpGoes, GlobalsBecame, Phases, Teardown, Live
<1>5. CASE PublishLink
  BY <1>5, <1>t, PublishLinkDoes DEF GlobalsBecame, Phases, Teardown, Live
<1>6. CASE Close
  BY <1>6, <1>t, CloseDoes DEF Holds, GlobalsBecame, Phases, Teardown, Live, GetLinkIsLive
<1>7. CASE CloseCache
  BY <1>7, <1>t, CloseCacheDoes DEF Holds, GlobalsBecame, Phases, Teardown, Live
<1>8. CASE Logout
  BY <1>8, <1>t, LogoutDoes DEF OpGoes, Phases, Teardown, Live
<1>9. CASE Stop
  BY <1>9, <1>t, StopDoes DEF Became, OpGoes, Phases, Teardown, Live
<1>10. CASE StopListener
  BY <1>10, <1>t, StopListenerDoes DEF Became, OpGoes, Phases, Teardown, Live
<1>11. CASE Wake
  BY <1>11, <1>t, WakeDoes DEF Became, OpGoes, Phases, Teardown, Live
<1>12. CASE Join
  BY <1>12, <1>t, JoinDoes DEF Became, OpGoes, Phases, Teardown, Live
<1>13. CASE Abort
  BY <1>13, <1>t, AbortDoes DEF Became, OpGoes, Phases, Teardown, Live
<1>14. CASE Dispose
  BY <1>14, <1>t, DisposeDoes DEF Phases, Teardown, Live
<1>15. ASSUME NEW l \in Clients, Loop(l) PROVE Teardown'
  <2>1. CASE op = None
    BY <1>15, <1>t, <2>1, LoopDoes DEF Teardown
  <2>2. CASE op # None /\ op.link # l
    <3>1. op.link # None => op.link \in Clients
      BY <1>t, <2>2 DEF TypeOK, Calls
    <3>2. op' = op /\ (op.link # None => link'[op.link] = link[op.link])
      BY <1>15, <1>t, <2>2, <3>1, LoopDoes DEF Became
    <3>3. QED
      BY <1>t, <2>2, <3>2 DEF Teardown, Live
  <2>3. CASE op # None /\ op.link = l
    <3>1. /\ op' = op /\ link'[l] # None /\ link'[l].sock = link[l].sock
          /\ link'[l].stopping = link[l].stopping /\ link'[l].stopped = link[l].stopped
      BY <1>15, <1>t, LoopDoes DEF Became
    <3>2. op.pc = "join" => link[l].stopping
      BY <1>15, <1>t, <2>3, LoopDoes DEF Teardown
    <3>3. op.pc = "join" => link'[l].listener # "recv"
      BY <1>15, <1>t, <2>3, <3>2, LoopDoes DEF Became
    <3>4. op.pc \in {"publish", "publish link"} => link'[l].listener # "ended"
      <4>1. ASSUME op.pc \in {"publish", "publish link"}
            PROVE  link[l].sock = "open" /\ ~link[l].stopping
        BY <1>t, <2>3, <4>1, LifecycleAssumption DEF Teardown, Live
      <4>2. QED
        BY <1>15, <1>t, <4>1, LoopDoes DEF Became
    <3>5. QED
      BY <1>15, <1>t, <2>3, <3>1, <3>2, <3>3, <3>4, LoopDoes DEF Teardown, Live
  <2>4. QED
    BY <2>1, <2>2, <2>3
<1>16. ASSUME NEW l \in Clients, Recv(l) PROVE Teardown'
  <2>1. CASE op = None
    BY <1>16, <1>t, <2>1, RecvDoes DEF Teardown
  <2>2. CASE op # None /\ op.link # l
    <3>1. op.link # None => op.link \in Clients
      BY <1>t, <2>2 DEF TypeOK, Calls
    <3>2. op' = op /\ (op.link # None => link'[op.link] = link[op.link])
      BY <1>16, <1>t, <2>2, <3>1, RecvDoes DEF Became
    <3>3. QED
      BY <1>t, <2>2, <3>2 DEF Teardown, Live
  <2>3. CASE op # None /\ op.link = l
    <3>1. /\ op' = op /\ link'[l] # None /\ link'[l].sock = link[l].sock
          /\ link'[l].stopping = link[l].stopping /\ link'[l].stopped = link[l].stopped
      BY <1>16, <1>t, RecvDoes DEF Became
    <3>2. op.pc = "join" => link[l].stopping
      BY <1>16, <1>t, <2>3, RecvDoes DEF Teardown
    <3>3. op.pc = "join" => link'[l].listener # "recv"
      BY <1>16, <1>t, <2>3, <3>2, RecvDoes DEF Became, Received
    <3>4. op.pc \in {"publish", "publish link"} => link'[l].listener # "ended"
      <4>1. ASSUME op.pc \in {"publish", "publish link"}
            PROVE  link[l].sock = "open" /\ ~link[l].stopping
        BY <1>t, <2>3, <4>1, LifecycleAssumption DEF Teardown, Live
      <4>2. QED
        BY <1>16, <1>t, <4>1, RecvDoes DEF Became, Received
    <3>5. QED
      BY <1>16, <1>t, <2>3, <3>1, <3>2, <3>3, <3>4, RecvDoes DEF Teardown, Live
  <2>4. QED
    BY <2>1, <2>2, <2>3
<1>17. ASSUME NEW l \in Clients, Turn(l) PROVE Teardown'
  <2>1. CASE op = None
    BY <1>17, <1>t, <2>1, TurnDoes DEF Teardown
  <2>2. CASE op # None /\ op.link # l
    <3>1. op.link # None => op.link \in Clients
      BY <1>t, <2>2 DEF TypeOK, Calls
    <3>2. op' = op /\ (op.link # None => link'[op.link] = link[op.link])
      BY <1>17, <1>t, <2>2, <3>1, TurnDoes DEF Became
    <3>3. QED
      BY <1>t, <2>2, <3>2 DEF Teardown, Live
  <2>3. CASE op # None /\ op.link = l
    <3>1. /\ op' = op /\ link'[l] # None /\ link'[l].sock = link[l].sock
          /\ link'[l].stopping = link[l].stopping /\ link'[l].stopped = link[l].stopped
      BY <1>17, <1>t, TurnDoes DEF Became
    <3>2. op.pc = "join" => link[l].stopping
      BY <1>17, <1>t, <2>3, TurnDoes DEF Teardown
    <3>3. op.pc = "join" => link'[l].listener # "recv"
      BY <1>17, <1>t, <2>3, <3>2, TurnDoes DEF Became
    <3>4. op.pc \in {"publish", "publish link"} => link'[l].listener # "ended"
      <4>1. ASSUME op.pc \in {"publish", "publish link"}
            PROVE  link[l].sock = "open" /\ ~link[l].stopping
        BY <1>t, <2>3, <4>1, LifecycleAssumption DEF Teardown, Live
      <4>2. QED
        BY <1>17, <1>t, <4>1, TurnDoes DEF Became
    <3>5. QED
      BY <1>17, <1>t, <2>3, <3>1, <3>2, <3>3, <3>4, TurnDoes DEF Teardown, Live
  <2>4. QED
    BY <2>1, <2>2, <2>3
<1>18. ASSUME NEW u \in Users, GetLink(u) PROVE Teardown'
  BY <1>18, <1>t, GetLinkDoes DEF Phases, Teardown, Live
<1>19. ASSUME NEW u \in Users, Request(u) PROVE Teardown'
  BY <1>19, <1>t, RequestDoes DEF Phases, Teardown, Live
<1>20. ASSUME NEW u \in Users, Send(u) PROVE Teardown'
  BY <1>20, <1>t, SendDoes DEF Phases, Teardown, Live
<1>21. ASSUME NEW u \in Users, GiveUp(u) PROVE Teardown'
  BY <1>21, <1>t, GiveUpDoes DEF Phases, Teardown, Live
<1>22. ASSUME NEW u \in Users, Drop(u) PROVE Teardown'
  BY <1>22, <1>t, DropDoes DEF Phases, Teardown, Live
<1>23. CASE UNCHANGED vars
  BY <1>23, <1>t DEF vars, Phases, Teardown, Live
<1>24. QED
  BY <1>1, <1>2, <1>3, <1>4, <1>5, <1>6, <1>7, <1>8, <1>9, <1>10, <1>11, <1>12, <1>13,
     <1>14, <1>15, <1>16, <1>17, <1>18, <1>19, <1>20, <1>21, <1>22, <1>23 DEF Next

\* Nobody begins to read from a closed socket.
LEMMA ClosedStep == IInv /\ [Next]_vars => ClosedIsQuiet'
<1> SUFFICES ASSUME IInv, [Next]_vars PROVE ClosedIsQuiet'
  OBVIOUS
<1>t. TypeOK /\ Phases /\ Teardown /\ ClosedIsQuiet
  BY DEF IInv
<1>1. ASSUME NEW dbOnly \in BOOLEAN, NEW port \in Ports, InitCall(dbOnly, port)
      PROVE  ClosedIsQuiet'
  BY <1>1, <1>t, InitCallDoes DEF Holds, ClosedIsQuiet
<1>2. CASE OpenCache
  BY <1>2, <1>t, OpenCacheDoes DEF Holds, ClosedIsQuiet
<1>3. CASE BuildLink
  BY <1>3, <1>t, BuildLinkDoes DEF Holds, ClosedIsQuiet
<1>4. CASE Publish
  BY <1>4, <1>t, PublishDoes DEF OpGoes, GlobalsBecame, ClosedIsQuiet
<1>5. CASE PublishLink
  BY <1>5, <1>t, PublishLinkDoes DEF GlobalsBecame, ClosedIsQuiet
<1>6. CASE Close
  BY <1>6, <1>t, CloseDoes DEF Holds, GlobalsBecame, ClosedIsQuiet
<1>7. CASE CloseCache
  BY <1>7, <1>t, CloseCacheDoes DEF Holds, GlobalsBecame, ClosedIsQuiet
<1>8. CASE Logout
  BY <1>8, <1>t, LogoutDoes DEF OpGoes, ClosedIsQuiet
<1>9. CASE Stop
  BY <1>9, <1>t, StopDoes DEF Became, OpGoes, ClosedIsQuiet
<1>10. CASE StopListener
  BY <1>10, <1>t, StopListenerDoes DEF Became, OpGoes, ClosedIsQuiet
<1>11. CASE Wake
  BY <1>11, <1>t, WakeDoes DEF Became, OpGoes, ClosedIsQuiet
<1>12. CASE Join
  BY <1>12, <1>t, JoinDoes DEF Became, OpGoes, ClosedIsQuiet, Join, Stuck, Teardown
<1>13. CASE Abort
  BY <1>13, <1>t, AbortDoes DEF Became, OpGoes, ClosedIsQuiet
<1>14. CASE Dispose
  BY <1>14, <1>t, DisposeDoes DEF ClosedIsQuiet
<1>15. ASSUME NEW l \in Clients, Loop(l) PROVE ClosedIsQuiet'
  BY <1>15, <1>t, LoopDoes DEF Became, ClosedIsQuiet
<1>16. ASSUME NEW l \in Clients, Recv(l) PROVE ClosedIsQuiet'
  BY <1>16, <1>t, RecvDoes DEF Became, ClosedIsQuiet, Received
<1>17. ASSUME NEW l \in Clients, Turn(l) PROVE ClosedIsQuiet'
  BY <1>17, <1>t, TurnDoes DEF Became, ClosedIsQuiet
<1>18. ASSUME NEW u \in Users, GetLink(u) PROVE ClosedIsQuiet'
  BY <1>18, <1>t, GetLinkDoes DEF ClosedIsQuiet
<1>19. ASSUME NEW u \in Users, Request(u) PROVE ClosedIsQuiet'
  BY <1>19, <1>t, RequestDoes DEF ClosedIsQuiet
<1>20. ASSUME NEW u \in Users, Send(u) PROVE ClosedIsQuiet'
  BY <1>20, <1>t, SendDoes DEF ClosedIsQuiet
<1>21. ASSUME NEW u \in Users, GiveUp(u) PROVE ClosedIsQuiet'
  BY <1>21, <1>t, GiveUpDoes DEF ClosedIsQuiet
<1>22. ASSUME NEW u \in Users, Drop(u) PROVE ClosedIsQuiet'
  BY <1>22, <1>t, DropDoes DEF ClosedIsQuiet
<1>23. CASE UNCHANGED vars
  BY <1>23, <1>t DEF vars, ClosedIsQuiet
<1>24. QED
  BY <1>1, <1>2, <1>3, <1>4, <1>5, <1>6, <1>7, <1>8, <1>9, <1>10, <1>11, <1>12, <1>13,
     <1>14, <1>15, <1>16, <1>17, <1>18, <1>19, <1>20, <1>21, <1>22, <1>23 DEF Next

\* Every step leaves somebody answering for each port.
LEMMA PortsStep == IInv /\ [Next]_vars => PortsAccounted'
<1> SUFFICES ASSUME IInv, [Next]_vars PROVE PortsAccounted'
  OBVIOUS
<1>t. TypeOK /\ Phases /\ Teardown /\ ClosedIsQuiet /\ PortsAccounted
  BY DEF IInv
<1>k. ASSUME UNCHANGED <<globals, link, op, lost>> PROVE PortsAccounted'
  BY <1>k, <1>t DEF PortsAccounted, HoldsPort
<1>1. ASSUME NEW dbOnly \in BOOLEAN, NEW port \in Ports, InitCall(dbOnly, port)
      PROVE  PortsAccounted'
  <2>1. op = None /\ link' = link /\ globals' = globals /\ lost' = lost
    BY <1>1, <1>t, InitCallDoes DEF Phases
  <2>2. QED
    BY <1>t, <2>1 DEF PortsAccounted, HoldsPort
<1>2. CASE OpenCache
  BY <1>2, <1>t, OpenCacheDoes DEF Holds, PortsAccounted, HoldsPort, Phases
<1>3. CASE BuildLink
  BY <1>3, <1>t, BuildLinkDoes DEF Holds, PortsAccounted, HoldsPort, Phases
<1>4. CASE Publish
  BY <1>4, <1>t, PublishDoes DEF OpGoes, GlobalsBecame, PortsAccounted, HoldsPort, Phases
<1>5. CASE PublishLink
  <2>1. /\ op # None /\ op' = None /\ link' = link /\ lost' = lost
        /\ globals.anidb = None /\ globals'.anidb = op.link /\ None \notin Clients
    BY <1>5, <1>t, PublishLinkDoes, LifecycleAssumption DEF GlobalsBecame, Phases
  <2>2. QED
    BY <1>t, <2>1 DEF PortsAccounted, HoldsPort
<1>6. CASE Close
  <2>1. /\ op = None /\ op' # None /\ op'.link = globals.anidb
        /\ link' = link /\ lost' = lost
    BY <1>6, <1>t, CloseDoes DEF GlobalsBecame, Holds
  <2>2. QED
    BY <1>t, <2>1 DEF PortsAccounted, HoldsPort
<1>7. CASE CloseCache
  <2>1. /\ op # None /\ op' # None /\ op'.link = op.link /\ globals'.anidb = globals.anidb
        /\ link' = link /\ lost' = lost
    BY <1>7, <1>t, CloseCacheDoes DEF GlobalsBecame, Holds
  <2>2. QED
    BY <1>t, <2>1 DEF PortsAccounted, HoldsPort
<1>8. CASE Logout
  BY <1>8, <1>t, LogoutDoes DEF OpGoes, PortsAccounted, HoldsPort, Phases
<1>9. CASE Stop
  BY <1>9, <1>t, StopDoes DEF Became, OpGoes, PortsAccounted, HoldsPort, Phases
<1>10. CASE StopListener
  BY <1>10, <1>t, StopListenerDoes DEF Became, OpGoes, PortsAccounted, HoldsPort, Phases
<1>11. CASE Wake
  BY <1>11, <1>t, WakeDoes DEF Became, OpGoes, PortsAccounted, HoldsPort, Phases
<1>12. CASE Join
  BY <1>12, <1>t, JoinDoes DEF Became, OpGoes, PortsAccounted, HoldsPort, Phases
<1>13. CASE Abort
  BY <1>13, <1>t, AbortDoes DEF Became, OpGoes, PortsAccounted, HoldsPort, Phases
<1>14. CASE Dispose
  BY <1>14, <1>t, DisposeDoes DEF PortsAccounted, HoldsPort, Phases, Teardown, ClosedIsQuiet
<1>15. ASSUME NEW l \in Clients, Loop(l) PROVE PortsAccounted'
  <2>1. ASSUME NEW m \in Clients, HoldsPort(m)' PROVE HoldsPort(m)
    <3>0. link[l].sock \in {"open", "closed"}
      BY <1>15, <1>t, LoopDoes DEF TypeOK, Links
    <3>1. CASE m = l
      BY <1>15, <1>t, <2>1, <3>0, <3>1, LoopDoes DEF Became, HoldsPort, ClosedIsQuiet
    <3>2. CASE m # l
      BY <1>15, <1>t, <2>1, <3>2, LoopDoes DEF Became, HoldsPort
    <3>3. QED
      BY <3>1, <3>2
  <2>2. QED
    BY <1>15, <1>t, <2>1, LoopDoes DEF PortsAccounted
<1>16. ASSUME NEW l \in Clients, Recv(l) PROVE PortsAccounted'
  <2>1. ASSUME NEW m \in Clients, HoldsPort(m)' PROVE HoldsPort(m)
    <3>0. link[l].sock \in {"open", "closed"}
      BY <1>16, <1>t, RecvDoes DEF TypeOK, Links
    <3>1. CASE m = l
      BY <1>16, <1>t, <2>1, <3>0, <3>1, RecvDoes DEF Became, HoldsPort, ClosedIsQuiet, Received
    <3>2. CASE m # l
      BY <1>16, <1>t, <2>1, <3>2, RecvDoes DEF Became, HoldsPort
    <3>3. QED
      BY <3>1, <3>2
  <2>2. QED
    BY <1>16, <1>t, <2>1, RecvDoes DEF PortsAccounted
<1>17. ASSUME NEW l \in Clients, Turn(l) PROVE PortsAccounted'
  <2>1. ASSUME NEW m \in Clients, HoldsPort(m)' PROVE HoldsPort(m)
    <3>0. link[l].sock \in {"open", "closed"}
      BY <1>17, <1>t, TurnDoes DEF TypeOK, Links
    <3>1. CASE m = l
      BY <1>17, <1>t, <2>1, <3>0, <3>1, TurnDoes DEF Became, HoldsPort, ClosedIsQuiet
    <3>2. CASE m # l
      BY <1>17, <1>t, <2>1, <3>2, TurnDoes DEF Became, HoldsPort
    <3>3. QED
      BY <3>1, <3>2
  <2>2. QED
    BY <1>17, <1>t, <2>1, TurnDoes DEF PortsAccounted
<1>18. ASSUME NEW u \in Users, GetLink(u) PROVE PortsAccounted'
  BY <1>18, <1>t, <1>k, GetLinkDoes
<1>19. ASSUME NEW u \in Users, Request(u) PROVE PortsAccounted'
  BY <1>19, <1>t, <1>k, RequestDoes
<1>20. ASSUME NEW u \in Users, Send(u) PROVE PortsAccounted'
  BY <1>20, <1>t, <1>k, SendDoes
<1>21. ASSUME NEW u \in Users, GiveUp(u) PROVE PortsAccounted'
  BY <1>21, <1>t, <1>k, GiveUpDoes
<1>22. ASSUME NEW u \in Users, Drop(u) PROVE PortsAccounted'
  BY <1>22, <1>t, <1>k, DropDoes
<1>23. CASE UNCHANGED vars
  BY <1>23, <1>t DEF vars, PortsAccounted, HoldsPort, Phases
<1>24. QED
  BY <1>1, <1>2, <1>3, <1>4, <1>5, <1>6, <1>7, <1>8, <1>9, <1>10, <1>11, <1>12, <1>13,
     <1>14, <1>15, <1>16, <1>17, <1>18, <1>19, <1>20, <1>21, <1>22, <1>23 DEF Next

\* Every step leaves somebody answering for each engine.
LEMMA StrandedStep == IInv /\ [Next]_vars => NothingStranded'
<1> SUFFICES ASSUME IInv, [Next]_vars PROVE NothingStranded'
  OBVIOUS
<1>t. TypeOK /\ Phases /\ Teardown /\ NothingStranded
  BY DEF IInv
<1>1. ASSUME NEW dbOnly \in BOOLEAN, NEW port \in Ports, InitCall(dbOnly, port)
      PROVE  NothingStranded'
  BY <1>1, <1>t, InitCallDoes DEF Holds, NothingStranded, Phases, TypeOK
<1>2. CASE OpenCache
  BY <1>2, <1>t, OpenCacheDoes DEF Holds, NothingStranded, Phases, TypeOK
<1>3. CASE BuildLink
  BY <1>3, <1>t, BuildLinkDoes DEF Holds, NothingStranded, Phases, TypeOK
<1>4. CASE Publish
  <2>1. /\ op # None /\ op' # None /\ op'.engine = op.engine /\ globals.engine = None
        /\ engines' = engines /\ lost' = lost
    BY <1>4, <1>t, PublishDoes DEF OpGoes, Phases
  <2>2. None \notin engines
    BY <1>t, LifecycleAssumption DEF TypeOK
  <2>3. QED
    BY <1>t, <2>1, <2>2 DEF NothingStranded
<1>5. CASE PublishLink
  BY <1>5, <1>t, PublishLinkDoes DEF GlobalsBecame, NothingStranded, Phases, TypeOK
<1>6. CASE Close
  BY <1>6, <1>t, CloseDoes DEF Holds, GlobalsBecame, NothingStranded, Phases, TypeOK
<1>7. CASE CloseCache
  BY <1>7, <1>t, CloseCacheDoes DEF Holds, GlobalsBecame, NothingStranded, Phases, TypeOK
<1>8. CASE Logout
  BY <1>8, <1>t, LogoutDoes DEF OpGoes, NothingStranded, Phases, TypeOK
<1>9. CASE Stop
  BY <1>9, <1>t, StopDoes DEF Became, OpGoes, NothingStranded, Phases, TypeOK
<1>10. CASE StopListener
  BY <1>10, <1>t, StopListenerDoes DEF Became, OpGoes, NothingStranded, Phases, TypeOK
<1>11. CASE Wake
  BY <1>11, <1>t, WakeDoes DEF Became, OpGoes, NothingStranded, Phases, TypeOK
<1>12. CASE Join
  BY <1>12, <1>t, JoinDoes DEF Became, OpGoes, NothingStranded, Phases, TypeOK
<1>13. CASE Abort
  BY <1>13, <1>t, AbortDoes DEF Became, OpGoes, NothingStranded, Phases, TypeOK
<1>14. CASE Dispose
  BY <1>14, <1>t, DisposeDoes DEF NothingStranded, Phases, TypeOK
<1>15. ASSUME NEW l \in Clients, Loop(l) PROVE NothingStranded'
  BY <1>15, <1>t, LoopDoes DEF Became, NothingStranded, Phases, TypeOK
<1>16. ASSUME NEW l \in Clients, Recv(l) PROVE NothingStranded'
  BY <1>16, <1>t, RecvDoes DEF Became, NothingStranded, Phases, TypeOK
<1>17. ASSUME NEW l \in Clients, Turn(l) PROVE NothingStranded'
  BY <1>17, <1>t, TurnDoes DEF Became, NothingStranded, Phases, TypeOK
<1>18. ASSUME NEW u \in Users, GetLink(u) PROVE NothingStranded'
  BY <1>18, <1>t, GetLinkDoes DEF NothingStranded, Phases, TypeOK
<1>19. ASSUME NEW u \in Users, Request(u) PROVE NothingStranded'
  BY <1>19, <1>t, RequestDoes DEF NothingStranded, Phases, TypeOK
<1>20. ASSUME NEW u \in Users, Send(u) PROVE NothingStranded'
  BY <1>20, <1>t, SendDoes DEF NothingStranded, Phases, TypeOK
<1>21. ASSUME NEW u \in Users, GiveUp(u) PROVE NothingStranded'
  BY <1>21, <1>t, GiveUpDoes DEF NothingStranded, Phases, TypeOK
<1>22. ASSUME NEW u \in Users, Drop(u) PROVE NothingStranded'
  BY <1>22, <1>t, DropDoes DEF NothingStranded, Phases, TypeOK
<1>23. CASE UNCHANGED vars
  BY <1>23, <1>t DEF vars, NothingStranded, Phases, TypeOK
<1>24. QED
  BY <1>1, <1>2, <1>3, <1>4, <1>5, <1>6, <1>7, <1>8, <1>9, <1>10, <1>11, <1>12, <1>13,
     <1>14, <1>15, <1>16, <1>17, <1>18, <1>19, <1>20, <1>21, <1>22, <1>23 DEF Next

\* What is published stays live until it is taken back.
LEMMA LiveStep == IInv /\ [Next]_vars => GetLinkIsLive'
<1> SUFFICES ASSUME IInv, [Next]_vars PROVE GetLinkIsLive'
  OBVIOUS
<1>t. TypeOK /\ Phases /\ Teardown /\ GetLinkIsLive
  BY DEF IInv
<1>1. ASSUME NEW dbOnly \in BOOLEAN, NEW port \in Ports, InitCall(dbOnly, port)
      PROVE  GetLinkIsLive'
  BY <1>1, <1>t, InitCallDoes DEF Holds, GetLinkIsLive, Phases
<1>2. CASE OpenCache
  BY <1>2, <1>t, OpenCacheDoes DEF Holds, GetLinkIsLive, Phases
<1>3. CASE BuildLink
  BY <1>3, <1>t, BuildLinkDoes DEF Holds, GetLinkIsLive, Phases
<1>4. CASE Publish
  BY <1>4, <1>t, PublishDoes DEF OpGoes, GlobalsBecame, GetLinkIsLive, Phases, TypeOK
<1>5. CASE PublishLink
  BY <1>5, <1>t, PublishLinkDoes DEF GlobalsBecame, GetLinkIsLive, Phases, Teardown, Live
<1>6. CASE Close
  BY <1>6, <1>t, CloseDoes DEF Holds, GlobalsBecame, GetLinkIsLive, Phases, TypeOK
<1>7. CASE CloseCache
  BY <1>7, <1>t, CloseCacheDoes DEF Holds, GlobalsBecame, GetLinkIsLive, Phases, TypeOK
<1>8. CASE Logout
  BY <1>8, <1>t, LogoutDoes DEF OpGoes, GetLinkIsLive, Phases
<1>9. CASE Stop
  BY <1>9, <1>t, StopDoes DEF Became, OpGoes, GetLinkIsLive, Phases
<1>10. CASE StopListener
  BY <1>10, <1>t, StopListenerDoes DEF Became, OpGoes, GetLinkIsLive, Phases
<1>11. CASE Wake
  BY <1>11, <1>t, WakeDoes DEF Became, OpGoes, GetLinkIsLive, Phases
<1>12. CASE Join
  BY <1>12, <1>t, JoinDoes DEF Became, OpGoes, GetLinkIsLive, Phases
<1>13. CASE Abort
  BY <1>13, <1>t, AbortDoes DEF Became, OpGoes, GetLinkIsLive, Phases
<1>14. CASE Dispose
  BY <1>14, <1>t, DisposeDoes DEF GetLinkIsLive, Phases
<1>15. ASSUME NEW l \in Clients, Loop(l) PROVE GetLinkIsLive'
  <2>1. globals' = globals /\ (globals.anidb # None => globals.anidb \in Clients)
    BY <1>15, <1>t, LoopDoes DEF TypeOK
  <2>2. CASE globals.anidb = l
    BY <1>15, <1>t, <2>1, <2>2, LoopDoes DEF GetLinkIsLive, Became
  <2>3. CASE globals.anidb # l
    BY <1>15, <1>t, <2>1, <2>3, LoopDoes DEF GetLinkIsLive, Became
  <2>4. QED
    BY <2>2, <2>3
<1>16. ASSUME NEW l \in Clients, Recv(l) PROVE GetLinkIsLive'
  <2>1. globals' = globals /\ (globals.anidb # None => globals.anidb \in Clients)
    BY <1>16, <1>t, RecvDoes DEF TypeOK
  <2>2. CASE globals.anidb = l
    BY <1>16, <1>t, <2>1, <2>2, RecvDoes DEF GetLinkIsLive, Became, Received
  <2>3. CASE globals.anidb # l
    BY <1>16, <1>t, <2>1, <2>3, RecvDoes DEF GetLinkIsLive, Became
  <2>4. QED
    BY <2>2, <2>3
<1>17. ASSUME NEW l \in Clients, Turn(l) PROVE GetLinkIsLive'
  <2>1. globals' = globals /\ (globals.anidb # None => globals.anidb \in Clients)
    BY <1>17, <1>t, TurnDoes DEF TypeOK
  <2>2. CASE globals.anidb = l
    BY <1>17, <1>t, <2>1, <2>2, TurnDoes DEF GetLinkIsLive, Became
  <2>3. CASE globals.anidb # l
    BY <1>17, <1>t, <2>1, <2>3, TurnDoes DEF GetLinkIsLive, Became
  <2>4. QED
    BY <2>2, <2>3
<1>18. ASSUME NEW u \in Users, GetLink(u) PROVE GetLinkIsLive'
  BY <1>18, <1>t, GetLinkDoes DEF GetLinkIsLive, Phases
<1>19. ASSUME NEW u \in Users, Request(u) PROVE GetLinkIsLive'
  BY <1>19, <1>t, RequestDoes DEF GetLinkIsLive, Phases
<1>20. ASSUME NEW u \in Users, Send(u) PROVE GetLinkIsLive'
  BY <1>20, <1>t, SendDoes DEF GetLinkIsLive, Phases
<1>21. ASSUME NEW u \in Users, GiveUp(u) PROVE GetLinkIsLive'
  BY <1>21, <1>t, GiveUpDoes DEF GetLinkIsLive, Phases
<1>22. ASSUME NEW u \in Users, Drop(u) PROVE GetLinkIsLive'
  BY <1>22, <1>t, DropDoes DEF GetLinkIsLive, Phases
<1>23. CASE UNCHANGED vars
  BY <1>23, <1>t DEF vars, GetLinkIsLive, Phases
<1>24. QED
  BY <1>1, <1>2, <1>3, <1>4, <1>5, <1>6, <1>7, <1>8, <1>9, <1>10, <1>11, <1>12, <1>13,
     <1>14, <1>15, <1>16, <1>17, <1>18, <1>19, <1>20, <1>21, <1>22, <1>23 DEF Next

\* A step that ends a transport ends the waits on it.
LEMMA WaitersStep == IInv /\ [Next]_vars => WaitersAreTold'
<1> SUFFICES ASSUME IInv, [Next]_vars PROVE WaitersAreTold'
  OBVIOUS
<1>t. TypeOK /\ Phases /\ Teardown /\ WaitersAreTold
  BY DEF IInv
<1>u. \A u \in Users : user[u].pc \in {"queued", "sent"} => user[u].link \in Clients
  BY <1>t DEF TypeOK, Holdings
<1>k. ASSUME \A m \in Clients : ~link[m].aborted => ~link'[m].aborted, user' = user
      PROVE  WaitersAreTold'
  BY <1>k, <1>t, <1>u DEF WaitersAreTold
<1>1. ASSUME NEW dbOnly \in BOOLEAN, NEW port \in Ports, InitCall(dbOnly, port)
      PROVE  WaitersAreTold'
  BY <1>1, <1>t, InitCallDoes DEF Holds, WaitersAreTold, TypeOK
<1>2. CASE OpenCache
  BY <1>2, <1>t, OpenCacheDoes DEF Holds, WaitersAreTold, TypeOK
<1>3. CASE BuildLink
  <2>1. \A m \in Clients : ~link[m].aborted => ~link'[m].aborted
    BY <1>3, <1>t, BuildLinkDoes DEF Became
  <2>2. user' = user
    BY <1>3, <1>t, BuildLinkDoes
  <2>3. QED
    BY <1>k, <2>1, <2>2
<1>4. CASE Publish
  BY <1>4, <1>t, PublishDoes DEF OpGoes, GlobalsBecame, WaitersAreTold, TypeOK
<1>5. CASE PublishLink
  BY <1>5, <1>t, PublishLinkDoes DEF GlobalsBecame, WaitersAreTold, TypeOK
<1>6. CASE Close
  BY <1>6, <1>t, CloseDoes DEF Holds, GlobalsBecame, WaitersAreTold, TypeOK
<1>7. CASE CloseCache
  BY <1>7, <1>t, CloseCacheDoes DEF Holds, GlobalsBecame, WaitersAreTold, TypeOK
<1>8. CASE Logout
  BY <1>8, <1>t, LogoutDoes DEF OpGoes, WaitersAreTold, TypeOK
<1>9. CASE Stop
  <2>1. \A m \in Clients : ~link[m].aborted => ~link'[m].aborted
    BY <1>9, <1>t, StopDoes DEF Became
  <2>2. user' = user
    BY <1>9, <1>t, StopDoes
  <2>3. QED
    BY <1>k, <2>1, <2>2
<1>10. CASE StopListener
  <2>1. \A m \in Clients : ~link[m].aborted => ~link'[m].aborted
    BY <1>10, <1>t, StopListenerDoes DEF Became
  <2>2. user' = user
    BY <1>10, <1>t, StopListenerDoes
  <2>3. QED
    BY <1>k, <2>1, <2>2
<1>11. CASE Wake
  <2>1. \A m \in Clients : ~link[m].aborted => ~link'[m].aborted
    BY <1>11, <1>t, WakeDoes DEF Became
  <2>2. user' = user
    BY <1>11, <1>t, WakeDoes
  <2>3. QED
    BY <1>k, <2>1, <2>2
<1>12. CASE Join
  <2>1. \A m \in Clients : ~link[m].aborted => ~link'[m].aborted
    BY <1>12, <1>t, JoinDoes DEF Became
  <2>2. user' = user
    BY <1>12, <1>t, JoinDoes
  <2>3. QED
    BY <1>k, <2>1, <2>2
<1>13. CASE Abort
  <2>1. \A m \in Clients : m # op.link => link'[m] = link[m]
    BY <1>13, <1>t, AbortDoes DEF Became
  <2>2. ASSUME NEW u \in Users, user'[u].pc \in {"queued", "sent"}
        PROVE  /\ user[u].pc \in {"queued", "sent"} /\ user'[u].link = user[u].link
               /\ user[u].link # op.link
    BY <1>13, <1>t, <2>2, AbortTells
  <2>3. QED
    BY <1>t, <1>u, <2>1, <2>2 DEF WaitersAreTold
<1>14. CASE Dispose
  BY <1>14, <1>t, DisposeDoes DEF WaitersAreTold, TypeOK
<1>15. ASSUME NEW l \in Clients, Loop(l) PROVE WaitersAreTold'
  <2>1. \A m \in Clients : ~link[m].aborted => ~link'[m].aborted
    BY <1>15, <1>t, LoopDoes DEF Became
  <2>2. user' = user
    BY <1>15, <1>t, LoopDoes
  <2>3. QED
    BY <1>k, <2>1, <2>2
<1>16. ASSUME NEW l \in Clients, Recv(l) PROVE WaitersAreTold'
  <2>1. \A m \in Clients : ~link[m].aborted => ~link'[m].aborted
    BY <1>16, <1>t, RecvDoes DEF Became
  <2>2. ASSUME NEW u \in Users, user'[u].pc \in {"queued", "sent"}
        PROVE  user[u].pc \in {"queued", "sent"} /\ user'[u].link = user[u].link
    BY <1>16, <1>t, <2>2, RecvTells
  <2>3. QED
    BY <1>t, <1>u, <2>1, <2>2 DEF WaitersAreTold
<1>17. ASSUME NEW l \in Clients, Turn(l) PROVE WaitersAreTold'
  <2>1. \A m \in Clients : ~link[m].aborted => ~link'[m].aborted
    BY <1>17, <1>t, TurnDoes DEF Became
  <2>2. user' = user
    BY <1>17, <1>t, TurnDoes
  <2>3. QED
    BY <1>k, <2>1, <2>2
<1>18. ASSUME NEW u \in Users, GetLink(u) PROVE WaitersAreTold'
  BY <1>18, <1>t, GetLinkDoes DEF UserBecame, WaitersAreTold, TypeOK
<1>19. ASSUME NEW u \in Users, Request(u) PROVE WaitersAreTold'
  BY <1>19, <1>t, RequestDoes DEF UserBecame, WaitersAreTold, TypeOK
<1>20. ASSUME NEW u \in Users, Send(u) PROVE WaitersAreTold'
  BY <1>20, <1>t, SendDoes DEF UserBecame, WaitersAreTold, TypeOK
<1>21. ASSUME NEW u \in Users, GiveUp(u) PROVE WaitersAreTold'
  BY <1>21, <1>t, GiveUpDoes DEF UserBecame, WaitersAreTold, TypeOK
<1>22. ASSUME NEW u \in Users, Drop(u) PROVE WaitersAreTold'
  BY <1>22, <1>t, DropDoes DEF UserBecame, WaitersAreTold, TypeOK
<1>23. CASE UNCHANGED vars
  BY <1>23, <1>t DEF vars, WaitersAreTold, TypeOK
<1>24. QED
  BY <1>1, <1>2, <1>3, <1>4, <1>5, <1>6, <1>7, <1>8, <1>9, <1>10, <1>11, <1>12, <1>13,
     <1>14, <1>15, <1>16, <1>17, <1>18, <1>19, <1>20, <1>21, <1>22, <1>23 DEF Next

-----------------------------------------------------------------------------
(* Theorems *)

\* Before any call there is nothing to answer for.
LEMMA InvInit == Init => IInv
<1> SUFFICES ASSUME Init PROVE IInv
  OBVIOUS
<1>1. /\ globals = [engine |-> None, factory |-> None, anidb |-> None]
      /\ engines = {} /\ lost = {} /\ op = None /\ last = "nothing"
      /\ link = [l \in Clients |-> None]
      /\ user = [u \in Users |-> [pc |-> "idle", link |-> None]]
  BY DEF Init
<1>2. TypeOK
  BY <1>1 DEF TypeOK, Holdings
<1>3. Phases /\ Teardown /\ NothingStranded /\ GetLinkIsLive
  BY <1>1 DEF Phases, Teardown, NothingStranded, GetLinkIsLive
<1>4. ClosedIsQuiet /\ PortsAccounted
  BY <1>1 DEF ClosedIsQuiet, PortsAccounted, HoldsPort
<1>5. WaitersAreTold
  BY <1>1 DEF WaitersAreTold
<1>6. QED
  BY <1>2, <1>3, <1>4, <1>5 DEF IInv

\* The invariant is inductive.
LEMMA Inductive == Spec => []IInv
<1>1. IInv /\ [Next]_vars => IInv'
  BY TypeStep, PhasesStep, TeardownStep, ClosedStep, PortsStep, StrandedStep, LiveStep,
     WaitersStep DEF IInv
<1>2. QED
  BY <1>1, InvInit, PTL DEF Spec

\* Every variable keeps its type: no step of init() or close() reaches for a
\* transport or an engine it does not have.
THEOREM TypeCorrect == Spec => []TypeOK
<1>1. IInv => TypeOK
  BY DEF IInv
<1>2. QED
  BY <1>1, Inductive, PTL

\* However often init() and close() are called and wherever they fail, every engine
\* that is open is published or in the hands of the call under way (or lost in a
\* constructor).
THEOREM NoEngineIsStranded == Spec => []NothingStranded
<1>1. IInv => NothingStranded
  BY DEF IInv
<1>2. QED
  BY <1>1, Inductive, PTL

\* When close() has returned, the source port is free, whatever the listener was
\* doing when its bounded join ended.
THEOREM PortComesBack == Spec => []PortIsBack
<1>1. IInv => PortIsBack
  BY DEF IInv, PortsAccounted, PortIsBack
<1>2. QED
  BY <1>1, Inductive, PTL

\* get_link() hands out a transport that nothing has begun to stop.
THEOREM PublishedIsLive == Spec => []GetLinkIsLive
<1>1. IInv => GetLinkIsLive
  BY DEF IInv
<1>2. QED
  BY <1>1, Inductive, PTL

\* Nobody who waited on a transport when it stopped still waits.
THEOREM StopTellsWaiters == Spec => []WaitersAreTold
<1>1. IInv => WaitersAreTold
  BY DEF IInv
<1>2. QED
  BY <1>1, Inductive, PTL
=============================================================================
