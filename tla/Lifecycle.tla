----------------------------- MODULE Lifecycle -----------------------------
(* init(), close() and get_link() of __init__.py, with as much of the cache   *)
(* engine and of a transport as they open and give back: an engine's pool, a  *)
(* socket on a pinned source port, and the listener thread that reads it.     *)
(*                                                                            *)
(* One thread of the application makes the lifecycle calls; others take the   *)
(* transport and send requests on it, at any moment of a call.                *)
EXTENDS Naturals, FiniteSets

CONSTANTS
  Users,      \* threads that use the transport
  Ports,      \* source ports a caller may ask for
  Clients,    \* bound: names for engines and transports that exist at one time
  None

VARIABLES
  globals,    \* _engine, _sessionmaker and _anidb
  engines,    \* engines created and not disposed
  link,       \* transports that exist: socket, listener, what was told to them
  op,         \* the init() or close() under way
  last,       \* how the last one ended
  user,       \* what each user holds, and what it waits for
  lost        \* ghost: what a constructor had opened when it raised

vars == <<globals, engines, link, op, last, user, lost>>

Links == [port: Ports, sock: {"open", "closed"},
          listener: {"looping", "recv", "busy", "ended"},
          stopping: BOOLEAN,      \* the listener has been told to leave
          nudged: BOOLEAN,        \* the wake-up datagram waits in the socket
          stopped: BOOLEAN,       \* the sender has been told to leave
          aborted: BOOLEAN]       \* what was outstanding has been failed

\* The init() or close() under way: the code between two points where it can
\* raise or be overtaken, and its local variables.
Calls == [pc: {"cache", "build", "publish", "publish link", "clear", "logout", "stop",
               "stop listener", "wake", "join", "abort", "dispose"},
          engine: Clients \cup {None}, link: Clients \cup {None},
          dbOnly: BOOLEAN, port: Ports \cup {None}, failed: BOOLEAN]

\* What a user holds, and what it waits for on it.
Holdings == [pc: {"idle", "holds", "queued", "sent", "unheard"}, link: Clients \cup {None}]

ASSUME LifecycleAssumption ==
  /\ Users # {} /\ Ports # {} /\ IsFiniteSet(Clients)
  /\ None \notin Users \cup Ports \cup Clients
  /\ None \notin Links /\ None \notin Calls

NewLink(port) ==
  [port |-> port, sock |-> "open", listener |-> "looping", stopping |-> FALSE,
   nudged |-> FALSE, stopped |-> FALSE, aborted |-> FALSE]

\* A socket keeps its port until it is closed, and closed under a recv() until
\* that returns.
HoldsPort(l) == link[l] # None /\ (link[l].sock = "open" \/ link[l].listener = "recv")

Held(port) == \E l \in Clients : HoldsPort(l) /\ link[l].port = port

\* A name to reuse is one that nothing refers to and whose thread is gone.
Named == {globals.engine, globals.factory, globals.anidb} \cup engines \cup lost
           \cup (IF op = None THEN {} ELSE {op.engine, op.link})
           \cup {user[u].link : u \in Users}
           \cup {l \in Clients : link[l] # None /\ link[l].listener # "ended"}

Fresh == Clients \ Named

At(pc) == op # None /\ op.pc = pc

Goes(pc) == op' = [op EXCEPT !.pc = pc] /\ UNCHANGED last

Returns(outcome) == op' = None /\ last' = outcome

-----------------------------------------------------------------------------
(* init() *)

\* Refused at once while a client is live, and for arguments that cannot work: an
\* in-memory cache with a transport, no credentials.
InitCall(dbOnly, port) ==
  /\ op = None
  /\ \/ globals.factory # None /\ last' = "already" /\ UNCHANGED op
     \/ globals.factory = None /\ last' = "refused" /\ UNCHANGED op
     \/ /\ globals.factory = None
        /\ op' = [pc |-> "cache", engine |-> None, link |-> None,
                  dbOnly |-> dbOnly, port |-> port, failed |-> FALSE]
        /\ UNCHANGED last
  /\ UNCHANGED <<globals, engines, link, user, lost>>

\* init_db(): the engine, then its tables.  An engine whose tables cannot be
\* created is left behind.  (Bound: one thing lost that way.)
OpenCache ==
  /\ At("cache")
  /\ \/ Returns("raised") /\ UNCHANGED <<engines, lost>>
     \/ \E e \in Fresh :
          \/ /\ engines' = engines \cup {e}
             /\ op' = [op EXCEPT !.engine = e, !.pc = IF op.dbOnly THEN "publish" ELSE "build"]
             /\ UNCHANGED <<last, lost>>
          \/ /\ lost = {}
             /\ engines' = engines \cup {e} /\ lost' = {e}
             /\ Returns("raised")
  /\ UNCHANGED <<globals, link, user>>

\* A bug: a transport that cannot be built leaves the cache open.
BuildLinkAlone ==
  /\ At("build")
  /\ \/ Returns("raised") /\ UNCHANGED <<engines, link, lost>>
     \/ \E l \in Fresh :
          /\ ~Held(op.port)
          /\ link' = [link EXCEPT ![l] = NewLink(op.port)]
          /\ op' = [op EXCEPT !.link = l, !.pc = "publish"]
          /\ UNCHANGED <<engines, last, lost>>
  /\ UNCHANGED <<globals, user>>

\* AniDBLink(): the socket is bound and both threads are started, or it raises
\* and the stack gives the engine back: the port may be held here, or by another
\* process.  A transport whose second thread cannot be started is left behind,
\* its listener reading.
BuildLink ==
  /\ At("build")
  /\ \/ /\ engines' = engines \ {op.engine}
        /\ Returns("raised")
        /\ UNCHANGED <<link, lost>>
     \/ \E l \in Fresh :
          /\ ~Held(op.port)
          /\ link' = [link EXCEPT ![l] = NewLink(op.port)]
          /\ \/ /\ op' = [op EXCEPT !.link = l, !.pc = "publish"]
                /\ UNCHANGED <<engines, last, lost>>
             \/ /\ lost = {}
                /\ lost' = {l}
                /\ engines' = engines \ {op.engine}
                /\ Returns("raised")
  /\ UNCHANGED <<globals, user>>

\* The globals are assigned one after the other, the transport last.
Publish ==
  /\ At("publish")
  /\ globals' = [globals EXCEPT !.engine = op.engine, !.factory = op.engine]
  /\ Goes("publish link")
  /\ UNCHANGED <<engines, link, user, lost>>

PublishLink ==
  /\ At("publish link")
  /\ globals' = [globals EXCEPT !.anidb = op.link]
  /\ Returns("done")
  /\ UNCHANGED <<engines, link, user, lost>>

-----------------------------------------------------------------------------
(* close() *)

\* A bug: the transport is taken, and stays published.
CloseTakingOnly ==
  /\ op = None
  /\ op' = [pc |-> "clear", engine |-> None, link |-> globals.anidb,
            dbOnly |-> FALSE, port |-> None, failed |-> FALSE]
  /\ UNCHANGED <<globals, engines, link, last, user, lost>>

\* The globals are taken and cleared first.
Close ==
  /\ op = None
  /\ op' = [pc |-> "clear", engine |-> None, link |-> globals.anidb,
            dbOnly |-> FALSE, port |-> None, failed |-> FALSE]
  /\ globals' = [globals EXCEPT !.anidb = None]
  /\ UNCHANGED <<engines, link, last, user, lost>>

CloseCache ==
  /\ At("clear")
  /\ op' = [op EXCEPT !.engine = globals.engine,
                      !.pc = IF op.link = None THEN "dispose" ELSE "logout"]
  /\ globals' = [globals EXCEPT !.engine = None, !.factory = None]
  /\ UNCHANGED <<engines, link, last, user, lost>>

\* AniDBLink.stop(): the logout is waited for a bounded time, and an interrupt of
\* that wait ends it like anything else: the teardown follows.
Logout ==
  /\ At("logout")
  /\ \E failed \in BOOLEAN : op' = [op EXCEPT !.pc = "stop", !.failed = failed]
  /\ UNCHANGED <<globals, engines, link, last, user, lost>>

Stop ==
  /\ At("stop")
  /\ link' = [link EXCEPT ![op.link].stopped = TRUE]
  /\ Goes("stop listener")
  /\ UNCHANGED <<globals, engines, user, lost>>

\* A bug: the socket is closed under a listener that nothing has woken.
StopListenerAsleep ==
  /\ At("stop listener")
  /\ link' = [link EXCEPT ![op.link].stopping = TRUE]
  /\ Goes("join")
  /\ UNCHANGED <<globals, engines, user, lost>>

\* AniDBListener.stop(): told to leave, then woken.
StopListener ==
  /\ At("stop listener")
  /\ link' = [link EXCEPT ![op.link].stopping = TRUE]
  /\ Goes("wake")
  /\ UNCHANGED <<globals, engines, user, lost>>

Wake ==
  /\ At("wake")
  /\ link' = [link EXCEPT ![op.link].nudged = TRUE]
  /\ Goes("join")
  /\ UNCHANGED <<globals, engines, user, lost>>

\* Then waited for, but for two seconds only: time enough for a thread that can
\* run, not for one that is recovering a session or has nothing to wake it.
Stuck(l) == \/ link[l].listener = "busy"
            \/ link[l].listener = "recv" /\ ~link[l].nudged

Join ==
  /\ At("join")
  /\ link[op.link].listener = "ended" \/ Stuck(op.link)
  /\ link' = [link EXCEPT ![op.link].sock = "closed"]
  /\ Goes("abort")
  /\ UNCHANGED <<globals, engines, user, lost>>

\* A bug: only what is still queued is failed.
AbortQueued ==
  /\ At("abort")
  /\ link' = [link EXCEPT ![op.link].aborted = TRUE]
  /\ user' = [u \in Users |-> IF user[u].link = op.link /\ user[u].pc = "queued"
                                THEN [user[u] EXCEPT !.pc = "holds"] ELSE user[u]]
  /\ Goes("dispose")
  /\ UNCHANGED <<globals, engines, lost>>

\* What is queued or awaits a reply is failed.
Abort ==
  /\ At("abort")
  /\ link' = [link EXCEPT ![op.link].aborted = TRUE]
  /\ user' = [u \in Users |-> IF user[u].link = op.link /\ user[u].pc \in {"queued", "sent"}
                                THEN [user[u] EXCEPT !.pc = "holds"] ELSE user[u]]
  /\ Goes("dispose")
  /\ UNCHANGED <<globals, engines, lost>>

\* However the transport was stopped, the engine is disposed.
Dispose ==
  /\ At("dispose")
  /\ engines' = engines \ {op.engine}
  /\ Returns(IF op.failed THEN "raised" ELSE "done")
  /\ UNCHANGED <<globals, link, user, lost>>

-----------------------------------------------------------------------------
(* The listener of a transport *)

Loop(l) ==
  /\ link[l] # None /\ link[l].listener = "looping"
  /\ link' = [link EXCEPT ![l].listener =
                 IF link[l].stopping \/ link[l].sock = "closed" THEN "ended" ELSE "recv"]
  /\ UNCHANGED <<globals, engines, op, last, user, lost>>

\* recv() returns, with the wake-up, with a reply, or with nothing for a while;
\* told to leave meanwhile, the thread leaves.
Received(l) ==
  IF link[l].stopping THEN "ended" ELSE "busy"

Recv(l) ==
  /\ link[l] # None /\ link[l].listener = "recv"
  /\ link' = [link EXCEPT ![l].listener = Received(l), ![l].nudged = FALSE]
  /\ \/ UNCHANGED user
     \/ \E u \in Users :
          /\ user[u].link = l /\ user[u].pc = "sent" /\ ~link[l].stopping
          /\ user' = [user EXCEPT ![u].pc = "holds"]
  /\ UNCHANGED <<globals, engines, op, last, lost>>

Turn(l) ==
  /\ link[l] # None /\ link[l].listener = "busy"
  /\ link' = [link EXCEPT ![l].listener = "looping"]
  /\ UNCHANGED <<globals, engines, op, last, user, lost>>

-----------------------------------------------------------------------------
(* Users *)

\* A bug: None is handed out once the library is closed.
GetLinkUnchecked(u) ==
  /\ user[u].pc = "idle"
  /\ user' = [user EXCEPT ![u] = [pc |-> "holds", link |-> globals.anidb]]
  /\ UNCHANGED <<globals, engines, link, op, last, lost>>

\* get_link(), or an object built now, which keeps the transport it was built
\* with.
GetLink(u) ==
  /\ user[u].pc = "idle" /\ globals.anidb # None
  /\ user' = [user EXCEPT ![u] = [pc |-> "holds", link |-> globals.anidb]]
  /\ UNCHANGED <<globals, engines, link, op, last, lost>>

\* request(): nothing asks whether the transport has been stopped, so one made
\* after the teardown is queued with nobody left to see it.
Request(u) ==
  /\ user[u].pc = "holds"
  /\ user' = [user EXCEPT ![u].pc = IF link[user[u].link].aborted THEN "unheard" ELSE "queued"]
  /\ UNCHANGED <<globals, engines, link, op, last, lost>>

Send(u) ==
  /\ user[u].pc = "queued" /\ ~link[user[u].link].stopped
  /\ user' = [user EXCEPT ![u].pc = "sent"]
  /\ UNCHANGED <<globals, engines, link, op, last, lost>>

\* REQUEST_TIMEOUT ends the wait of an unheard request.
GiveUp(u) ==
  /\ user[u].pc = "unheard"
  /\ user' = [user EXCEPT ![u].pc = "holds"]
  /\ UNCHANGED <<globals, engines, link, op, last, lost>>

Drop(u) ==
  /\ user[u].pc = "holds"
  /\ user' = [user EXCEPT ![u] = [pc |-> "idle", link |-> None]]
  /\ UNCHANGED <<globals, engines, link, op, last, lost>>

Init ==
  /\ globals = [engine |-> None, factory |-> None, anidb |-> None]
  /\ engines = {} /\ lost = {}
  /\ link = [l \in Clients |-> None]
  /\ op = None /\ last = "nothing"
  /\ user = [u \in Users |-> [pc |-> "idle", link |-> None]]

Next ==
  \/ \E dbOnly \in BOOLEAN, port \in Ports : InitCall(dbOnly, port)
  \/ OpenCache \/ BuildLink \/ Publish \/ PublishLink
  \/ Close \/ CloseCache \/ Logout \/ Stop \/ StopListener \/ Wake \/ Join \/ Abort \/ Dispose
  \/ \E l \in Clients : Loop(l) \/ Recv(l) \/ Turn(l)
  \/ \E u \in Users : GetLink(u) \/ Request(u) \/ Send(u) \/ GiveUp(u) \/ Drop(u)

Spec == Init /\ [][Next]_vars

-----------------------------------------------------------------------------
(* Properties *)

\* The type invariant.
TypeOK ==
  /\ globals \in [engine: Clients \cup {None}, factory: Clients \cup {None},
                  anidb: Clients \cup {None}]
  /\ engines \subseteq Clients /\ lost \subseteq Clients
  /\ link \in [Clients -> Links \cup {None}]
  /\ op \in Calls \cup {None}
  /\ last \in {"nothing", "done", "raised", "refused", "already"}
  /\ user \in [Users -> Holdings]
  /\ \A u \in Users : user[u].pc = "idle" <=> user[u].link = None

\* Whatever failed, an open engine is the published one, or in the hands of the
\* call under way: a failed init() gives back what it had opened, and close()
\* disposes the engine even when stopping the transport fails.  (But for what a
\* constructor that raises keeps to itself.)
NothingStranded ==
  engines \subseteq {globals.engine} \cup lost \cup (IF op = None THEN {} ELSE {op.engine})

\* Between two lifecycle calls the only source port held is that of the
\* published transport: close() has given it back when it returns, whatever the
\* listener was doing, so that an init() that follows can bind it.
PortIsBack ==
  op = None => \A l \in Clients : HoldsPort(l) => l = globals.anidb \/ l \in lost

\* get_link() never hands out a transport that is being stopped.
GetLinkIsLive ==
  globals.anidb # None =>
    LET l == link[globals.anidb]
    IN l # None /\ l.sock = "open" /\ ~l.stopped /\ ~l.stopping /\ l.listener # "ended"

\* Nobody who was waiting when the transport stopped is left to wait out a
\* timeout.  (Who asks later is: nothing tells request() that it is stopped.)
WaitersAreTold ==
  \A u \in Users : user[u].pc \in {"queued", "sent"} => ~link[user[u].link].aborted
=============================================================================
