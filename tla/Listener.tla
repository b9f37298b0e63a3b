------------------------------ MODULE Listener ------------------------------
(***************************************************************************)
(* AniDBListener: the thread that reads the socket, decides what a         *)
(* datagram is, and sweeps timeouts when the socket is quiet; and the      *)
(* short-lived threads that deliver ordinary replies.                      *)
(***************************************************************************)
EXTENDS TransportState

Reading == listener.pc = "recv" /\ socket = "open"

\* Any datagram at all ends a run of silence.
NoteDatagram(pc, c) == listener' = [listener EXCEPT !.pc = pc, !.cmd = c, !.silent = 0]

\* A reply can be matched to c: it is registered, and was sent under that tag.
Answerable(c) == Reading /\ net.at[c] = "wire"

\* The reply claims its command, and counts as having heard from AniDB.
Claimed(c) == Heard(Move(net, {c}, "gone"))

\* An ordinary command is answered: a thread of its own delivers the reply.
\* A LOGOUT acknowledged, and a reply that says this client may not log in,
\* also close the socket.
ReplyArrives(c) ==
  /\ Answerable(c) /\ c \in Ordinary
  /\ NoteDatagram("recv", NoCmd)
  /\ net' = Claimed(c)
  /\ delivering' = delivering \cup {c}
  /\ \/ socket' = (IF c = Logout THEN "closed" ELSE socket) /\ UNCHANGED trouble
     \/ socket' = "closed" /\ Cause("dismissal")
  /\ UNCHANGED <<apiKey, auth, gate, attempts, outcome, sender, stage, waiters,
                 stopped, dead>>

\* _deliver: the callback ran or raised, and only then is the outcome known.
Delivers(c) ==
  /\ c \in delivering
  /\ delivering' = delivering \ {c}
  /\ outcome' \in {Settle({c}, "reply"), Settle({c}, "error")}
  /\ stopped' = (stopped \/ c = Logout)
  /\ UNCHANGED <<apiKey, auth, gate, net, attempts, sender, listener, stage,
                 waiters, socket, dead, trouble>>

\* 501, 506 or 403: the session is lost.  This thread starts the next one, and
\* goes to sleep in its pacing wait ...
SessionLost(c, h) ==
  /\ Answerable(c) /\ c \in Cmds
  /\ Cause("sessionLost")
  /\ Reauthenticate(DropSession(auth), Claimed(c), h, "listener")
  /\ NoteDatagram(IF Launches(DropSession(auth)) THEN "sending" ELSE "recover", c)
  /\ UNCHANGED <<apiKey, gate, attempts, outcome, sender, connecting, closing, life,
                 delivering>>

\* ... and then requests the command again.
ListenerRecovers ==
  /\ listener.pc = "recover"
  /\ IF dead
     THEN /\ outcome' = Settle({listener.cmd}, "error")
          /\ UNCHANGED net
     ELSE /\ net' = QueuedFirst(net, listener.cmd)
          /\ UNCHANGED outcome
  /\ listener' = [listener EXCEPT !.pc = "recv", !.cmd = NoCmd]
  /\ UNCHANGED <<apiKey, auth, gate, attempts, sender, stage, waiters, life,
                 delivering, trouble>>

\* The session is lost and the command that learns it is the LOGOUT.
LogoutUnneeded ==
  /\ Answerable(Logout)
  /\ Cause("sessionLost")
  /\ NoteDatagram("recv", NoCmd)
  /\ net' = Claimed(Logout)
  /\ socket' = "closed"
  /\ UNCHANGED <<apiKey, auth, gate, attempts, outcome, sender, stage, waiters,
                 stopped, dead, delivering>>

\* A code that says stop, carrying the tag of c.
ReplyRefuses(c) ==
  /\ Answerable(c)
  /\ Cause("refusal")
  /\ NoteDatagram("recv", NoCmd)
  /\ net' = Claimed(c)
  /\ outcome' = Settle({c}, "error")
  /\ IF c \in Handshakes THEN AuthFailed("banned") ELSE SetBanned
  /\ UNCHANGED <<apiKey, attempts, sender, stage, waiters, life, delivering>>

\* A handshake succeeds: the session key is stored here, before the thread
\* that runs the handler starts.
HandshakeAccepted(h) ==
  /\ Answerable(h) /\ h \in Handshakes
  /\ NoteDatagram("recv", NoCmd)
  /\ net' = Claimed(h)
  /\ auth' = [auth EXCEPT !.session = @ \/ h \in Auths]
  /\ stage' = [stage EXCEPT ![h] = "answered"]
  /\ UNCHANGED <<apiKey, gate, attempts, outcome, sender, waiters, life, delivering,
                 trouble>>

\* Any other ordinary code: these credentials are refused for good.
HandshakeRejected(h) ==
  /\ Answerable(h) /\ h \in Handshakes
  /\ Cause("rejection")
  /\ NoteDatagram("recv", NoCmd)
  /\ net' = Claimed(h)
  /\ AuthFailed("refused")
  /\ UNCHANGED <<apiKey, attempts, outcome, sender, stage, waiters, life, delivering>>

\* A code that says stop, untagged or under a tag nothing waits on.
UntaggedRefusal ==
  /\ Reading
  /\ Cause("refusal")
  /\ NoteDatagram("recv", NoCmd)
  /\ net' = Heard(net)
  /\ SetBanned
  /\ UNCHANGED <<apiKey, attempts, outcome, sender, stage, waiters, life, delivering>>

\* 598, the encrypted session is gone: with nothing but a LOGOUT outstanding
\* the listener stops, otherwise it starts the next session.
EncryptionLost(h) ==
  /\ Reading /\ apiKey
  /\ Cause("encryptionLost")
  /\ IF ~net.stray /\ \A c \in All \ {Logout} : net.at[c] = "gone"
     THEN /\ h = NoCmd
          /\ socket' = "closed"
          /\ NoteDatagram("recv", NoCmd)
          /\ net' = Heard(net)
          /\ UNCHANGED <<auth, stage, stranded>>
     ELSE /\ Reauthenticate(DropSession(auth), Heard(net), h, "listener")
          /\ NoteDatagram(IF Launches(DropSession(auth)) THEN "sending" ELSE "recv", NoCmd)
          /\ UNCHANGED socket
  /\ UNCHANGED <<apiKey, gate, attempts, outcome, sender, connecting, closing, stopped,
                 dead, delivering>>

\* A datagram nothing can be done with: unreadable, or tagged with what nothing
\* waits on; or an untagged code nobody knows, which counts as having heard.
Noise ==
  /\ Reading
  /\ Cause("noise")
  /\ NoteDatagram("recv", NoCmd)
  /\ net' \in {net, Heard(net)}
  /\ UNCHANGED <<apiKey, auth, gate, attempts, outcome, sender, stage, waiters, life,
                 delivering>>

\* An exception run() does not catch (a compressed reply that does not inflate)
\* ends the thread with the socket still open.
ListenerCrashes ==
  /\ Reading
  /\ Cause("crash")
  /\ NoteDatagram("gone", NoCmd)
  /\ UNCHANGED <<apiKey, auth, gate, net, attempts, outcome, sender, stage, waiters,
                 life, delivering>>

\* Told to stop, the loop ends the next time round.
ListenerLeaves ==
  /\ listener.pc = "recv" /\ socket # "open"
  /\ listener' = [listener EXCEPT !.pc = "gone"]
  /\ UNCHANGED <<apiKey, auth, gate, net, attempts, outcome, sender, stage, waiters,
                 life, delivering, trouble>>

-----------------------------------------------------------------------------
(* The timeout sweep.                                                      *)

\* The socket was quiet for a whole timeout.  What was sent before the last
\* reply has expired; of the rest, whatever is old enough has.
SweepBegins ==
  /\ Reading
  /\ \E S \in SUBSET Started(net) :
       /\ S # {} /\ net.heard \subseteq S
       /\ listener' = [listener EXCEPT !.pc = "sweep", !.expired = S]
  /\ UNCHANGED <<apiKey, auth, gate, net, attempts, outcome, sender, stage, waiters,
                 life, delivering, trouble>>

\* The sweep moves on from c, pc being where it goes when c was not the last.
SweptTo(c, silent) ==
  LET rest == listener.expired \ {c}
  IN  listener' = [pc |-> IF rest = {} THEN "recv" ELSE "sweep", cmd |-> NoCmd,
                   expired |-> rest, silent |-> silent]

Sweeping(c) ==
  listener.pc = "sweep" /\ c \in listener.expired /\ net.at[c] # "gone"

\* Something else claimed the command since the sweep collected it.
SweepSkips(c) ==
  /\ listener.pc = "sweep" /\ c \in listener.expired /\ net.at[c] = "gone"
  /\ SweptTo(c, listener.silent)
  /\ UNCHANGED <<apiKey, auth, gate, net, attempts, outcome, sender, stage, waiters,
                 life, delivering, trouble>>

\* A reply came after it was sent, or it is waiting to be sent again: not a
\* timeout.
Stale(c) == net.at[c] = "unsent" \/ c \in net.heard

Silenced == listener.silent + 1 >= SILENT_TIMEOUTS_BEFORE_BAN

SweepRequests(c) ==
  IF dead
  THEN /\ outcome' = Settle({c}, "error")
       /\ net' = Move(net, {c}, "gone")
  ELSE /\ net' = QueuedFirst(net, c)
       /\ UNCHANGED outcome

SweepRequeuesStale(c) ==
  /\ Sweeping(c) /\ c \in Ordinary
  /\ Stale(c)
  /\ SweepRequests(c)
  /\ SweptTo(c, listener.silent)
  /\ UNCHANGED <<apiKey, auth, gate, attempts, sender, stage, waiters, life,
                 delivering, trouble>>

\* One unanswered command is ordinary: it is sent again while its budget lasts.
SweepRetries(c) ==
  /\ Sweeping(c) /\ c \in Ordinary
  /\ ~Stale(c) /\ ~Silenced
  /\ attempts[c] < MAX_ATTEMPTS
  /\ SweepRequests(c)
  /\ SweptTo(c, listener.silent + 1)
  /\ UNCHANGED <<apiKey, auth, gate, attempts, sender, stage, waiters, life,
                 delivering, trouble>>

\* The silence threshold is reached, or the budget is spent.
SweepFails(c) ==
  /\ Sweeping(c) /\ c \in Ordinary
  /\ ~Stale(c)
  /\ Silenced \/ attempts[c] >= MAX_ATTEMPTS
  /\ net' = Move(net, {c}, "gone")
  /\ outcome' = Settle({c}, "error")
  /\ SetBanned
  /\ SweptTo(c, listener.silent + 1)
  /\ UNCHANGED <<apiKey, attempts, sender, stage, waiters, life, delivering, trouble>>

\* An unanswered handshake is not retried.
SweepFailsHandshake(h) ==
  /\ Sweeping(h) /\ h \in Handshakes
  /\ ~Stale(h)
  /\ net' = Move(net, {h}, "gone")
  /\ AuthFailed("banned")
  /\ SweptTo(h, listener.silent)
  /\ UNCHANGED <<apiKey, attempts, outcome, sender, stage, waiters, life, delivering,
                 trouble>>

\* One that a reply came after is sent again, from this thread.
SweepResendsHandshake(h) ==
  /\ Sweeping(h) /\ h \in Handshakes
  /\ Stale(h)
  /\ IF dead
     THEN /\ net' = Move(net, {h}, "gone")
          /\ SweptTo(h, listener.silent)
          /\ UNCHANGED stage
     ELSE IF gate = "open"
     THEN /\ net' = [Move(net, {h}, "gone") EXCEPT !.stray = TRUE]
          /\ SweptTo(h, listener.silent)
          /\ UNCHANGED stage
     ELSE /\ net' = Move(net, {h}, "unsent")
          /\ stage' = [stage EXCEPT ![h] = "sweep"]
          /\ listener' = [listener EXCEPT !.pc = "sending", !.expired = @ \ {h}]
  /\ UNCHANGED <<apiKey, auth, gate, attempts, outcome, sender, waiters, life,
                 delivering, trouble>>

DatagramNext ==
  \/ \E c \in Ordinary : ReplyArrives(c)
  \/ \E c \in Cmds, h \in HandshakeChoice : SessionLost(c, h)
  \/ LogoutUnneeded
  \/ \E c \in All : ReplyRefuses(c)
  \/ \E h \in Handshakes : HandshakeAccepted(h)
  \/ \E h \in Handshakes : HandshakeRejected(h)
  \/ UntaggedRefusal
  \/ \E h \in HandshakeChoice : EncryptionLost(h)
  \/ Noise
  \/ ListenerCrashes

ListenerNext ==
  \/ ListenerRecovers
  \/ ListenerLeaves
  \/ SweepBegins
  \/ \E c \in All : SweepSkips(c)
  \/ \E c \in Ordinary : SweepRequeuesStale(c)
  \/ \E c \in Ordinary : SweepRetries(c)
  \/ \E c \in Ordinary : SweepFails(c)
  \/ \E h \in Handshakes : SweepFailsHandshake(h)
  \/ \E h \in Handshakes : SweepResendsHandshake(h)
=============================================================================
