-------------------------------- MODULE Link --------------------------------
(***************************************************************************)
(* AniDBLink: the sender thread's loop, requests and connect() on the      *)
(* application's threads, the handshake commands whichever thread sends    *)
(* them, the handlers of their replies, and stop().                        *)
(***************************************************************************)
EXTENDS TransportState

(* The application: request(), connect().                                  *)

\* request() finds the transport not dead ...
Ask(c) ==
  /\ outcome[c] = "idle" /\ closing # "stopped"
  /\ outcome' = [outcome EXCEPT ![c] = IF dead THEN "error" ELSE "asking"]
  /\ UNCHANGED <<apiKey, auth, gate, net, attempts, sender, listener, stage,
                 waiters, life, delivering, trouble>>

\* ... and registers and queues the command.
Enqueue(c) ==
  /\ outcome[c] = "asking"
  /\ net' = Queued(net, c)
  /\ outcome' = [outcome EXCEPT ![c] = "pending"]
  /\ UNCHANGED <<apiKey, auth, gate, attempts, sender, listener, stage,
                 waiters, life, delivering, trouble>>

Connect(h) ==
  /\ connecting = "idle" /\ closing = "idle"
  /\ Reauthenticate(auth, net, h, "app")
  /\ connecting' = IF Launches(auth) THEN "sending" ELSE "await"
  /\ UNCHANGED <<apiKey, gate, attempts, outcome, sender, listener, closing,
                 life, delivering, trouble>>

\* _await_auth on the application's thread: connected, told why not, or out
\* of patience.  Every case ends the call.
ConnectReturns ==
  /\ connecting = "await"
  /\ connecting' = IF ~auth.fatal /\ auth.authed THEN "connected" ELSE "failed"
  /\ stranded' = stranded \ {"app"}
  /\ UNCHANGED <<apiKey, auth, gate, net, attempts, outcome, sender, listener,
                 stage, closing, life, delivering, trouble>>

-----------------------------------------------------------------------------
(* A handshake command after its pacing wait, in the thread t that sends   *)
(* it.  Nothing looks at the back-off window again.                        *)

Ignored(h) == (h \in Auths /\ auth.authed) \/ (h \in Encrypts /\ auth.cipher)

\* Where thread t goes once the handshake command is out of its hands.
ThreadReturns(t) ==
  /\ sender' = IF t = "sender" THEN [sender EXCEPT !.pc = "await"] ELSE sender
  /\ connecting' = IF t = "app" THEN "await" ELSE connecting
  /\ listener' =
       IF t = "listener"
       THEN [listener EXCEPT !.pc = IF listener.cmd = NoCmd THEN "recv" ELSE "recover"]
       ELSE IF t = "sweep"
       THEN [listener EXCEPT !.pc = IF listener.expired = {} THEN "recv" ELSE "sweep"]
       ELSE listener

HandshakeLeaves(h) ==
  /\ stage[h] \in Senders
  /\ Alive /\ ~Ignored(h)
  /\ stage' = [stage EXCEPT ![h] = "idle"]
  /\ \/ /\ net' = Move(net, {h}, "wire")
        /\ UNCHANGED <<auth, gate, trouble>>
     \/ /\ Cause("local")
        /\ net' = Move(net, {h}, "lost")
        /\ SetBanned
  /\ ThreadReturns(stage[h])
  /\ UNCHANGED <<apiKey, attempts, outcome, stranded, closing, life, delivering>>

\* A second login, or a second key exchange, is not sent, and stays registered.
HandshakeIgnored(h) ==
  /\ stage[h] \in Senders
  /\ Alive /\ Ignored(h)
  /\ stage' = [stage EXCEPT ![h] = "idle"]
  /\ net' = [Move(net, {h}, "gone") EXCEPT !.stray = TRUE]
  /\ ThreadReturns(stage[h])
  /\ UNCHANGED <<apiKey, auth, gate, attempts, outcome, stranded, closing, life,
                 delivering, trouble>>

\* The listener has died.  _reauthenticate settles the attempt with that; a
\* reply thread, or the sweep, only fails the command.
HandshakeAborts(h) ==
  /\ stage[h] \in Senders
  /\ ~Alive
  /\ stage' = [stage EXCEPT ![h] = "idle"]
  /\ net' = [Move(net, {h}, "gone") EXCEPT !.stray = TRUE]
  /\ auth' = IF stage[h] \in {"reply", "sweep"} THEN auth
             ELSE [SettleAuth(auth, "error") EXCEPT !.authenticating = FALSE]
  /\ ThreadReturns(stage[h])
  /\ UNCHANGED <<apiKey, gate, attempts, outcome, stranded, closing, life,
                 delivering, trouble>>

-----------------------------------------------------------------------------
(* The handlers of a handshake's reply, each on a thread of its own.       *)

\* The first half of both: the cipher is set, the back-off is forgiven.
HandlerForgives(h) ==
  /\ stage[h] = "answered"
  /\ stage' = [stage EXCEPT ![h] = "forgiven"]
  /\ gate' = "clear"
  /\ auth' = [auth EXCEPT !.cipher = @ \/ h \in Encrypts]
  /\ UNCHANGED <<apiKey, net, attempts, outcome, sender, listener, waiters, life,
                 delivering, trouble>>

\* Mistake: the login is recorded and the attempt left open.
AuthHandlerStillInFlight(h) ==
  /\ h \in Auths /\ stage[h] = "forgiven"
  /\ stage' = [stage EXCEPT ![h] = "idle"]
  /\ auth' = [SettleAuth(auth, "ok") EXCEPT !.authed = TRUE]
  /\ UNCHANGED <<apiKey, gate, net, attempts, outcome, sender, listener, waiters,
                 life, delivering, trouble>>

\* _auth_handler, the rest: logged in.
AuthHandler(h) ==
  /\ h \in Auths /\ stage[h] = "forgiven"
  /\ stage' = [stage EXCEPT ![h] = "idle"]
  /\ auth' = [SettleAuth(auth, "ok") EXCEPT !.authed = TRUE, !.authenticating = FALSE]
  /\ UNCHANGED <<apiKey, gate, net, attempts, outcome, sender, listener, waiters,
                 life, delivering, trouble>>

\* _encryption_handler, the rest: AUTH, unless the cipher is gone again.
SendAuth(h, a) ==
  /\ h \in Encrypts /\ stage[h] = "forgiven"
  /\ LET rest == [stage EXCEPT ![h] = "idle"]
     IN  IF ~auth.cipher
         THEN /\ a = NoCmd
              /\ stage' = rest
              /\ UNCHANGED net
         ELSE /\ a \in Fresh(net, Auths)
              /\ IF gate = "open"
                 THEN /\ net' = [net EXCEPT !.stray = TRUE]
                      /\ stage' = rest
                 ELSE /\ net' = Move(net, {a}, "unsent")
                      /\ stage' = [rest EXCEPT ![a] = "reply"]
  /\ UNCHANGED <<apiKey, auth, gate, attempts, outcome, sender, listener, waiters,
                 life, delivering, trouble>>

-----------------------------------------------------------------------------
(* The sender thread: run().                                               *)

At(pc) == sender.pc = pc /\ sender.cmd # NoCmd

SenderTakes ==
  /\ sender.pc = "take" /\ ~stopped
  /\ net.queue # <<>>
  /\ net' = [net EXCEPT !.queue = Tail(@)]
  /\ sender' = [pc |-> IF auth.authed THEN "check" ELSE "reauth",
                cmd |-> Head(net.queue)]
  /\ UNCHANGED <<apiKey, auth, gate, attempts, outcome, listener, stage, waiters,
                 life, delivering, trouble>>

SenderStops ==
  /\ sender.pc = "take" /\ stopped
  /\ sender' = [sender EXCEPT !.pc = "gone"]
  /\ UNCHANGED <<apiKey, auth, gate, net, attempts, outcome, listener, stage,
                 waiters, life, delivering, trouble>>

\* reauthenticate() drops the session first, whatever it is.
SenderReauthenticates(h) ==
  /\ At("reauth")
  /\ Reauthenticate(DropSession(auth), net, h, "sender")
  /\ sender' = [sender EXCEPT !.pc = IF Launches(DropSession(auth))
                                     THEN "sending" ELSE "await"]
  /\ UNCHANGED <<apiKey, gate, attempts, outcome, listener, connecting, closing,
                 life, delivering, trouble>>

Free(pc) == [pc |-> pc, cmd |-> NoCmd]
AfterLogout == IF sender.cmd = Logout THEN "gone" ELSE "take"

\* _fail_command, and back to the head of the loop (or out of it).
SenderFails(next) ==
  /\ net' = Move(net, {sender.cmd}, "gone")
  /\ outcome' = Settle({sender.cmd}, "error")
  /\ sender' = Free(next)

\* A waiter sees the login or the latched refusal whatever it waits on; the
\* attempt it joined only if that was not replaced.
SenderAwaitSucceeds ==
  /\ At("await")
  /\ ~auth.fatal /\ auth.authed
  /\ sender' = [sender EXCEPT !.pc = "check"]
  /\ stranded' = stranded \ {"sender"}
  /\ UNCHANGED <<apiKey, auth, gate, net, attempts, outcome, listener, stage,
                 connecting, closing, life, delivering, trouble>>

SenderAwaitRefused ==
  /\ At("await")
  /\ \/ auth.fatal
     \/ ~auth.authed /\ auth.attempt \in {"banned", "refused"} /\ "sender" \notin stranded
  /\ SenderFails(AfterLogout)
  /\ stranded' = stranded \ {"sender"}
  /\ UNCHANGED <<apiKey, auth, gate, attempts, listener, stage, connecting, closing,
                 life, delivering, trouble>>

\* Handshake commands that may still bring the attempt to an end.
Underway == {h \in Handshakes : stage[h] # "idle" \/ net.at[h] \in {"wire", "lost"}}

\* Mistake: the command whose login did not come is not put back.
DropHeld == net

\* The command goes back to the front of the queue; a LOGOUT is dropped.
PutBack ==
  IF sender.cmd = Logout THEN net ELSE [net EXCEPT !.queue = <<sender.cmd>> \o @]

\* The wait ends some other way: the attempt was replaced, ended without a
\* verdict, or outlasts the handshake budget, which it does only when nothing
\* is left that could settle it -- the budget is AUTH_TIMEOUT_FACTOR times the
\* timeout that fails the handshake.
SenderAwaitGivesUp ==
  /\ At("await")
  /\ ~auth.fatal /\ ~auth.authed
  /\ \/ "sender" \in stranded \/ auth.attempt \in {"none", "error", "ok"}
     \/ auth.attempt = "pending" /\ (Underway = {} \/ listener.pc = "gone")
  /\ stranded' = stranded \ {"sender"}
  /\ sender' = Free(AfterLogout)
  /\ net' = PutBack
  /\ UNCHANGED <<apiKey, auth, gate, attempts, outcome, listener, stage,
                 connecting, closing, life, delivering, trouble>>

\* The refusal check at the head of _send_command, and then its wait().
SenderChecks ==
  /\ At("check")
  /\ IF gate = "open"
     THEN SenderFails("take")
     ELSE /\ sender' = [sender EXCEPT !.pc = "paced"]
          /\ UNCHANGED <<net, outcome>>
  /\ UNCHANGED <<apiKey, auth, gate, attempts, listener, stage, waiters, life,
                 delivering, trouble>>

\* After the wait there is no session to authorize the command with.
SenderUnauthorized ==
  /\ At("paced")
  /\ Alive /\ ~auth.session
  /\ SenderFails("take")
  /\ UNCHANGED <<apiKey, auth, gate, attempts, listener, stage, waiters, life,
                 delivering, trouble>>

SenderSends ==
  /\ At("paced")
  /\ Alive /\ auth.session
  /\ attempts' = [attempts EXCEPT ![sender.cmd] = @ + 1]
  /\ \/ /\ net' = Move(net, {sender.cmd}, "wire")
        /\ UNCHANGED <<auth, gate, trouble>>
     \/ /\ Cause("local")
        /\ net' = [Move(net, {sender.cmd}, "lost") EXCEPT !.queue = <<sender.cmd>> \o @]
        /\ SetBanned
  /\ sender' = Free(AfterLogout)
  /\ UNCHANGED <<apiKey, outcome, listener, stage, waiters, life, delivering>>

\* The listener has died: everything queued or in flight is failed.
SenderAbandons ==
  /\ At("paced")
  /\ ~Alive
  /\ dead' = TRUE
  /\ AbortPending({sender.cmd})
  /\ sender' = Free("gone")
  /\ UNCHANGED <<apiKey, auth, gate, attempts, listener, stage, waiters,
                 socket, stopped, delivering, trouble>>

-----------------------------------------------------------------------------
(* stop().                                                                 *)

\* Logged in, a LOGOUT is requested and waited for; otherwise nothing is sent.
Stop ==
  /\ closing = "idle" /\ MayStop
  /\ IF auth.authed /\ ~dead
     THEN /\ closing' = "logout"
          /\ outcome' = [outcome EXCEPT ![Logout] = "pending"]
          /\ net' = Queued(net, Logout)
     ELSE /\ closing' = "teardown"
          /\ UNCHANGED <<outcome, net>>
  /\ UNCHANGED <<apiKey, auth, gate, attempts, sender, listener, stage, stranded,
                 connecting, life, delivering, trouble>>

\* Mistake: the listener is told to stop and the sender is not.
TeardownForgetsTheSender ==
  /\ closing \in {"logout", "teardown"}
  /\ closing' = "joining"
  /\ socket' = IF socket = "open" THEN "told" ELSE socket
  /\ UNCHANGED <<apiKey, auth, gate, net, attempts, outcome, sender, listener, stage,
                 stranded, connecting, stopped, dead, delivering, trouble>>

\* _teardown, after the acknowledgement or the caller's patience: both threads
\* are told to end ...
Teardown ==
  /\ closing \in {"logout", "teardown"}
  /\ closing' = "joining"
  /\ stopped' = TRUE
  /\ socket' = IF socket = "open" THEN "told" ELSE socket
  /\ UNCHANGED <<apiKey, auth, gate, net, attempts, outcome, sender, listener, stage,
                 stranded, connecting, dead, delivering, trouble>>

\* ... and once the listener has, everything queued or in flight is failed.
\* The join is bounded, and shorter than a pacing wait the listener may be in.
Joined ==
  /\ closing = "joining"
  /\ listener.pc \in {"gone", "sending"}
  /\ closing' = "stopped"
  /\ socket' = "closed"
  /\ AbortPending({})
  /\ UNCHANGED <<apiKey, auth, gate, attempts, sender, listener, stage, stranded,
                 connecting, stopped, dead, delivering, trouble>>

LinkNext ==
  \/ \E c \in Cmds : Ask(c)
  \/ \E c \in Cmds : Enqueue(c)
  \/ \E h \in HandshakeChoice : Connect(h)
  \/ ConnectReturns
  \/ Stop
  \/ Teardown
  \/ Joined

HandshakeStep(h) ==
  \/ HandshakeLeaves(h)
  \/ HandshakeIgnored(h)
  \/ HandshakeAborts(h)
  \/ HandlerForgives(h)
  \/ AuthHandler(h)
  \/ \E a \in HandshakeChoice : SendAuth(h, a)

SenderNext ==
  \/ SenderTakes
  \/ SenderStops
  \/ \E h \in HandshakeChoice : SenderReauthenticates(h)
  \/ SenderAwaitSucceeds
  \/ SenderAwaitRefused
  \/ SenderAwaitGivesUp
  \/ SenderChecks
  \/ SenderUnauthorized
  \/ SenderSends
  \/ SenderAbandons
=============================================================================
