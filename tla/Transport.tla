----------------------------- MODULE Transport -----------------------------
(***************************************************************************)
(* The UDP transport: AniDBLink and AniDBListener over their shared state, *)
(* with datagrams that may be lost or delayed, and an environment that     *)
(* causes trouble.                                                         *)
(***************************************************************************)
EXTENDS Link, Listener

\* The window passes by the clock alone; the back-off stands until a login.
WindowElapses ==
  /\ gate = "open"
  /\ gate' = "elapsed"
  /\ UNCHANGED <<apiKey, auth, net, attempts, outcome, sender, listener, stage,
                 waiters, life, delivering, trouble>>

Next ==
  \/ LinkNext
  \/ SenderNext
  \/ \E h \in Handshakes : HandshakeStep(h)
  \/ DatagramNext
  \/ ListenerNext
  \/ \E c \in Ordinary : Delivers(c)
  \/ WindowElapses

Spec == Init /\ [][Next]_vars

\* Every thread keeps running and the clock keeps moving.  Nothing makes an
\* application ask, or a datagram arrive.
Fairness ==
  /\ WF_vars(SenderNext)
  /\ WF_vars(ListenerNext)
  /\ \A h \in Handshakes : WF_vars(HandshakeStep(h))
  /\ \A c \in Cmds : WF_vars(Enqueue(c))
  /\ \A c \in Ordinary : WF_vars(Delivers(c))
  /\ WF_vars(Teardown)
  /\ WF_vars(Joined)
  /\ WF_vars(WindowElapses)

FairSpec == Spec /\ Fairness

-----------------------------------------------------------------------------
(* Properties.                                                             *)

\* Every variable has its type; only what was sent can be older than a reply.
TypeOK ==
  /\ apiKey \in BOOLEAN
  /\ auth \in [authed : BOOLEAN, authenticating : BOOLEAN, session : BOOLEAN,
               cipher : BOOLEAN, fatal : BOOLEAN,
               attempt : {"none", "pending", "ok", "error", "banned", "refused"}]
  /\ gate \in {"clear", "open", "elapsed"}
  /\ net.queue \in Seq(Ordinary)
  /\ net.at \in [All -> {"gone", "unsent", "wire", "lost"}]
  /\ net.heard \subseteq Started(net)
  /\ net.stray \in BOOLEAN
  /\ attempts \in [Ordinary -> Nat]
  /\ outcome \in [Ordinary -> {"idle", "asking", "pending", "reply", "error"}]
  /\ sender.pc \in {"take", "reauth", "sending", "await", "check", "paced", "gone"}
  /\ sender.cmd \in Ordinary \cup {NoCmd}
  /\ listener.pc \in {"recv", "sending", "recover", "sweep", "gone"}
  /\ listener.cmd \in Cmds \cup {NoCmd}
  /\ listener.expired \subseteq All
  /\ listener.silent \in Nat
  /\ stage \in [Handshakes -> Senders \cup {"idle", "answered", "forgiven"}]
  /\ stranded \subseteq {"sender", "app"}
  /\ connecting \in {"idle", "sending", "await", "connected", "failed"}
  /\ closing \in {"idle", "logout", "teardown", "joining", "stopped"}
  /\ socket \in {"open", "told", "closed"} /\ stopped \in BOOLEAN /\ dead \in BOOLEAN
  /\ delivering \subseteq Ordinary
  /\ trouble \in 0 .. MaxTrouble

\* A request nobody has answered is always in some thread's hands: queued, held
\* by the sender or by the listener, sent and so within the sweep's reach, or
\* being delivered.  The queue, the table and the two threads' hands are four
\* places, and a command moves between them without one lock around the move.
EveryRequestIsHeld ==
  \A c \in Cmds : outcome[c] = "pending" =>
    \/ c \in ToSet(net.queue)
    \/ c \in {sender.cmd, listener.cmd}
    \/ net.at[c] \in {"wire", "lost"}
    \/ c \in delivering

\* While the window is open there is no session to authorize a command with,
\* so one that passed the refusal check before the window opened is stopped by
\* the second check after its wait.  The exception is a login AniDB accepts
\* meanwhile, until its handler has run.
OpenGateHoldsNoSession ==
  gate = "open" /\ auth.session =>
    \E h \in Auths : stage[h] \in {"answered", "forgiven"}

\* A request is settled once: what its caller was told is never replaced,
\* although a reply, the sweep, a refusal and the teardown may all reach a
\* conclusion about the same command (commands.py:88-98).
OutcomeStands ==
  [][\A c \in Ordinary : outcome[c] \in {"reply", "error"} => outcome'[c] = outcome[c]]_vars

\* While a handshake is said to be in flight, and the listener lives, some
\* command that can still end it is: waiting to be sent, sent and within the
\* sweep's reach, or answered.  Otherwise every later attempt declines to start
\* and none is coming.  (Without encryption; see EveryAttemptSettles.)
AttemptIsCarried == auth.authenticating => Underway # {} \/ ~Alive

\* Every attempt settles: the flag that keeps other attempts from starting is
\* always cleared again (SPEC-002: "Every attempt settles").
EveryAttemptSettles == auth.authenticating ~> ~auth.authenticating \/ closing # "idle"

\* Every request has an outcome, as long as the transport is not being stopped.
EveryRequestSettles ==
  \A c \in Cmds : outcome[c] = "pending" ~>
    outcome[c] \in {"reply", "error"} \/ closing # "idle"

\* A transport that is stopped ends both of its threads, whatever they were in
\* the middle of: a paced send, a wait for a login, a sweep, a recovery.
ThreadsEnd == closing = "stopped" ~> sender.pc = "gone" /\ listener.pc = "gone"

-----------------------------------------------------------------------------
(* What the documentation says and the code does not keep.                 *)

\* "A configured key makes encryption mandatory" (SPEC-002:16): with an api_key
\* no AUTH leaves unless the cipher is in place.
AuthIsEncrypted ==
  [][\A h \in Auths : apiKey /\ net.at[h] # "wire" /\ net'.at[h] = "wire"
                        => auth.cipher]_vars
=============================================================================
