--------------------------- MODULE TransportState ---------------------------
(***************************************************************************)
(* What the two threads of the UDP transport share, and the helpers both   *)
(* call.  AniDBLink (Link.tla) is the sender thread and the handshake any  *)
(* thread may start; AniDBListener (Listener.tla) reads replies and sweeps *)
(* timeouts.  Transport.tla composes them.                                 *)
(*                                                                         *)
(* Time is abstracted to what it decides: whether the back-off window is   *)
(* open, whether a command was sent before the last reply came, and which  *)
(* commands a timeout sweep finds expired.  A tag is abstracted to being   *)
(* current or not: a command is registered under its latest tag, and a     *)
(* reply to any other tag answers nothing.                                 *)
(***************************************************************************)
EXTENDS Naturals, FiniteSets, SequencesExt

CONSTANTS
  Cmds,          \* commands the application asks for
  Logout,        \* the LOGOUT command stop() sends
  Auths,         \* AUTH commands; bound: in the transport's hands at once
  Encrypts,      \* ENCRYPT commands; the same bound
  NoCmd,         \* no command
  ApiKeys,       \* the values "an api_key is configured" may take
  MAX_ATTEMPTS,  \* Command.MAX_ATTEMPTS
  SILENT_TIMEOUTS_BEFORE_BAN,
  MayStop,       \* whether the application may call stop()
  Troubles,      \* the kinds of trouble the environment may cause
  MaxTrouble     \* bound: how many times it does

Handshakes == Auths \cup Encrypts
Ordinary == Cmds \cup {Logout}
All == Ordinary \cup Handshakes

ASSUME TransportAssumption ==
  /\ Cmds # {} /\ Auths # {} /\ Encrypts # {}
  /\ Logout \notin Cmds
  /\ Auths \cap Encrypts = {}
  /\ Ordinary \cap Handshakes = {}
  /\ NoCmd \notin All
  /\ ApiKeys \subseteq BOOLEAN /\ ApiKeys # {}
  /\ MAX_ATTEMPTS \in Nat \ {0}
  /\ SILENT_TIMEOUTS_BEFORE_BAN \in Nat \ {0}
  /\ MayStop \in BOOLEAN
  /\ MaxTrouble \in Nat

VARIABLES
  apiKey,      \* _api_key is set
  auth,        \* what _auth_lock guards: the session and the attempt at one
  gate,        \* the back-off window: clear, open, or elapsed but standing
  net,         \* the send queue and the table of commands awaiting a reply
  attempts,    \* Command.attempts
  outcome,     \* Command.future
  sender,      \* the sender thread: where it is, and the command it holds
  listener,    \* the listener thread: the same, and its sweep
  stage,       \* per handshake command: waiting to be sent, by which thread;
               \* answered and with its handler running; or neither
  stranded,    \* waiters on an attempt that was replaced before it settled
  connecting,  \* the application thread inside connect()
  closing,     \* the application thread inside stop()
  socket,      \* open, open with the listener told to stop, or closed
  stopped,     \* _stop
  dead,        \* _dead is set
  delivering,  \* ordinary commands whose reply a thread is handling
  trouble      \* how often the environment caused trouble

waiters == <<stranded, connecting, closing>>
life == <<socket, stopped, dead>>
vars == <<apiKey, auth, gate, net, attempts, outcome, sender, listener, stage,
          waiters, life, delivering, trouble>>

Senders == {"sender", "app", "listener", "sweep", "reply"}

Init ==
  /\ apiKey \in ApiKeys
  /\ auth = [authed |-> FALSE, authenticating |-> FALSE, session |-> FALSE,
             cipher |-> FALSE, fatal |-> FALSE, attempt |-> "none"]
  /\ gate = "clear"
  /\ net = [queue |-> <<>>, at |-> [c \in All |-> "gone"], heard |-> {}, stray |-> FALSE]
  /\ attempts = [c \in Ordinary |-> 0]
  /\ outcome = [c \in Ordinary |-> "idle"]
  /\ sender = [pc |-> "take", cmd |-> NoCmd]
  /\ listener = [pc |-> "recv", cmd |-> NoCmd, expired |-> {}, silent |-> 0]
  /\ stage = [h \in Handshakes |-> "idle"]
  /\ stranded = {} /\ connecting = "idle" /\ closing = "idle"
  /\ socket = "open" /\ stopped = FALSE /\ dead = FALSE
  /\ delivering = {}
  /\ trouble = 0

Alive == socket # "closed" /\ listener.pc # "gone"

\* One more trouble of kind k, if the environment has one left.
Cause(k) ==
  /\ k \in Troubles
  /\ trouble < MaxTrouble
  /\ trouble' = trouble + 1

-----------------------------------------------------------------------------
(* Commands.  net.at says whether a command is registered, and whether it  *)
(* has been sent under its current tag (started is not None): unsent, on   *)
(* the wire, or lost because the socket would not take it.  net.heard has  *)
(* those with started < _last_receive.  net.stray: the table also holds a  *)
(* handshake that was refused before it was sent, which nothing removes.   *)

Started(n) == {c \in All : n.at[c] \in {"wire", "lost"}}

Move(n, S, where) ==
  [n EXCEPT !.at = [c \in All |-> IF c \in S THEN where ELSE n.at[c]],
            !.heard = @ \ S]

\* Mistake: a command that was never sent counts as older than the reply.
HeardUnsent(n) == [n EXCEPT !.heard = {c \in All : n.at[c] # "gone"}]

\* A reply that could be read: everything sent so far is older than it.
Heard(n) == [n EXCEPT !.heard = Started(n)]

\* request() of an ordinary command: a new tag, registered, queued.
Queued(n, c) == [Move(n, {c}, "unsent") EXCEPT !.queue = Append(@, c)]

\* Mistake: a command requested again is registered and not queued.
RegisteredOnly(n, c) == Move(n, {c}, "unsent")

QueuedFirst(n, c) == [Move(n, {c}, "unsent") EXCEPT !.queue = <<c>> \o @]

\* Mistake: the future is not asked whether it is done.
SettleAgain(S, how) == [c \in Ordinary |-> IF c \in S THEN how ELSE outcome[c]]

\* Command.fail and Command.succeed: the first conclusion stands.
Settle(S, how) ==
  [c \in Ordinary |-> IF c \in S /\ outcome[c] \in {"asking", "pending"}
                      THEN how ELSE outcome[c]]

\* _abort_pending: everything queued or registered is failed.
AbortPending(extra) ==
  /\ outcome' = Settle({c \in All : net.at[c] # "gone"} \cup ToSet(net.queue) \cup extra,
                       "error")
  /\ net' = [Move(net, All, "gone") EXCEPT !.queue = <<>>, !.stray = FALSE]

-----------------------------------------------------------------------------
(* The session and the handshake.                                          *)

DropSession(a) == [a EXCEPT !.authed = FALSE, !.session = FALSE, !.cipher = FALSE]

\* _settle_auth: only an attempt that has not settled yet.
SettleAuth(a, how) ==
  [a EXCEPT !.attempt = IF @ = "pending" THEN how ELSE @]

\* Mistake: the window opens and the session stays.
SetBannedKeepsSession ==
  /\ gate' = "open"
  /\ auth' = [auth EXCEPT !.authenticating = FALSE]

\* set_banned: the window opens and the session goes.  The attempt in flight,
\* if any, is not settled.
SetBanned ==
  /\ gate' = "open"
  /\ auth' = [DropSession(auth) EXCEPT !.authenticating = FALSE]

\* Mistake: a failed handshake still counts as one in flight.
AuthFailedStillInFlight(how) ==
  /\ gate' = IF how = "banned" THEN "open" ELSE gate
  /\ auth' = [SettleAuth(DropSession(auth), how) EXCEPT !.fatal = @ \/ how = "refused"]

\* auth_failed: a back-off for a code that says stop (and for silence), and a
\* latched refusal for any other.
AuthFailed(how) ==
  /\ gate' = IF how = "banned" THEN "open" ELSE gate
  /\ auth' = [SettleAuth(DropSession(auth), how) EXCEPT
                !.authenticating = FALSE, !.fatal = @ \/ how = "refused"]

FirstHandshake == IF apiKey THEN Encrypts ELSE Auths

\* A new command object: one the transport has no hold on.  They are alike, so
\* any one will do.
Fresh(n, S) ==
  LET free == {h \in S : n.at[h] = "gone" /\ stage[h] = "idle"}
  IN  IF free = {} THEN {} ELSE {CHOOSE h \in free : TRUE}

\* request() of a handshake command by thread t, up to its pacing wait: it is
\* registered, and the open window refuses it there and then.
Launch(n, h, t) ==
  IF gate = "open"
  THEN /\ net' = [n EXCEPT !.stray = TRUE]
       /\ UNCHANGED stage
  ELSE /\ net' = Move(n, {h}, "unsent")
       /\ stage' = [stage EXCEPT ![h] = t]

Wanted(a) == ~a.fatal /\ ~a.authenticating /\ ~a.authed

\* Whether _reauthenticate gets as far as the pacing wait.
Launches(a) == Wanted(a) /\ gate # "open"

Waiting == (IF sender.pc = "await" THEN {"sender"} ELSE {})
             \cup (IF connecting = "await" THEN {"app"} ELSE {})

\* _reauthenticate by thread t, from session state a and table n: nothing when
\* no handshake is wanted; otherwise a new attempt takes the place of the last,
\* and settles at once if the window forbids sending.
Reauthenticate(a, n, h, t) ==
  IF Wanted(a)
  THEN /\ h \in Fresh(n, FirstHandshake)
       /\ Launch(n, h, t)
       /\ auth' = [a EXCEPT !.authenticating = gate # "open",
                            !.attempt = IF gate = "open" THEN "banned" ELSE "pending"]
       /\ stranded' = IF a.attempt = "pending" THEN stranded \cup Waiting ELSE stranded
  ELSE /\ h = NoCmd
       /\ net' = n /\ auth' = a
       /\ UNCHANGED <<stage, stranded>>

HandshakeChoice == Handshakes \cup {NoCmd}
=============================================================================
