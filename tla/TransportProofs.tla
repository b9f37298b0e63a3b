-------------------------- MODULE TransportProofs --------------------------
(* What the transport promises, for any commands, handshakes, budgets and     *)
(* troubles.                                                                  *)
EXTENDS Transport, SequenceTheorems, TLAPS

\* The records the variables range over.
Sessions ==
  [authed : BOOLEAN, authenticating : BOOLEAN, session : BOOLEAN, cipher : BOOLEAN,
   fatal : BOOLEAN, attempt : {"none", "pending", "ok", "error", "banned", "refused"}]

Nets == [queue : Seq(Ordinary), at : [All -> {"gone", "unsent", "wire", "lost"}],
         heard : SUBSET All, stray : BOOLEAN]

Well(n) == n \in Nets /\ n.heard \subseteq Started(n)

SenderThreads ==
  [pc : {"take", "reauth", "sending", "await", "check", "paced", "gone"},
   cmd : Ordinary \cup {NoCmd}]

ListenerThreads ==
  [pc : {"recv", "sending", "recover", "sweep", "gone"}, cmd : Cmds \cup {NoCmd},
   expired : SUBSET All, silent : Nat]

\* The types of the variables with structure ...
Shapes ==
  /\ auth \in Sessions /\ Well(net)
  /\ sender \in SenderThreads /\ listener \in ListenerThreads
  /\ outcome \in [Ordinary -> {"idle", "asking", "pending", "reply", "error"}]
  /\ stage \in [Handshakes -> Senders \cup {"idle", "answered", "forgiven"}]

\* ... and of those without.
Scalars ==
  /\ apiKey \in BOOLEAN /\ gate \in {"clear", "open", "elapsed"}
  /\ attempts \in [Ordinary -> Nat]
  /\ stranded \subseteq {"sender", "app"}
  /\ connecting \in {"idle", "sending", "await", "connected", "failed"}
  /\ closing \in {"idle", "logout", "teardown", "joining", "stopped"}
  /\ socket \in {"open", "told", "closed"} /\ stopped \in BOOLEAN /\ dead \in BOOLEAN
  /\ delivering \subseteq Ordinary
  /\ trouble \in 0 .. MaxTrouble

\* A thread that is not at work on a command holds none.
Hands ==
  /\ sender.pc = "take" => sender.cmd = NoCmd
  /\ listener.pc \in {"recv", "sweep", "gone"} => listener.cmd = NoCmd
  /\ listener.pc = "recover" => listener.cmd # NoCmd

InListener(h) == stage[h] \in {"listener", "sweep"}

\* The listener sends one handshake command at a time, and is nowhere else meanwhile.
ListenerSends ==
  \A h \in Handshakes : InListener(h) =>
    /\ listener.pc = "sending"
    /\ stage[h] = "sweep" => listener.cmd = NoCmd
    /\ \A g \in Handshakes : InListener(g) => g = h

\* A handshake command whose reply is being handled is out of the table.
AnsweredIsClaimed ==
  \A h \in Handshakes : stage[h] \in {"answered", "forgiven"} => net.at[h] = "gone"

\* A session in an open window is a login the handler has not begun with.
OpenSessionIsNew ==
  gate = "open" /\ auth.session => \E h \in Auths : stage[h] = "answered"

\* LOGOUT is stop()'s alone.
LogoutUntouched == closing = "idle" => outcome[Logout] = "idle"

\* Without a key there is no encryption.
PlainIsPlain ==
  ~apiKey => \A h \in Encrypts : stage[h] = "idle" /\ net.at[h] = "gone"

\* The transport is declared dead only once its listener is.
DeadIsDead == dead => ~Alive

\* A handshake in flight means nobody is logged in, and no open window.
AttemptIsWanted == auth.authenticating => ~auth.authed /\ gate # "open"

\* Without encryption an attempt is carried by a command that can still end it.
Carried == ~apiKey => AttemptIsCarried

IInv ==
  /\ Shapes /\ Scalars /\ Hands /\ ListenerSends /\ AnsweredIsClaimed /\ OpenSessionIsNew
  /\ LogoutUntouched /\ EveryRequestIsHeld
  /\ PlainIsPlain /\ DeadIsDead /\ AttemptIsWanted /\ Carried

-----------------------------------------------------------------------------
(* What the helpers of TransportState do, field by field *)

\* The kinds of command are what the assumptions say.
LEMMA Kinds ==
  /\ Cmds \subseteq Ordinary /\ Ordinary \subseteq All /\ Handshakes \subseteq All
  /\ Auths \subseteq Handshakes /\ Encrypts \subseteq Handshakes
  /\ Auths \cap Encrypts = {} /\ Ordinary \cap Handshakes = {}
  /\ NoCmd \notin All /\ Logout \in Ordinary /\ Logout \notin Cmds
  /\ Ordinary = Cmds \cup {Logout} /\ All = Ordinary \cup Handshakes
BY TransportAssumption DEF Ordinary, Handshakes, All

\* The table m is n with the commands of S moved, and with these in the queue.
NetBecame(m, n, queued, S, where) ==
  /\ Well(m)
  /\ ToSet(m.queue) = queued
  /\ \A c \in All : m.at[c] = IF c \in S THEN where ELSE n.at[c]

\* The queue as a set, after each of the things that happen to it.
LEMMA QueueSets ==
  ASSUME NEW q \in Seq(Ordinary), NEW c \in Ordinary
  PROVE  /\ Append(q, c) \in Seq(Ordinary) /\ ToSet(Append(q, c)) = ToSet(q) \cup {c}
         /\ <<c>> \o q \in Seq(Ordinary) /\ ToSet(<<c>> \o q) = ToSet(q) \cup {c}
         /\ q # <<>> => /\ Head(q) \in Ordinary /\ Tail(q) \in Seq(Ordinary)
                        /\ ToSet(q) = ToSet(Tail(q)) \cup {Head(q)}
<1>1. Append(q, c) \in Seq(Ordinary) /\ ToSet(Append(q, c)) = ToSet(q) \cup {c}
  <2>1. /\ Append(q, c) \in Seq(Ordinary) /\ Len(Append(q, c)) = Len(q) + 1
        /\ Append(q, c)[Len(q) + 1] = c
        /\ \A i \in 1 .. Len(q) : Append(q, c)[i] = q[i]
    BY AppendProperties
  <2>2. DOMAIN q = 1 .. Len(q) /\ DOMAIN Append(q, c) = 1 .. Len(q) + 1 /\ Len(q) \in Nat
    BY <2>1
  <2>3. QED
    BY <2>1, <2>2 DEF ToSet
<1>2. <<c>> \o q \in Seq(Ordinary) /\ ToSet(<<c>> \o q) = ToSet(q) \cup {c}
  <2>1. /\ <<c>> \o q \in Seq(Ordinary) /\ Len(<<c>> \o q) = 1 + Len(q) /\ Len(q) \in Nat
    OBVIOUS
  <2>2. (<<c>> \o q)[1] = c /\ \A i \in 1 .. Len(q) : (<<c>> \o q)[i + 1] = q[i]
    OBVIOUS
  <2>3. DOMAIN q = 1 .. Len(q) /\ DOMAIN (<<c>> \o q) = 1 .. 1 + Len(q)
    BY <2>1
  <2>4. ASSUME NEW x PROVE x \in ToSet(<<c>> \o q) <=> x \in ToSet(q) \cup {c}
    <3>1. ASSUME NEW i \in 1 .. 1 + Len(q), x = (<<c>> \o q)[i] PROVE x \in ToSet(q) \cup {c}
      <4>1. CASE i = 1
        BY <4>1, <3>1, <2>2
      <4>2. CASE i # 1
        <5>1. i - 1 \in 1 .. Len(q) /\ (i - 1) + 1 = i
          BY <4>2, <2>1
        <5>2. x = q[i - 1]
          BY <3>1, <2>2, <5>1
        <5>3. QED
          BY <5>1, <5>2, <2>3 DEF ToSet
      <4>3. QED
        BY <4>1, <4>2
    <3>2. ASSUME NEW i \in 1 .. Len(q), x = q[i] PROVE x \in ToSet(<<c>> \o q)
      <4>1. i + 1 \in DOMAIN (<<c>> \o q) /\ x = (<<c>> \o q)[i + 1]
        BY <3>2, <2>1, <2>2, <2>3
      <4>2. QED
        BY <4>1 DEF ToSet
    <3>3. c \in ToSet(<<c>> \o q)
      <4>1. 1 \in DOMAIN (<<c>> \o q)
        BY <2>1, <2>3
      <4>2. QED
        BY <4>1, <2>2 DEF ToSet
    <3>4. QED
      BY <3>1, <3>2, <3>3, <2>3 DEF ToSet
  <2>5. QED
    BY <2>1, <2>4
<1>3. ASSUME q # <<>>
      PROVE  /\ Head(q) \in Ordinary /\ Tail(q) \in Seq(Ordinary)
             /\ ToSet(q) = ToSet(Tail(q)) \cup {Head(q)}
  <2>1. /\ Len(q) \in Nat \ {0} /\ Head(q) = q[1] /\ Head(q) \in Ordinary
        /\ Tail(q) \in Seq(Ordinary) /\ Len(Tail(q)) = Len(q) - 1
    BY <1>3
  <2>2. \A i \in 1 .. Len(q) - 1 : Tail(q)[i] = q[i + 1]
    BY <1>3
  <2>3. DOMAIN q = 1 .. Len(q) /\ DOMAIN Tail(q) = 1 .. Len(q) - 1
    BY <2>1
  <2>4. ASSUME NEW i \in 1 .. Len(q) PROVE q[i] \in ToSet(Tail(q)) \cup {Head(q)}
    <3>1. CASE i = 1
      BY <3>1, <2>1
    <3>2. CASE i # 1
      <4>1. i - 1 \in DOMAIN Tail(q) /\ Tail(q)[i - 1] = q[i]
        BY <3>2, <2>1, <2>2, <2>3
      <4>2. QED
        BY <4>1 DEF ToSet
    <3>3. QED
      BY <3>1, <3>2
  <2>5. ASSUME NEW i \in 1 .. Len(q) - 1 PROVE Tail(q)[i] \in ToSet(q)
    <3>1. i + 1 \in DOMAIN q
      BY <2>1, <2>3
    <3>2. QED
      BY <3>1, <2>2 DEF ToSet
  <2>6. Head(q) \in ToSet(q)
    BY <2>1, <2>3 DEF ToSet
  <2>7. QED
    BY <2>1, <2>3, <2>4, <2>5, <2>6 DEF ToSet
<1>4. QED
  BY <1>1, <1>2, <1>3

\* What a table keeps, however its heard set and its stray mark change.
LEMMA WellMeans ==
  ASSUME NEW m
  PROVE  Well(m) <=> /\ m \in Nets
                     /\ \A c \in m.heard : m.at[c] \in {"wire", "lost"}
BY DEF Well, Started, Nets

\* Commands are moved in the table.
LEMMA MoveDoes ==
  ASSUME NEW n, Well(n), NEW S \in SUBSET All,
         NEW where \in {"gone", "unsent", "wire", "lost"}
  PROVE  /\ NetBecame(Move(n, S, where), n, ToSet(n.queue), S, where)
         /\ Move(n, S, where).queue = n.queue /\ Move(n, S, where).heard = n.heard \ S
<1>1. n \in Nets /\ \A c \in n.heard : n.at[c] \in {"wire", "lost"}
  BY WellMeans
<1> DEFINE m == Move(n, S, where)
           f == [c \in All |-> IF c \in S THEN where ELSE n.at[c]]
<1>2. f \in [All -> {"gone", "unsent", "wire", "lost"}]
  BY <1>1 DEF Nets
<1>3. m = [n EXCEPT !.at = f, !.heard = n.heard \ S]
  BY <1>1 DEF Move, Nets
<1>4. m \in Nets /\ m.at = f /\ m.heard = n.heard \ S /\ m.queue = n.queue
  BY <1>1, <1>2, <1>3 DEF Nets
<1>5. \A c \in All : m.at[c] = IF c \in S THEN where ELSE n.at[c]
  BY <1>4
<1>6. \A c \in m.heard : m.at[c] \in {"wire", "lost"}
  BY <1>1, <1>4, <1>5 DEF Nets
<1>7. Well(m)
  BY <1>4, <1>6, WellMeans
<1>8. QED
  BY <1>4, <1>5, <1>7 DEF NetBecame

\* A stray registration changes nothing else.
LEMMA StrayDoes ==
  ASSUME NEW n, Well(n)
  PROVE  NetBecame([n EXCEPT !.stray = TRUE], n, ToSet(n.queue), {}, "gone")
<1>1. n \in Nets /\ \A c \in n.heard : n.at[c] \in {"wire", "lost"}
  BY WellMeans
<1> DEFINE m == [n EXCEPT !.stray = TRUE]
<1>2. m \in Nets /\ m.at = n.at /\ m.heard = n.heard /\ m.queue = n.queue
  BY <1>1 DEF Nets
<1>3. Well(m)
  BY <1>1, <1>2, WellMeans
<1>4. QED
  BY <1>2, <1>3 DEF NetBecame

\* Nor does having heard from AniDB.
LEMMA HeardDoes ==
  ASSUME NEW n, Well(n)
  PROVE  /\ NetBecame(Heard(n), n, ToSet(n.queue), {}, "gone") /\ Heard(n).queue = n.queue
<1>1. n \in Nets
  BY WellMeans
<1> DEFINE m == [n EXCEPT !.heard = Started(n)]
<1>2. Started(n) \in SUBSET All /\ \A c \in Started(n) : n.at[c] \in {"wire", "lost"}
  BY DEF Started
<1>3. m \in Nets /\ m.at = n.at /\ m.heard = Started(n) /\ m.queue = n.queue
  BY <1>1, <1>2 DEF Nets
<1>4. Well(m)
  BY <1>2, <1>3, WellMeans
<1>5. QED
  BY <1>3, <1>4 DEF NetBecame, Heard

\* Nor does another queue change the table.
LEMMA QueueDoes ==
  ASSUME NEW n, Well(n), NEW q \in Seq(Ordinary)
  PROVE  NetBecame([n EXCEPT !.queue = q], n, ToSet(q), {}, "gone")
<1>1. n \in Nets /\ \A c \in n.heard : n.at[c] \in {"wire", "lost"}
  BY WellMeans
<1> DEFINE m == [n EXCEPT !.queue = q]
<1>2. m \in Nets /\ m.at = n.at /\ m.heard = n.heard /\ m.queue = q
  BY <1>1 DEF Nets
<1>3. Well(m)
  BY <1>1, <1>2, WellMeans
<1>4. QED
  BY <1>2, <1>3 DEF NetBecame

\* A reply claims its command.
LEMMA ClaimedDoes ==
  ASSUME Well(net), NEW c \in All
  PROVE  NetBecame(Claimed(c), net, ToSet(net.queue), {c}, "gone")
<1> DEFINE m == Move(net, {c}, "gone")
<1>1. NetBecame(m, net, ToSet(net.queue), {c}, "gone") /\ m.queue = net.queue
  BY MoveDoes
<1>2. NetBecame(Heard(m), m, ToSet(m.queue), {}, "gone")
  BY <1>1, HeardDoes DEF NetBecame
<1>3. QED
  BY <1>1, <1>2 DEF NetBecame, Claimed

\* A command is registered and put at the one or the other end of the queue.
LEMMA QueuedDoes ==
  ASSUME NEW n, Well(n), NEW c \in Ordinary
  PROVE  /\ NetBecame(Queued(n, c), n, ToSet(n.queue) \cup {c}, {c}, "unsent")
         /\ NetBecame(QueuedFirst(n, c), n, ToSet(n.queue) \cup {c}, {c}, "unsent")
<1> DEFINE m == Move(n, {c}, "unsent")
<1>1. NetBecame(m, n, ToSet(n.queue), {c}, "unsent") /\ m.queue = n.queue
  BY MoveDoes, Kinds
<1>2. n.queue \in Seq(Ordinary) /\ Well(m) /\ m \in Nets
  BY <1>1, WellMeans DEF NetBecame, Nets
<1>3. Queued(n, c) = [m EXCEPT !.queue = Append(n.queue, c)]
  BY <1>1, <1>2 DEF Queued, Nets
<1>4. QueuedFirst(n, c) = [m EXCEPT !.queue = <<c>> \o n.queue]
  BY <1>1, <1>2 DEF QueuedFirst, Nets
<1> DEFINE last == Append(n.queue, c)
           first == <<c>> \o n.queue
<1>5. /\ last \in Seq(Ordinary) /\ ToSet(last) = ToSet(n.queue) \cup {c}
      /\ first \in Seq(Ordinary) /\ ToSet(first) = ToSet(n.queue) \cup {c}
  BY <1>2, QueueSets
<1> HIDE DEF m, last, first
<1>6. NetBecame(Queued(n, c), m, ToSet(last), {}, "gone")
  BY <1>2, <1>3, <1>5, QueueDoes, Zenon DEF last
<1>7. NetBecame(QueuedFirst(n, c), m, ToSet(first), {}, "gone")
  BY <1>2, <1>4, <1>5, QueueDoes, Zenon DEF first
<1>8. QED
  BY <1>1, <1>5, <1>6, <1>7 DEF NetBecame

\* A command goes back to the front of the queue as it is.
LEMMA PutFirst ==
  ASSUME NEW n, Well(n), NEW c \in Ordinary
  PROVE  NetBecame([n EXCEPT !.queue = <<c>> \o @], n, ToSet(n.queue) \cup {c}, {}, "gone")
<1>1. n \in Nets /\ n.queue \in Seq(Ordinary)
  BY WellMeans DEF Nets
<1> DEFINE first == <<c>> \o n.queue
<1>2. [n EXCEPT !.queue = <<c>> \o @] = [n EXCEPT !.queue = first]
  BY <1>1 DEF Nets
<1>3. first \in Seq(Ordinary) /\ ToSet(first) = ToSet(n.queue) \cup {c}
  BY <1>1, QueueSets
<1> HIDE DEF first
<1>4. NetBecame([n EXCEPT !.queue = first], n, ToSet(first), {}, "gone")
  BY <1>3, QueueDoes, Zenon
<1>5. QED
  BY <1>2, <1>3, <1>4, Zenon

\* A refused handshake is dropped from the table and leaves its mark.
LEMMA DroppedDoes ==
  ASSUME NEW n, Well(n), NEW h \in Handshakes
  PROVE  NetBecame([Move(n, {h}, "gone") EXCEPT !.stray = TRUE], n, ToSet(n.queue), {h}, "gone")
<1> DEFINE m == Move(n, {h}, "gone")
<1>1. NetBecame(m, n, ToSet(n.queue), {h}, "gone") /\ m.queue = n.queue /\ Well(m)
  BY MoveDoes, Kinds DEF NetBecame
<1> HIDE DEF m
<1>2. NetBecame([m EXCEPT !.stray = TRUE], m, ToSet(m.queue), {}, "gone")
  BY <1>1, StrayDoes, Zenon
<1>3. QED
  BY <1>1, <1>2 DEF NetBecame, m

\* Of the outcomes, those of S may have been concluded, and all those that were
\* pending have been.
Concluded(S) ==
  /\ outcome' \in [Ordinary -> {"idle", "asking", "pending", "reply", "error"}]
  /\ \A c \in Ordinary :
       \/ outcome'[c] = outcome[c] /\ (c \in S => outcome[c] # "pending")
       \/ c \in S /\ outcome[c] \in {"asking", "pending"} /\ outcome'[c] \in {"reply", "error"}

\* The first conclusion about a command stands.
LEMMA SettleDoes ==
  ASSUME outcome \in [Ordinary -> {"idle", "asking", "pending", "reply", "error"}],
         NEW S, NEW how \in {"reply", "error"}, outcome' = Settle(S, how)
  PROVE  Concluded(S)
BY DEF Settle, Concluded

\* Everything queued or registered is failed.
LEMMA AbortDoes ==
  ASSUME outcome \in [Ordinary -> {"idle", "asking", "pending", "reply", "error"}],
         Well(net), NEW extra, AbortPending(extra)
  PROVE  /\ Concluded({c \in All : net.at[c] # "gone"} \cup ToSet(net.queue) \cup extra)
         /\ NetBecame(net', net, {}, All, "gone")
<1>1. Concluded({c \in All : net.at[c] # "gone"} \cup ToSet(net.queue) \cup extra)
  BY SettleDoes DEF AbortPending
<1> DEFINE m == Move(net, All, "gone")
<1>2. NetBecame(m, net, ToSet(net.queue), All, "gone") /\ m \in Nets
  BY MoveDoes, WellMeans DEF NetBecame
<1>3. net' = [m EXCEPT !.queue = <<>>, !.stray = FALSE]
  BY DEF AbortPending
<1> HIDE DEF m
<1>4. net' \in Nets /\ net'.queue = <<>> /\ net'.at = m.at /\ net'.heard = m.heard
  <2>1. <<>> \in Seq(Ordinary)
    OBVIOUS
  <2>2. QED
    BY <1>2, <1>3, <2>1 DEF Nets
<1>5. ToSet(net'.queue) = {}
  BY <1>4 DEF ToSet
<1>6. Well(net')
  BY <1>2, <1>4, WellMeans DEF NetBecame
<1>7. QED
  BY <1>1, <1>2, <1>4, <1>5, <1>6 DEF NetBecame

\* A session that is dropped is gone.
LEMMA DropDoes ==
  ASSUME NEW a \in Sessions
  PROVE  /\ DropSession(a) \in Sessions /\ ~DropSession(a).session
         /\ ~DropSession(a).authed /\ DropSession(a).authenticating = a.authenticating
BY DEF DropSession, Sessions

\* An attempt that settles changes nothing about the session.
LEMMA SettleAuthDoes ==
  ASSUME NEW a \in Sessions, NEW how \in {"ok", "error", "banned", "refused"}
  PROVE  /\ SettleAuth(a, how) \in Sessions /\ SettleAuth(a, how).session = a.session
         /\ SettleAuth(a, how).authed = a.authed
         /\ SettleAuth(a, how).authenticating = a.authenticating
BY DEF SettleAuth, Sessions

\* A window opens and the session goes.
LEMMA SetBannedDoes ==
  ASSUME auth \in Sessions, SetBanned
  PROVE  /\ auth' \in Sessions /\ ~auth'.session /\ ~auth'.authenticating
         /\ gate' = "open"
<1>1. DropSession(auth) \in Sessions /\ ~DropSession(auth).session
  BY DropDoes
<1>2. QED
  BY <1>1 DEF SetBanned, Sessions

\* A failed handshake leaves no session, and a window no less open.
LEMMA AuthFailedDoes ==
  ASSUME auth \in Sessions, NEW how \in {"banned", "refused"}, AuthFailed(how)
  PROVE  /\ auth' \in Sessions /\ ~auth'.session /\ ~auth'.authenticating
         /\ gate' \in {gate, "open"}
<1> DEFINE a == SettleAuth(DropSession(auth), how)
<1>1. a \in Sessions /\ ~a.session
  BY DropDoes, SettleAuthDoes
<1>2. auth' = [a EXCEPT !.authenticating = FALSE, !.fatal = @ \/ how = "refused"]
  BY DEF AuthFailed
<1> HIDE DEF a
<1>3. (a.fatal \/ how = "refused") \in BOOLEAN
  OBVIOUS
<1>4. auth' \in Sessions /\ ~auth'.session /\ ~auth'.authenticating
  BY <1>1, <1>2, <1>3 DEF Sessions
<1>5. QED
  BY <1>4 DEF AuthFailed

\* Thread t took on the handshake command h, one the transport had no hold on, and
\* nothing else happened to the table n or to the others.
Launched(n, h, t) ==
  /\ h \in Handshakes /\ n.at[h] = "gone" /\ stage[h] = "idle"
  /\ ~apiKey => h \in Auths
  /\ NetBecame(net', n, ToSet(n.queue), {h}, "unsent")
  /\ stage' = [stage EXCEPT ![h] = t]

\* No handshake command was taken on.
NotLaunched(n) ==
  /\ NetBecame(net', n, ToSet(n.queue), {}, "gone")
  /\ stage' = stage

\* An attempt at a login, from session state a and table n, by thread t.
Attempted(a, n, h, t) ==
  \/ /\ Launched(n, h, t) /\ Launches(a)
     /\ auth'.authenticating /\ ~auth'.authed /\ gate # "open"
  \/ /\ NotLaunched(n) /\ ~Launches(a)
     /\ auth'.authed = a.authed /\ (auth'.authenticating => a.authenticating)

\* A fresh command is one the transport has no hold on.
LEMMA FreshMeans ==
  ASSUME NEW n, NEW S, NEW h \in Fresh(n, S)
  PROVE  h \in S /\ n.at[h] = "gone" /\ stage[h] = "idle"
<1> DEFINE free == {g \in S : n.at[g] = "gone" /\ stage[g] = "idle"}
<1>1. free # {} /\ h = CHOOSE g \in free : TRUE
  BY DEF Fresh
<1>2. h \in free
  BY <1>1
<1>3. QED
  BY <1>2

\* What an attempt at a login changes.
LEMMA ReauthenticateDoes ==
  ASSUME NEW a \in Sessions, NEW n, Well(n), NEW h, NEW t \in Senders,
         stranded \subseteq {"sender", "app"}, Reauthenticate(a, n, h, t)
  PROVE  /\ auth' \in Sessions /\ auth'.session = a.session
         /\ stranded' \subseteq {"sender", "app"}
         /\ Attempted(a, n, h, t)
<1>1. CASE Wanted(a)
  <2>1. auth' = [a EXCEPT !.authenticating = gate # "open",
                          !.attempt = IF gate = "open" THEN "banned" ELSE "pending"]
    BY <1>1 DEF Reauthenticate
  <2>2. /\ auth' \in Sessions /\ auth'.session = a.session /\ auth'.authed = a.authed
        /\ auth'.authenticating = (gate # "open")
    BY <2>1 DEF Sessions
  <2>3. stranded' \subseteq {"sender", "app"}
    BY <1>1 DEF Reauthenticate, Waiting
  <2>4. /\ h \in Handshakes /\ n.at[h] = "gone" /\ stage[h] = "idle"
        /\ ~apiKey => h \in Auths
    <3>1. /\ h \in Fresh(n, FirstHandshake) /\ FirstHandshake \subseteq Handshakes
          /\ ~apiKey => FirstHandshake = Auths
      BY <1>1, Kinds DEF Reauthenticate, FirstHandshake
    <3>2. QED
      BY <3>1, FreshMeans
  <2>5. Launch(n, h, t)
    BY <1>1 DEF Reauthenticate
  <2>6. CASE gate = "open"
    <3>1. net' = [n EXCEPT !.stray = TRUE] /\ stage' = stage
      BY <2>5, <2>6 DEF Launch
    <3>2. NotLaunched(n)
      BY <3>1, StrayDoes, Zenon DEF NotLaunched
    <3>3. QED
      BY <2>2, <2>3, <2>6, <3>2 DEF Launches, Attempted
  <2>7. CASE gate # "open"
    <3>1. net' = Move(n, {h}, "unsent") /\ stage' = [stage EXCEPT ![h] = t]
      BY <2>5, <2>7 DEF Launch
    <3>2. NetBecame(Move(n, {h}, "unsent"), n, ToSet(n.queue), {h}, "unsent")
      BY <2>4, MoveDoes, Kinds
    <3>3. Launched(n, h, t)
      BY <2>4, <3>1, <3>2 DEF Launched
    <3>4. QED
      BY <1>1, <2>2, <2>3, <2>7, <3>3 DEF Launches, Wanted, Attempted
  <2>8. QED
    BY <2>6, <2>7
<1>2. CASE ~Wanted(a)
  <2>1. net' = n /\ auth' = a /\ stage' = stage /\ stranded' = stranded
    BY <1>2 DEF Reauthenticate
  <2>2. NetBecame(n, n, ToSet(n.queue), {}, "gone")
    BY DEF NetBecame
  <2>3. QED
    BY <1>2, <2>1, <2>2 DEF NotLaunched, Launches, Attempted
<1>3. QED
  BY <1>1, <1>2

\* Where the threads are once a handshake command is out of the hands of t.
Returned(t) ==
  /\ sender' \in SenderThreads /\ sender'.cmd = sender.cmd
  /\ sender'.pc \in {sender.pc, "await"}
  /\ connecting' \in {"idle", "sending", "await", "connected", "failed"}
  /\ listener' \in ListenerThreads /\ listener'.cmd = listener.cmd
  /\ t \notin {"listener", "sweep"} => listener' = listener
  /\ t = "listener" => listener'.pc = IF listener.cmd = NoCmd THEN "recv" ELSE "recover"
  /\ t = "sweep" => listener'.pc \in {"recv", "sweep"}

\* They return to what they were doing.
LEMMA ReturnDoes ==
  ASSUME sender \in SenderThreads, listener \in ListenerThreads, NEW t \in Senders,
         connecting \in {"idle", "sending", "await", "connected", "failed"},
         ThreadReturns(t)
  PROVE  Returned(t)
<1>1. /\ sender' \in SenderThreads /\ sender'.cmd = sender.cmd
      /\ sender'.pc \in {sender.pc, "await"}
  BY DEF ThreadReturns, SenderThreads
<1>2. connecting' \in {"idle", "sending", "await", "connected", "failed"}
  BY DEF ThreadReturns
<1>3. CASE t = "listener"
  <2>1. listener' = [listener EXCEPT !.pc = IF listener.cmd = NoCmd THEN "recv" ELSE "recover"]
    BY <1>3 DEF ThreadReturns
  <2>2. QED
    BY <1>1, <1>2, <1>3, <2>1 DEF ListenerThreads, Returned
<1>4. CASE t = "sweep"
  <2>1. listener' = [listener EXCEPT !.pc = IF listener.expired = {} THEN "recv" ELSE "sweep"]
    BY <1>4 DEF ThreadReturns
  <2>2. QED
    BY <1>1, <1>2, <1>4, <2>1 DEF ListenerThreads, Returned
<1>5. CASE t \notin {"listener", "sweep"}
  <2>1. listener' = listener
    BY <1>5 DEF ThreadReturns
  <2>2. QED
    BY <1>1, <1>2, <1>5, <2>1 DEF Returned
<1>6. QED
  BY <1>3, <1>4, <1>5

\* A datagram is noted.
LEMMA NoteDoes ==
  ASSUME listener \in ListenerThreads, NEW c \in Cmds \cup {NoCmd},
         NEW pc \in {"recv", "sending", "recover", "gone"}, NoteDatagram(pc, c)
  PROVE  listener' \in ListenerThreads /\ listener'.pc = pc /\ listener'.cmd = c
BY DEF NoteDatagram, ListenerThreads

\* The sweep moves on.
LEMMA SweptDoes ==
  ASSUME listener \in ListenerThreads, NEW c, NEW s \in Nat, SweptTo(c, s)
  PROVE  /\ listener' \in ListenerThreads
         /\ listener'.pc \in {"recv", "sweep"} /\ listener'.cmd = NoCmd
<1> DEFINE rest == listener.expired \ {c}
           pc == IF rest = {} THEN "recv" ELSE "sweep"
<1>1. rest \in SUBSET All /\ pc \in {"recv", "sweep"}
  BY DEF ListenerThreads
<1>2. listener' = [pc |-> pc, cmd |-> NoCmd, expired |-> rest, silent |-> s]
  BY DEF SweptTo
<1> HIDE DEF rest, pc
<1>3. QED
  BY <1>1, <1>2 DEF ListenerThreads

\* The sender's command is failed.
LEMMA FailsDoes ==
  ASSUME outcome \in [Ordinary -> {"idle", "asking", "pending", "reply", "error"}],
         Well(net), sender.cmd \in Ordinary, NEW next \in {"take", "gone"}, SenderFails(next)
  PROVE  /\ NetBecame(net', net, ToSet(net.queue), {sender.cmd}, "gone")
         /\ Concluded({sender.cmd})
         /\ sender' \in SenderThreads /\ sender'.pc = next /\ sender'.cmd = NoCmd
<1>1. NetBecame(net', net, ToSet(net.queue), {sender.cmd}, "gone")
  BY MoveDoes, Kinds DEF SenderFails
<1>2. Concluded({sender.cmd})
  BY SettleDoes DEF SenderFails
<1>3. sender' = [pc |-> next, cmd |-> NoCmd]
  BY DEF SenderFails, Free
<1>4. QED
  BY <1>1, <1>2, <1>3 DEF SenderThreads

\* The sweep requested c again, or gave it up.
Rerequested(c) ==
  \/ Concluded({c}) /\ NetBecame(net', net, ToSet(net.queue), {c}, "gone")
  \/ outcome' = outcome /\ NetBecame(net', net, ToSet(net.queue) \cup {c}, {c}, "unsent")

\* The sweep's own request.
LEMMA RerequestDoes ==
  ASSUME outcome \in [Ordinary -> {"idle", "asking", "pending", "reply", "error"}],
         Well(net), NEW c \in Ordinary, SweepRequests(c)
  PROVE  Rerequested(c)
<1>1. CASE dead
  <2>1. NetBecame(net', net, ToSet(net.queue), {c}, "gone")
    BY <1>1, MoveDoes, Kinds DEF SweepRequests
  <2>2. Concluded({c})
    BY <1>1, SettleDoes DEF SweepRequests
  <2>3. QED
    BY <2>1, <2>2 DEF Rerequested
<1>2. CASE ~dead
  <2>1. NetBecame(net', net, ToSet(net.queue) \cup {c}, {c}, "unsent")
    BY <1>2, QueuedDoes DEF SweepRequests
  <2>2. QED
    BY <1>2, <2>1 DEF SweepRequests, Rerequested
<1>3. QED
  BY <1>1, <1>2

\* Trouble stays within its bound.
LEMMA CauseDoes ==
  ASSUME trouble \in 0 .. MaxTrouble, NEW k, Cause(k)
  PROVE  trouble' \in 0 .. MaxTrouble
BY TransportAssumption DEF Cause

\* The invariant, part by part.
LEMMA Holds ==
  ASSUME IInv
  PROVE  /\ auth \in Sessions /\ Well(net)
         /\ sender \in SenderThreads /\ listener \in ListenerThreads
         /\ sender.cmd \in Ordinary \cup {NoCmd} /\ listener.cmd \in Cmds \cup {NoCmd}
         /\ listener.silent \in Nat
         /\ outcome \in [Ordinary -> {"idle", "asking", "pending", "reply", "error"}]
         /\ stage \in [Handshakes -> Senders \cup {"idle", "answered", "forgiven"}]
         /\ net.queue \in Seq(Ordinary) /\ stranded \subseteq {"sender", "app"}
         /\ connecting \in {"idle", "sending", "await", "connected", "failed"}
         /\ trouble \in 0 .. MaxTrouble /\ gate \in {"clear", "open", "elapsed"}
         /\ Shapes /\ Scalars /\ Hands /\ ListenerSends /\ AnsweredIsClaimed
         /\ OpenSessionIsNew /\ LogoutUntouched /\ EveryRequestIsHeld
         /\ PlainIsPlain /\ DeadIsDead /\ AttemptIsWanted /\ Carried
BY WellMeans DEF IInv, Shapes, Scalars, SenderThreads, ListenerThreads, Nets

\* The choice of encryption stands, and so does what was concluded about a command.
Kept ==
  /\ apiKey' = apiKey
  /\ \A c \in Ordinary : outcome[c] \in {"reply", "error"} => outcome'[c] = outcome[c]

\* A part of the invariant about what a step leaves alone.
LEMMA Frames ==
  ASSUME IInv
  PROVE  /\ UNCHANGED <<sender, listener>> => Hands'
         /\ UNCHANGED <<stage, listener>> => ListenerSends'
         /\ UNCHANGED <<stage, net>> => AnsweredIsClaimed'
         /\ UNCHANGED <<gate, auth, stage>> => OpenSessionIsNew'
         /\ UNCHANGED <<closing, outcome>> => LogoutUntouched'
         /\ UNCHANGED <<outcome, net, sender, listener, delivering>> => EveryRequestIsHeld'
         /\ UNCHANGED <<apiKey, outcome>> => Kept
         /\ UNCHANGED <<apiKey, stage, net>> => PlainIsPlain'
         /\ UNCHANGED <<dead, socket, listener>> => DeadIsDead'
         /\ UNCHANGED <<auth, gate>> => AttemptIsWanted'
         /\ UNCHANGED <<apiKey, auth, stage, net, socket, listener>> => Carried'
<1>1. UNCHANGED <<sender, listener>> => Hands'
  BY Holds DEF Hands
<1>2. UNCHANGED <<stage, listener>> => ListenerSends'
  BY Holds DEF ListenerSends, InListener
<1>3. UNCHANGED <<stage, net>> => AnsweredIsClaimed'
  BY Holds DEF AnsweredIsClaimed
<1>4. UNCHANGED <<gate, auth, stage>> => OpenSessionIsNew'
  BY Holds DEF OpenSessionIsNew
<1>5. UNCHANGED <<closing, outcome>> => LogoutUntouched'
  BY Holds DEF LogoutUntouched
<1>6. UNCHANGED <<outcome, net, sender, listener, delivering>> => EveryRequestIsHeld'
  BY Holds DEF EveryRequestIsHeld
<1>7. UNCHANGED <<apiKey, outcome>> => Kept
  BY DEF Kept
<1>8. UNCHANGED <<apiKey, stage, net>> => PlainIsPlain'
  BY Holds DEF PlainIsPlain
<1>9. UNCHANGED <<dead, socket, listener>> => DeadIsDead'
  BY Holds DEF DeadIsDead, Alive
<1>10. UNCHANGED <<auth, gate>> => AttemptIsWanted'
  BY Holds DEF AttemptIsWanted
<1>11. UNCHANGED <<apiKey, auth, stage, net, socket, listener>> => Carried'
  BY Holds DEF Carried, AttemptIsCarried, Underway, Alive
<1>12. QED
  BY <1>1, <1>2, <1>3, <1>4, <1>5, <1>6, <1>7, <1>8, <1>9, <1>10, <1>11

-----------------------------------------------------------------------------
(* Every step keeps the invariant *)

\* A request begins.
LEMMA AskKeeps ==
  ASSUME IInv, NEW c \in Cmds, Ask(c)
  PROVE  IInv' /\ Kept
<1>1. /\ outcome[c] = "idle"
      /\ outcome' = [outcome EXCEPT ![c] = IF dead THEN "error" ELSE "asking"]
  BY DEF Ask
<1>2. UNCHANGED <<apiKey, auth, gate, net, attempts, sender, listener, stage, stranded,
                 connecting, closing, socket, stopped, dead, delivering, trouble>>
  BY DEF Ask, waiters, life
<1>3. Shapes' /\ Scalars'
  BY <1>1, <1>2, Holds, Kinds DEF Shapes, Scalars
<1>4. LogoutUntouched'
  BY <1>1, <1>2, Holds, Kinds DEF LogoutUntouched
<1>5. EveryRequestIsHeld'
  BY <1>1, <1>2, Holds, Kinds DEF EveryRequestIsHeld
<1>6. Kept
  BY <1>1, <1>2, Holds DEF Kept
<1>7. QED
  BY <1>2, <1>3, <1>4, <1>5, <1>6, Frames DEF IInv

\* A request is registered and queued.
LEMMA EnqueueKeeps ==
  ASSUME IInv, NEW c \in Cmds, Enqueue(c)
  PROVE  IInv' /\ Kept
<1>1. outcome[c] = "asking" /\ outcome' = [outcome EXCEPT ![c] = "pending"]
  BY DEF Enqueue
<1>2. NetBecame(net', net, ToSet(net.queue) \cup {c}, {c}, "unsent")
  BY Holds, Kinds, QueuedDoes DEF Enqueue
<1>3. UNCHANGED <<apiKey, auth, gate, attempts, sender, listener, stage, stranded,
                 connecting, closing, socket, stopped, dead, delivering, trouble>>
  BY DEF Enqueue, waiters, life
<1>4. Shapes' /\ Scalars'
  BY <1>1, <1>2, <1>3, Holds, Kinds DEF Shapes, Scalars, NetBecame
<1>5. AnsweredIsClaimed'
  BY <1>2, <1>3, Holds, Kinds DEF AnsweredIsClaimed, NetBecame
<1>6. LogoutUntouched'
  BY <1>1, <1>3, Holds, Kinds DEF LogoutUntouched
<1>7. EveryRequestIsHeld'
  BY <1>1, <1>2, <1>3, Holds, Kinds DEF EveryRequestIsHeld, NetBecame
<1>8. PlainIsPlain'
  BY <1>2, <1>3, Holds, Kinds DEF PlainIsPlain, NetBecame
<1>9. Carried'
  BY <1>2, <1>3, Holds, Kinds DEF Carried, AttemptIsCarried, Underway, Alive, NetBecame
<1>10. Kept
  BY <1>1, <1>3, Holds DEF Kept
<1>11. QED
  BY <1>3, <1>4, <1>5, <1>6, <1>7, <1>8, <1>9, <1>10, Frames DEF IInv

\* connect() asks for a login.
LEMMA ConnectKeeps ==
  ASSUME IInv, NEW h \in HandshakeChoice, Connect(h)
  PROVE  IInv' /\ Kept
<1>1. /\ auth' \in Sessions /\ stranded' \subseteq {"sender", "app"}
      /\ auth'.session = auth.session
      /\ Attempted(auth, net, h, "app")
  BY Holds, ReauthenticateDoes DEF Connect, Senders
<1>2. connecting' \in {"sending", "await"}
  BY DEF Connect
<1>3. UNCHANGED <<apiKey, gate, attempts, outcome, sender, listener, closing, socket,
                 stopped, dead, delivering, trouble>>
  BY DEF Connect, waiters, life
<1>4. Shapes' /\ Scalars'
  BY <1>1, <1>2, <1>3, Holds, Kinds DEF Shapes, Scalars, Attempted, Launched, NotLaunched,
     NetBecame, Senders
<1>5. ListenerSends'
  BY <1>1, <1>3, Holds DEF ListenerSends, InListener, Attempted, Launched, NotLaunched,
     NetBecame, Senders
<1>6. AnsweredIsClaimed'
  BY <1>1, Holds, Kinds DEF AnsweredIsClaimed, Attempted, Launched, NotLaunched, NetBecame,
     Senders
<1>7. OpenSessionIsNew'
  BY <1>1, <1>3, Holds, Kinds DEF OpenSessionIsNew, Attempted, Launched, NotLaunched,
     NetBecame, Senders
<1>8. EveryRequestIsHeld'
  BY <1>1, <1>3, Holds, Kinds DEF EveryRequestIsHeld, Attempted, Launched, NotLaunched,
     NetBecame
<1>9. PlainIsPlain'
  BY <1>1, <1>3, Holds, Kinds DEF PlainIsPlain, Attempted, Launched, NotLaunched,
     NetBecame, Senders
<1>10. AttemptIsWanted'
  BY <1>1, <1>3, Holds, Kinds DEF AttemptIsWanted, Attempted, Launched, NotLaunched,
     NetBecame
<1>11. Carried'
  BY <1>1, <1>3, Holds, Kinds DEF Carried, AttemptIsCarried, Underway, Alive, Attempted,
     Launched, NotLaunched, NetBecame, Senders
<1>12. QED
  BY <1>3, <1>4, <1>5, <1>6, <1>7, <1>8, <1>9, <1>10, <1>11, Frames DEF IInv

\* connect() is told.
LEMMA ConnectReturnsKeeps ==
  ASSUME IInv, ConnectReturns
  PROVE  IInv' /\ Kept
<1>1. connecting' \in {"connected", "failed"} /\ stranded' = stranded \ {"app"}
  BY DEF ConnectReturns
<1>2. UNCHANGED <<apiKey, auth, gate, net, attempts, outcome, sender, listener, stage,
                 closing, socket, stopped, dead, delivering, trouble>>
  BY DEF ConnectReturns, waiters, life
<1>3. Shapes' /\ Scalars'
  BY <1>1, <1>2, Holds, Kinds DEF Shapes, Scalars
<1>4. QED
  BY <1>2, <1>3, Frames DEF IInv

\* A handshake command is sent, or the socket does not take it.
LEMMA HandshakeLeavesKeeps ==
  ASSUME IInv, NEW h \in Handshakes, HandshakeLeaves(h)
  PROVE  IInv' /\ Kept
<1>1. stage[h] \in Senders /\ stage' = [stage EXCEPT ![h] = "idle"]
  BY DEF HandshakeLeaves
<1>2. \/ net' = Move(net, {h}, "wire") /\ auth' = auth /\ gate' = gate /\ trouble' = trouble
      \/ net' = Move(net, {h}, "lost") /\ SetBanned /\ Cause("local")
  BY DEF HandshakeLeaves
<1>3. \E where \in {"wire", "lost"} : NetBecame(net', net, ToSet(net.queue), {h}, where)
  BY <1>2, Holds, Kinds, MoveDoes
<1>4. \/ auth' = auth /\ gate' = gate
      \/ /\ auth' \in Sessions /\ ~auth'.session /\ ~auth'.authenticating
         /\ gate' = "open"
  BY <1>2, Holds, SetBannedDoes
<1>5. trouble' \in 0 .. MaxTrouble
  BY <1>2, Holds, CauseDoes
<1>6. Returned(stage[h])
  BY <1>1, Holds, ReturnDoes DEF HandshakeLeaves
<1>7. UNCHANGED <<apiKey, attempts, outcome, stranded, closing, socket, stopped, dead,
                 delivering>>
  BY DEF HandshakeLeaves, waiters, life
<1>8. Shapes' /\ Scalars'
  BY <1>1, <1>2, <1>3, <1>4, <1>5, <1>6, <1>7, Holds, Kinds DEF Shapes, Scalars, NetBecame,
     Returned, Senders
<1>9. Hands'
  BY <1>6, Holds DEF Hands, ListenerSends, InListener, Returned
<1>10. ListenerSends'
  BY <1>1, <1>6, Holds DEF ListenerSends, InListener, Returned, Senders
<1>11. AnsweredIsClaimed'
  BY <1>1, <1>2, <1>3, Holds, Kinds DEF AnsweredIsClaimed, NetBecame, Senders
<1>12. OpenSessionIsNew'
  BY <1>1, <1>2, <1>4, Holds, Kinds DEF OpenSessionIsNew, Senders
<1>13. EveryRequestIsHeld'
  BY <1>2, <1>3, <1>6, <1>7, Holds, Kinds DEF EveryRequestIsHeld, Hands, NetBecame, Returned
<1>14. PlainIsPlain'
  BY <1>1, <1>2, <1>3, <1>7, Holds, Kinds DEF PlainIsPlain, NetBecame, Senders
<1>15. DeadIsDead'
  BY <1>6, <1>7, Holds, Kinds DEF DeadIsDead, Alive, ListenerSends, InListener, Returned
<1>16. AttemptIsWanted'
  BY <1>2, <1>4, Holds, Kinds DEF AttemptIsWanted
<1>17. Carried'
  BY <1>1, <1>2, <1>3, <1>4, <1>6, <1>7, Holds, Kinds DEF Carried, AttemptIsCarried,
     Underway, Alive, ListenerSends, InListener, NetBecame, Returned, Senders
<1>18. QED
  BY <1>7, <1>8, <1>9, <1>10, <1>11, <1>12, <1>13, <1>14, <1>15, <1>16, <1>17,
     Frames DEF IInv

\* A handshake nobody needs any more is not sent.
LEMMA HandshakeIgnoredKeeps ==
  ASSUME IInv, NEW h \in Handshakes, HandshakeIgnored(h)
  PROVE  IInv' /\ Kept
<1>1. stage[h] \in Senders /\ stage' = [stage EXCEPT ![h] = "idle"]
  BY DEF HandshakeIgnored
<1>2. NetBecame(net', net, ToSet(net.queue), {h}, "gone")
  BY Holds, DroppedDoes, Zenon DEF HandshakeIgnored
<1>3. Returned(stage[h])
  BY <1>1, Holds, ReturnDoes DEF HandshakeIgnored
<1>4. Alive /\ (h \in Auths => auth.authed)
  BY Kinds DEF HandshakeIgnored, Ignored
<1>5. UNCHANGED <<apiKey, auth, gate, attempts, outcome, stranded, closing, socket,
                 stopped, dead, delivering, trouble>>
  BY DEF HandshakeIgnored, waiters, life
<1>6. Shapes' /\ Scalars'
  BY <1>1, <1>2, <1>3, <1>4, <1>5, Holds, Kinds DEF Shapes, Scalars, NetBecame, Returned,
     Senders
<1>7. Hands'
  BY <1>3, <1>4, Holds DEF Hands, ListenerSends, InListener, Returned
<1>8. ListenerSends'
  BY <1>1, <1>3, <1>4, Holds DEF ListenerSends, InListener, Returned, Senders
<1>9. AnsweredIsClaimed'
  BY <1>1, <1>2, <1>4, Holds, Kinds DEF AnsweredIsClaimed, NetBecame, Senders
<1>10. OpenSessionIsNew'
  BY <1>1, <1>4, <1>5, Holds, Kinds DEF OpenSessionIsNew, Senders
<1>11. EveryRequestIsHeld'
  BY <1>2, <1>3, <1>4, <1>5, Holds, Kinds DEF EveryRequestIsHeld, Hands, NetBecame, Returned
<1>12. PlainIsPlain'
  BY <1>1, <1>2, <1>4, <1>5, Holds, Kinds DEF PlainIsPlain, NetBecame, Senders
<1>13. DeadIsDead'
  BY <1>3, <1>4, <1>5, Holds, Kinds DEF DeadIsDead, Alive, ListenerSends, InListener,
     Returned
<1>14. Carried'
  <2>1. h \in Auths => ~auth.authenticating
    BY <1>4, Holds DEF AttemptIsWanted
  <2>2. h \in Encrypts => apiKey
    BY <1>1, Holds DEF PlainIsPlain, Senders
  <2>3. QED
    BY <1>5, <2>1, <2>2 DEF Handshakes, Carried, AttemptIsCarried
<1>15. QED
  BY <1>5, <1>6, <1>7, <1>8, <1>9, <1>10, <1>11, <1>12, <1>13, <1>14, Frames DEF IInv

\* A handshake is not sent to a listener that has died.
LEMMA HandshakeAbortsKeeps ==
  ASSUME IInv, NEW h \in Handshakes, HandshakeAborts(h)
  PROVE  IInv' /\ Kept
<1>1. stage[h] \in Senders /\ stage' = [stage EXCEPT ![h] = "idle"]
  BY DEF HandshakeAborts
<1>2. NetBecame(net', net, ToSet(net.queue), {h}, "gone")
  BY Holds, DroppedDoes, Zenon DEF HandshakeAborts
<1>3. \/ auth' = auth
      \/ auth' = [SettleAuth(auth, "error") EXCEPT !.authenticating = FALSE]
  BY DEF HandshakeAborts
<1>4. /\ auth' \in Sessions /\ auth'.session = auth.session /\ auth'.authed = auth.authed
      /\ auth'.authenticating => auth.authenticating
  <2> DEFINE a == SettleAuth(auth, "error")
  <2>1. /\ a \in Sessions /\ a.session = auth.session /\ a.authed = auth.authed
        /\ a.authenticating = auth.authenticating
    BY Holds, SettleAuthDoes
  <2> HIDE DEF a
  <2>2. auth' = auth \/ auth' = [a EXCEPT !.authenticating = FALSE]
    BY <1>3, Zenon DEF a
  <2>3. QED
    BY <2>1, <2>2, Holds DEF Sessions
<1>5. Returned(stage[h])
  BY <1>1, Holds, ReturnDoes DEF HandshakeAborts
<1>6. ~Alive
  BY DEF HandshakeAborts
<1>7. UNCHANGED <<apiKey, gate, attempts, outcome, stranded, closing, socket, stopped,
                 dead, delivering, trouble>>
  BY DEF HandshakeAborts, waiters, life
<1>8. Shapes' /\ Scalars'
  BY <1>1, <1>2, <1>3, <1>4, <1>5, <1>6, <1>7, Holds, Kinds DEF Shapes, Scalars, NetBecame,
     Returned, Senders
<1>9. Hands'
  BY <1>5, <1>6, Holds DEF Hands, ListenerSends, InListener, Returned
<1>10. ListenerSends'
  BY <1>1, <1>5, <1>6, Holds DEF ListenerSends, InListener, Returned, Senders
<1>11. AnsweredIsClaimed'
  BY <1>1, <1>2, <1>6, Holds, Kinds DEF AnsweredIsClaimed, NetBecame, Senders
<1>12. OpenSessionIsNew'
  BY <1>1, <1>3, <1>4, <1>6, <1>7, Holds, Kinds DEF OpenSessionIsNew, Senders
<1>13. EveryRequestIsHeld'
  BY <1>2, <1>5, <1>6, <1>7, Holds, Kinds DEF EveryRequestIsHeld, Hands, NetBecame, Returned
<1>14. PlainIsPlain'
  BY <1>1, <1>2, <1>6, <1>7, Holds, Kinds DEF PlainIsPlain, NetBecame, Senders
<1>15. DeadIsDead'
  BY <1>5, <1>6, <1>7, Holds, Kinds DEF DeadIsDead, Alive, ListenerSends, InListener,
     Returned
<1>16. AttemptIsWanted'
  BY <1>3, <1>4, <1>6, <1>7, Holds, Kinds DEF AttemptIsWanted
<1>17. Carried'
  BY <1>1, <1>2, <1>3, <1>4, <1>5, <1>6, <1>7, Holds, Kinds DEF Carried, AttemptIsCarried,
     Underway, Alive, ListenerSends, InListener, NetBecame, Returned, Senders
<1>18. QED
  BY <1>7, <1>8, <1>9, <1>10, <1>11, <1>12, <1>13, <1>14, <1>15, <1>16, <1>17,
     Frames DEF IInv

\* The handler of a handshake's reply begins.
LEMMA HandlerForgivesKeeps ==
  ASSUME IInv, NEW h \in Handshakes, HandlerForgives(h)
  PROVE  IInv' /\ Kept
<1>1. stage[h] = "answered" /\ stage' = [stage EXCEPT ![h] = "forgiven"] /\ gate' = "clear"
  BY DEF HandlerForgives
<1>2. auth' = [auth EXCEPT !.cipher = @ \/ h \in Encrypts]
  BY DEF HandlerForgives
<1>3. /\ auth' \in Sessions /\ auth'.authed = auth.authed
      /\ auth'.authenticating = auth.authenticating
  BY <1>2, Holds DEF Sessions
<1>4. UNCHANGED <<apiKey, net, attempts, outcome, sender, listener, stranded, connecting,
                 closing, socket, stopped, dead, delivering, trouble>>
  BY DEF HandlerForgives, waiters, life
<1>5. Shapes' /\ Scalars'
  BY <1>1, <1>2, <1>3, <1>4, Holds, Kinds DEF Shapes, Scalars, Senders
<1>6. ListenerSends'
  BY <1>1, <1>4, Holds DEF ListenerSends, InListener, Senders
<1>7. AnsweredIsClaimed'
  BY <1>1, <1>4, Holds, Kinds DEF AnsweredIsClaimed, Senders
<1>8. OpenSessionIsNew'
  BY <1>1, <1>2, <1>3, Holds, Kinds DEF OpenSessionIsNew, Senders
<1>9. PlainIsPlain'
  BY <1>1, <1>4, Holds, Kinds DEF PlainIsPlain, Senders
<1>10. AttemptIsWanted'
  BY <1>1, <1>2, <1>3, Holds, Kinds DEF AttemptIsWanted
<1>11. Carried'
  BY <1>1, <1>2, <1>3, <1>4, Holds, Kinds DEF Carried, AttemptIsCarried, Underway, Alive,
     Senders
<1>12. QED
  BY <1>4, <1>5, <1>6, <1>7, <1>8, <1>9, <1>10, <1>11, Frames DEF IInv

\* The login is recorded.
LEMMA AuthHandlerKeeps ==
  ASSUME IInv, NEW h \in Handshakes, AuthHandler(h)
  PROVE  IInv' /\ Kept
<1>1. stage[h] = "forgiven" /\ stage' = [stage EXCEPT ![h] = "idle"]
  BY DEF AuthHandler
<1>2. auth' = [SettleAuth(auth, "ok") EXCEPT !.authed = TRUE, !.authenticating = FALSE]
  BY DEF AuthHandler
<1>3. auth' \in Sessions /\ auth'.session = auth.session /\ ~auth'.authenticating
  <2> DEFINE a == SettleAuth(auth, "ok")
  <2>1. /\ a \in Sessions /\ a.session = auth.session /\ a.authed = auth.authed
        /\ a.authenticating = auth.authenticating
    BY Holds, SettleAuthDoes
  <2> HIDE DEF a
  <2>2. auth' = [a EXCEPT !.authed = TRUE, !.authenticating = FALSE]
    BY <1>2, Zenon DEF a
  <2>3. QED
    BY <2>1, <2>2 DEF Sessions
<1>4. UNCHANGED <<apiKey, gate, net, attempts, outcome, sender, listener, stranded,
                 connecting, closing, socket, stopped, dead, delivering, trouble>>
  BY DEF AuthHandler, waiters, life
<1>5. Shapes' /\ Scalars'
  BY <1>1, <1>2, <1>3, <1>4, Holds, Kinds DEF Shapes, Scalars, Senders
<1>6. ListenerSends'
  BY <1>1, <1>4, Holds DEF ListenerSends, InListener, Senders
<1>7. AnsweredIsClaimed'
  BY <1>1, <1>4, Holds, Kinds DEF AnsweredIsClaimed, Senders
<1>8. OpenSessionIsNew'
  BY <1>1, <1>2, <1>3, <1>4, Holds, Kinds DEF OpenSessionIsNew, Senders
<1>9. PlainIsPlain'
  BY <1>1, <1>4, Holds, Kinds DEF PlainIsPlain, Senders
<1>10. AttemptIsWanted'
  BY <1>2, <1>3, <1>4, Holds, Kinds DEF AttemptIsWanted
<1>11. Carried'
  BY <1>1, <1>2, <1>3, <1>4, Holds, Kinds DEF Carried, AttemptIsCarried, Underway, Alive,
     Senders
<1>12. QED
  BY <1>4, <1>5, <1>6, <1>7, <1>8, <1>9, <1>10, <1>11, Frames DEF IInv

\* AUTH follows ENCRYPT.
LEMMA SendAuthKeeps ==
  ASSUME IInv, NEW h \in Handshakes, NEW a \in HandshakeChoice, SendAuth(h, a)
  PROVE  IInv' /\ Kept
<1>1. stage[h] = "forgiven" /\ apiKey
  BY Holds DEF SendAuth, PlainIsPlain
<1>2. \/ net' = net /\ stage' = [stage EXCEPT ![h] = "idle"]
      \/ /\ a \in Fresh(net, Auths) /\ net' = [net EXCEPT !.stray = TRUE]
         /\ stage' = [stage EXCEPT ![h] = "idle"]
      \/ /\ a \in Fresh(net, Auths) /\ net' = Move(net, {a}, "unsent")
         /\ stage' = [[stage EXCEPT ![h] = "idle"] EXCEPT ![a] = "reply"]
  BY DEF SendAuth
<1>3. a \in Fresh(net, Auths) => a \in Handshakes /\ net.at[a] = "gone" /\ stage[a] = "idle"
  BY Kinds, FreshMeans
<1>4. \/ stage' = [stage EXCEPT ![h] = "idle"] /\ NetBecame(net', net, ToSet(net.queue), {}, "gone")
      \/ /\ a \in Handshakes /\ net.at[a] = "gone" /\ stage[a] = "idle"
         /\ stage' = [[stage EXCEPT ![h] = "idle"] EXCEPT ![a] = "reply"]
         /\ NetBecame(net', net, ToSet(net.queue), {a}, "unsent")
  <2>1. NetBecame(net, net, ToSet(net.queue), {}, "gone")
    BY Holds DEF NetBecame
  <2>2. NetBecame([net EXCEPT !.stray = TRUE], net, ToSet(net.queue), {}, "gone")
    BY Holds, StrayDoes, Zenon
  <2>3. a \in Fresh(net, Auths) =>
          NetBecame(Move(net, {a}, "unsent"), net, ToSet(net.queue), {a}, "unsent")
    BY <1>3, Holds, Kinds, MoveDoes
  <2>4. QED
    BY <1>2, <1>3, <2>1, <2>2, <2>3, Zenon
<1>5. UNCHANGED <<apiKey, auth, gate, attempts, outcome, sender, listener, stranded,
                 connecting, closing, socket, stopped, dead, delivering, trouble>>
  BY DEF SendAuth, waiters, life
<1>6. Shapes' /\ Scalars'
  BY <1>1, <1>2, <1>3, <1>4, <1>5, Holds, Kinds DEF Shapes, Scalars, NetBecame, Senders
<1>7. ListenerSends'
  BY <1>1, <1>2, <1>3, <1>4, <1>5, Holds DEF ListenerSends, InListener, NetBecame, Senders
<1>8. AnsweredIsClaimed'
  BY <1>1, <1>2, <1>3, <1>4, Holds, Kinds DEF AnsweredIsClaimed, NetBecame, Senders
<1>9. OpenSessionIsNew'
  BY <1>1, <1>2, <1>3, <1>4, <1>5, Holds, Kinds DEF OpenSessionIsNew, NetBecame, Senders
<1>10. EveryRequestIsHeld'
  BY <1>1, <1>2, <1>3, <1>4, <1>5, Holds, Kinds DEF EveryRequestIsHeld, NetBecame
<1>11. PlainIsPlain'
  BY <1>1, <1>5 DEF PlainIsPlain
<1>12. Carried'
  BY <1>1, <1>5 DEF Carried
<1>13. QED
  BY <1>5, <1>6, <1>7, <1>8, <1>9, <1>10, <1>11, <1>12, Frames DEF IInv

\* The sender takes the next command.
LEMMA SenderTakesKeeps ==
  ASSUME IInv, SenderTakes
  PROVE  IInv' /\ Kept
<1>1. net.queue # <<>> /\ sender.pc = "take" /\ net' = [net EXCEPT !.queue = Tail(net.queue)]
  BY Holds DEF SenderTakes, Well, Nets
<1>2. /\ Head(net.queue) \in Ordinary /\ Tail(net.queue) \in Seq(Ordinary)
      /\ ToSet(net.queue) = ToSet(Tail(net.queue)) \cup {Head(net.queue)}
  BY <1>1, Holds, Kinds, QueueSets
<1>3. NetBecame(net', net, ToSet(Tail(net.queue)), {}, "gone")
  BY <1>1, <1>2, Holds, QueueDoes, Zenon
<1>4. /\ sender' \in SenderThreads /\ sender'.pc \in {"check", "reauth"}
      /\ sender'.cmd = Head(net.queue)
  BY <1>2 DEF SenderTakes, SenderThreads
<1>5. UNCHANGED <<apiKey, auth, gate, attempts, outcome, listener, stage, stranded,
                 connecting, closing, socket, stopped, dead, delivering, trouble>>
  BY DEF SenderTakes, waiters, life
<1>6. Shapes' /\ Scalars'
  BY <1>1, <1>2, <1>3, <1>4, <1>5, Holds, Kinds DEF Shapes, Scalars, NetBecame
<1>7. Hands'
  BY <1>2, <1>4, <1>5, Holds DEF Hands
<1>8. AnsweredIsClaimed'
  BY <1>1, <1>2, <1>3, <1>5, Holds, Kinds DEF AnsweredIsClaimed, NetBecame
<1>9. EveryRequestIsHeld'
  BY <1>1, <1>2, <1>3, <1>4, <1>5, Holds, Kinds DEF EveryRequestIsHeld, Hands, NetBecame
<1>10. PlainIsPlain'
  BY <1>1, <1>2, <1>3, <1>5, Holds, Kinds DEF PlainIsPlain, NetBecame
<1>11. Carried'
  BY <1>1, <1>2, <1>3, <1>5, Holds, Kinds DEF Carried, AttemptIsCarried, Underway, Alive,
     NetBecame
<1>12. QED
  BY <1>5, <1>6, <1>7, <1>8, <1>9, <1>10, <1>11, Frames DEF IInv

\* The sender ends.
LEMMA SenderStopsKeeps ==
  ASSUME IInv, SenderStops
  PROVE  IInv' /\ Kept
<1>1. sender' \in SenderThreads /\ sender'.pc = "gone" /\ sender'.cmd = sender.cmd
  BY Holds DEF SenderStops, SenderThreads
<1>2. UNCHANGED <<apiKey, auth, gate, net, attempts, outcome, listener, stage, stranded,
                 connecting, closing, socket, stopped, dead, delivering, trouble>>
  BY DEF SenderStops, waiters, life
<1>3. Shapes' /\ Scalars'
  BY <1>1, <1>2, Holds, Kinds DEF Shapes, Scalars
<1>4. Hands'
  BY <1>1, <1>2, Holds DEF Hands
<1>5. EveryRequestIsHeld'
  BY <1>1, <1>2, Holds, Kinds DEF EveryRequestIsHeld, Hands
<1>6. QED
  BY <1>2, <1>3, <1>4, <1>5, Frames DEF IInv

\* The sender asks for a login.
LEMMA SenderReauthenticatesKeeps ==
  ASSUME IInv, NEW h \in HandshakeChoice, SenderReauthenticates(h)
  PROVE  IInv' /\ Kept
<1>1. /\ auth' \in Sessions /\ stranded' \subseteq {"sender", "app"} /\ ~auth'.session
      /\ Attempted(DropSession(auth), net, h, "sender")
  BY Holds, DropDoes, ReauthenticateDoes DEF SenderReauthenticates, Senders
<1>2. ~DropSession(auth).authed /\ DropSession(auth).authenticating = auth.authenticating
  BY Holds, DropDoes
<1>3. sender' \in SenderThreads /\ sender'.pc \in {"sending", "await"} /\ sender'.cmd = sender.cmd
  BY Holds DEF SenderReauthenticates, SenderThreads
<1>4. UNCHANGED <<apiKey, gate, attempts, outcome, listener, connecting, closing, socket,
                 stopped, dead, delivering, trouble>>
  BY DEF SenderReauthenticates, waiters, life
<1>5. Shapes' /\ Scalars'
  BY <1>1, <1>2, <1>3, <1>4, Holds, Kinds DEF Shapes, Scalars, Attempted, Launched,
     NotLaunched, NetBecame, Senders
<1>6. Hands'
  BY <1>2, <1>3, <1>4, Holds DEF Hands
<1>7. ListenerSends'
  BY <1>1, <1>2, <1>4, Holds DEF ListenerSends, InListener, Attempted, Launched,
     NotLaunched, NetBecame, Senders
<1>8. AnsweredIsClaimed'
  BY <1>1, <1>2, Holds, Kinds DEF AnsweredIsClaimed, Attempted, Launched, NotLaunched,
     NetBecame, Senders
<1>9. OpenSessionIsNew'
  BY <1>1, <1>2, <1>4, Holds, Kinds DEF OpenSessionIsNew, Attempted, Launched, NotLaunched,
     NetBecame, Senders
<1>10. EveryRequestIsHeld'
  BY <1>1, <1>2, <1>3, <1>4, Holds, Kinds DEF EveryRequestIsHeld, Hands, Attempted,
     Launched, NotLaunched, NetBecame
<1>11. PlainIsPlain'
  BY <1>1, <1>2, <1>4, Holds, Kinds DEF PlainIsPlain, Attempted, Launched, NotLaunched,
     NetBecame, Senders
<1>12. AttemptIsWanted'
  BY <1>1, <1>2, <1>4, Holds, Kinds DEF AttemptIsWanted, Attempted, Launched, NotLaunched,
     NetBecame
<1>13. Carried'
  BY <1>1, <1>2, <1>4, Holds, Kinds DEF Carried, AttemptIsCarried, Underway, Alive,
     Attempted, Launched, NotLaunched, NetBecame, Senders
<1>14. QED
  BY <1>4, <1>5, <1>6, <1>7, <1>8, <1>9, <1>10, <1>11, <1>12, <1>13, Frames DEF IInv

\* The sender is told of a login.
LEMMA SenderAwaitSucceedsKeeps ==
  ASSUME IInv, SenderAwaitSucceeds
  PROVE  IInv' /\ Kept
<1>1. sender' \in SenderThreads /\ sender'.pc = "check" /\ sender'.cmd = sender.cmd
  BY Holds DEF SenderAwaitSucceeds, SenderThreads
<1>2. stranded' = stranded \ {"sender"}
  BY DEF SenderAwaitSucceeds
<1>3. UNCHANGED <<apiKey, auth, gate, net, attempts, outcome, listener, stage, connecting,
                 closing, socket, stopped, dead, delivering, trouble>>
  BY DEF SenderAwaitSucceeds, waiters, life
<1>4. Shapes' /\ Scalars'
  BY <1>1, <1>2, <1>3, Holds, Kinds DEF Shapes, Scalars
<1>5. Hands'
  BY <1>1, <1>3, Holds DEF Hands
<1>6. EveryRequestIsHeld'
  BY <1>1, <1>3, Holds, Kinds DEF EveryRequestIsHeld, Hands
<1>7. QED
  BY <1>3, <1>4, <1>5, <1>6, Frames DEF IInv

\* The sender is told that the login was refused.
LEMMA SenderAwaitRefusedKeeps ==
  ASSUME IInv, SenderAwaitRefused
  PROVE  IInv' /\ Kept
<1>1. sender.cmd \in Ordinary
  BY Holds DEF SenderAwaitRefused, At
<1>2. /\ NetBecame(net', net, ToSet(net.queue), {sender.cmd}, "gone")
      /\ Concluded({sender.cmd})
      /\ sender' \in SenderThreads /\ sender'.pc \in {"take", "gone"} /\ sender'.cmd = NoCmd
  BY <1>1, Holds, FailsDoes DEF SenderAwaitRefused, AfterLogout
<1>3. stranded' = stranded \ {"sender"}
  BY DEF SenderAwaitRefused
<1>4. UNCHANGED <<apiKey, auth, gate, attempts, listener, stage, connecting, closing,
                 socket, stopped, dead, delivering, trouble>>
  BY DEF SenderAwaitRefused, waiters, life, SenderFails
<1>5. Shapes' /\ Scalars'
  BY <1>1, <1>2, <1>3, <1>4, Holds, Kinds DEF Shapes, Scalars, NetBecame, Concluded
<1>6. Hands'
  BY <1>1, <1>2, <1>4, Holds DEF Hands, Concluded
<1>7. AnsweredIsClaimed'
  BY <1>1, <1>2, <1>4, Holds, Kinds DEF AnsweredIsClaimed, NetBecame, Concluded
<1>8. LogoutUntouched'
  BY <1>1, <1>2, <1>4, Holds, Kinds DEF LogoutUntouched, Concluded
<1>9. EveryRequestIsHeld'
  BY <1>1, <1>2, <1>4, Holds, Kinds DEF EveryRequestIsHeld, Hands, NetBecame, Concluded
<1>10. PlainIsPlain'
  BY <1>1, <1>2, <1>4, Holds, Kinds DEF PlainIsPlain, NetBecame, Concluded
<1>11. Carried'
  BY <1>1, <1>2, <1>4, Holds, Kinds DEF Carried, AttemptIsCarried, Underway, Alive,
     NetBecame, Concluded
<1>12. Kept
  BY <1>1, <1>2, <1>4, Holds DEF Kept, Concluded
<1>13. QED
  BY <1>4, <1>5, <1>6, <1>7, <1>8, <1>9, <1>10, <1>11, <1>12, Frames DEF IInv

\* The sender puts its command back.
LEMMA SenderAwaitGivesUpKeeps ==
  ASSUME IInv, SenderAwaitGivesUp
  PROVE  IInv' /\ Kept
<1>1. sender.cmd \in Ordinary
  BY Holds DEF SenderAwaitGivesUp, At
<1>2. net' = IF sender.cmd = Logout THEN net ELSE [net EXCEPT !.queue = <<sender.cmd>> \o @]
  BY Zenon DEF SenderAwaitGivesUp, PutBack
<1>3. NetBecame([net EXCEPT !.queue = <<sender.cmd>> \o @], net,
                ToSet(net.queue) \cup {sender.cmd}, {}, "gone")
  BY <1>1, Holds, PutFirst, Zenon
<1>4. NetBecame(net', net, ToSet(net.queue) \cup ({sender.cmd} \ {Logout}), {}, "gone")
  <2>1. CASE sender.cmd = Logout
    <3>1. net' = net
      BY <1>2, <2>1, Zenon
    <3>2. QED
      BY <2>1, <3>1, Holds DEF NetBecame
  <2>2. CASE sender.cmd # Logout
    <3>1. NetBecame(net', net, ToSet(net.queue) \cup {sender.cmd}, {}, "gone")
      BY <1>2, <1>3, <2>2, Zenon
    <3>2. {sender.cmd} \ {Logout} = {sender.cmd}
      BY <2>2
    <3>3. QED
      BY <3>1, <3>2
  <2>3. QED
    BY <2>1, <2>2
<1>5. sender' \in SenderThreads /\ sender'.pc \in {"take", "gone"} /\ sender'.cmd = NoCmd
  BY DEF SenderAwaitGivesUp, Free, AfterLogout, SenderThreads
<1>6. stranded' = stranded \ {"sender"}
  BY DEF SenderAwaitGivesUp
<1>7. UNCHANGED <<apiKey, auth, gate, attempts, outcome, listener, stage, connecting,
                 closing, socket, stopped, dead, delivering, trouble>>
  BY DEF SenderAwaitGivesUp, waiters, life
<1>8. Shapes' /\ Scalars'
  BY <1>1, <1>2, <1>3, <1>4, <1>5, <1>6, <1>7, Holds, Kinds DEF Shapes, Scalars, NetBecame
<1>9. Hands'
  BY <1>1, <1>5, <1>7, Holds DEF Hands
<1>10. AnsweredIsClaimed'
  BY <1>1, <1>2, <1>3, <1>4, <1>7, Holds, Kinds DEF AnsweredIsClaimed, NetBecame
<1>11. EveryRequestIsHeld'
  BY <1>1, <1>2, <1>3, <1>4, <1>5, <1>7, Holds, Kinds DEF EveryRequestIsHeld, Hands,
     NetBecame
<1>12. PlainIsPlain'
  BY <1>1, <1>2, <1>3, <1>4, <1>7, Holds, Kinds DEF PlainIsPlain, NetBecame
<1>13. Carried'
  BY <1>1, <1>2, <1>3, <1>4, <1>7, Holds, Kinds DEF Carried, AttemptIsCarried, Underway,
     Alive, NetBecame
<1>14. QED
  BY <1>7, <1>8, <1>9, <1>10, <1>11, <1>12, <1>13, Frames DEF IInv

\* The sender looks at the window.
LEMMA SenderChecksKeeps ==
  ASSUME IInv, SenderChecks
  PROVE  IInv' /\ Kept
<1>1. sender.cmd \in Ordinary
  BY Holds DEF SenderChecks, At
<1>2. \/ SenderFails("take")
      \/ sender' = [sender EXCEPT !.pc = "paced"] /\ net' = net /\ outcome' = outcome
  BY DEF SenderChecks
<1>3. \/ /\ NetBecame(net', net, ToSet(net.queue), {sender.cmd}, "gone")
         /\ Concluded({sender.cmd})
         /\ sender' \in SenderThreads /\ sender'.pc \in {"take", "gone"} /\ sender'.cmd = NoCmd
      \/ /\ sender' \in SenderThreads /\ sender'.pc = "paced" /\ sender'.cmd = sender.cmd
         /\ net' = net /\ outcome' = outcome
  BY <1>1, <1>2, Holds, FailsDoes DEF SenderThreads
<1>4. UNCHANGED <<apiKey, auth, gate, attempts, listener, stage, stranded, connecting,
                 closing, socket, stopped, dead, delivering, trouble>>
  BY DEF SenderChecks, waiters, life, SenderFails
<1>5. Shapes' /\ Scalars'
  BY <1>1, <1>2, <1>3, <1>4, Holds, Kinds DEF Shapes, Scalars, NetBecame, Concluded
<1>6. Hands'
  BY <1>1, <1>2, <1>3, <1>4, Holds DEF Hands, Concluded
<1>7. AnsweredIsClaimed'
  BY <1>1, <1>2, <1>3, <1>4, Holds, Kinds DEF AnsweredIsClaimed, NetBecame, Concluded
<1>8. LogoutUntouched'
  BY <1>1, <1>2, <1>3, <1>4, Holds, Kinds DEF LogoutUntouched, Concluded
<1>9. EveryRequestIsHeld'
  BY <1>1, <1>2, <1>3, <1>4, Holds, Kinds DEF EveryRequestIsHeld, Hands, NetBecame,
     Concluded
<1>10. PlainIsPlain'
  BY <1>1, <1>2, <1>3, <1>4, Holds, Kinds DEF PlainIsPlain, NetBecame, Concluded
<1>11. Carried'
  BY <1>1, <1>2, <1>3, <1>4, Holds, Kinds DEF Carried, AttemptIsCarried, Underway, Alive,
     NetBecame, Concluded
<1>12. Kept
  BY <1>1, <1>2, <1>3, <1>4, Holds DEF Kept, Concluded
<1>13. QED
  BY <1>4, <1>5, <1>6, <1>7, <1>8, <1>9, <1>10, <1>11, <1>12, Frames DEF IInv

\* After its wait the sender finds no session.
LEMMA SenderUnauthorizedKeeps ==
  ASSUME IInv, SenderUnauthorized
  PROVE  IInv' /\ Kept
<1>1. sender.cmd \in Ordinary
  BY Holds DEF SenderUnauthorized, At
<1>2. /\ NetBecame(net', net, ToSet(net.queue), {sender.cmd}, "gone")
      /\ Concluded({sender.cmd})
      /\ sender' \in SenderThreads /\ sender'.pc \in {"take", "gone"} /\ sender'.cmd = NoCmd
  BY <1>1, Holds, FailsDoes DEF SenderUnauthorized
<1>3. UNCHANGED <<apiKey, auth, gate, attempts, listener, stage, stranded, connecting,
                 closing, socket, stopped, dead, delivering, trouble>>
  BY DEF SenderUnauthorized, waiters, life, SenderFails
<1>4. Shapes' /\ Scalars'
  BY <1>1, <1>2, <1>3, Holds, Kinds DEF Shapes, Scalars, NetBecame, Concluded
<1>5. Hands'
  BY <1>1, <1>2, <1>3, Holds DEF Hands, Concluded
<1>6. AnsweredIsClaimed'
  BY <1>1, <1>2, <1>3, Holds, Kinds DEF AnsweredIsClaimed, NetBecame, Concluded
<1>7. LogoutUntouched'
  BY <1>1, <1>2, <1>3, Holds, Kinds DEF LogoutUntouched, Concluded
<1>8. EveryRequestIsHeld'
  BY <1>1, <1>2, <1>3, Holds, Kinds DEF EveryRequestIsHeld, Hands, NetBecame, Concluded
<1>9. PlainIsPlain'
  BY <1>1, <1>2, <1>3, Holds, Kinds DEF PlainIsPlain, NetBecame, Concluded
<1>10. Carried'
  BY <1>1, <1>2, <1>3, Holds, Kinds DEF Carried, AttemptIsCarried, Underway, Alive,
     NetBecame, Concluded
<1>11. Kept
  BY <1>1, <1>2, <1>3, Holds DEF Kept, Concluded
<1>12. QED
  BY <1>3, <1>4, <1>5, <1>6, <1>7, <1>8, <1>9, <1>10, <1>11, Frames DEF IInv

\* A command is sent, or the socket does not take it.
LEMMA SenderSendsKeeps ==
  ASSUME IInv, SenderSends
  PROVE  IInv' /\ Kept
<1>1. sender.cmd \in Ordinary /\ attempts' = [attempts EXCEPT ![sender.cmd] = @ + 1]
  BY Holds DEF SenderSends, At
<1>2. \/ /\ net' = Move(net, {sender.cmd}, "wire")
         /\ auth' = auth /\ gate' = gate /\ trouble' = trouble
      \/ /\ net' = [Move(net, {sender.cmd}, "lost") EXCEPT !.queue = <<sender.cmd>> \o @]
         /\ SetBanned /\ Cause("local")
  BY Zenon DEF SenderSends
<1>3. /\ NetBecame(Move(net, {sender.cmd}, "wire"), net, ToSet(net.queue), {sender.cmd}, "wire")
      /\ NetBecame(Move(net, {sender.cmd}, "lost"), net, ToSet(net.queue), {sender.cmd}, "lost")
  BY <1>1, Holds, Kinds, MoveDoes
<1>4. \E where \in {"wire", "lost"} :
        \E queued \in {ToSet(net.queue), ToSet(net.queue) \cup {sender.cmd}} :
          NetBecame(net', net, queued, {sender.cmd}, where)
  <2> DEFINE m == Move(net, {sender.cmd}, "lost")
  <2>1. NetBecame(m, net, ToSet(net.queue), {sender.cmd}, "lost") /\ Well(m)
    BY <1>3 DEF NetBecame
  <2> HIDE DEF m
  <2>2. NetBecame([m EXCEPT !.queue = <<sender.cmd>> \o @], m,
                  ToSet(m.queue) \cup {sender.cmd}, {}, "gone")
    BY <1>1, <2>1, PutFirst, Zenon
  <2>3. NetBecame([m EXCEPT !.queue = <<sender.cmd>> \o @], net, ToSet(net.queue) \cup {sender.cmd},
                  {sender.cmd}, "lost")
    BY <2>1, <2>2, Zenon DEF NetBecame
  <2>4. QED
    BY <1>2, <1>3, <2>3, Zenon DEF m
<1>5. \/ auth' = auth /\ gate' = gate
      \/ /\ auth' \in Sessions /\ ~auth'.session /\ ~auth'.authenticating
         /\ gate' = "open"
  BY <1>2, Holds, SetBannedDoes, Zenon
<1>6. trouble' \in 0 .. MaxTrouble
  BY <1>2, Holds, CauseDoes, Zenon
<1>7. sender' \in SenderThreads /\ sender'.pc \in {"take", "gone"} /\ sender'.cmd = NoCmd
  BY DEF SenderSends, Free, AfterLogout, SenderThreads
<1>8. UNCHANGED <<apiKey, outcome, listener, stage, stranded, connecting, closing, socket,
                 stopped, dead, delivering>>
  BY DEF SenderSends, waiters, life
<1>9. Shapes' /\ Scalars'
  BY <1>1, <1>2, <1>3, <1>4, <1>5, <1>6, <1>7, <1>8, Holds, Kinds DEF Shapes, Scalars,
     NetBecame
<1>10. Hands'
  BY <1>7, <1>8, Holds DEF Hands
<1>11. AnsweredIsClaimed'
  BY <1>2, <1>3, <1>4, <1>8, Holds, Kinds DEF AnsweredIsClaimed, NetBecame
<1>12. OpenSessionIsNew'
  BY <1>2, <1>5, <1>8, Holds, Kinds DEF OpenSessionIsNew
<1>13. EveryRequestIsHeld'
  BY <1>2, <1>3, <1>4, <1>7, <1>8, Holds, Kinds DEF EveryRequestIsHeld, Hands, NetBecame
<1>14. PlainIsPlain'
  BY <1>2, <1>3, <1>4, <1>8, Holds, Kinds DEF PlainIsPlain, NetBecame
<1>15. AttemptIsWanted'
  BY <1>2, <1>5, Holds, Kinds DEF AttemptIsWanted
<1>16. Carried'
  BY <1>2, <1>3, <1>4, <1>5, <1>8, Holds, Kinds DEF Carried, AttemptIsCarried, Underway,
     Alive, NetBecame
<1>17. QED
  BY <1>8, <1>9, <1>10, <1>11, <1>12, <1>13, <1>14, <1>15, <1>16, Frames DEF IInv

\* The sender finds that the listener has died.
LEMMA SenderAbandonsKeeps ==
  ASSUME IInv, SenderAbandons
  PROVE  IInv' /\ Kept
<1>1. sender.cmd \in Ordinary /\ dead' = TRUE /\ ~Alive
  BY Holds DEF SenderAbandons, At
<1>2. /\ NetBecame(net', net, {}, All, "gone")
      /\ Concluded({d \in All : net.at[d] # "gone"} \cup ToSet(net.queue) \cup {sender.cmd})
  BY Holds, AbortDoes DEF SenderAbandons
<1>3. sender' \in SenderThreads /\ sender'.pc = "gone" /\ sender'.cmd = NoCmd
  BY DEF SenderAbandons, Free, SenderThreads
<1>4. UNCHANGED <<apiKey, auth, gate, attempts, listener, stage, stranded, connecting,
                 closing, socket, stopped, delivering, trouble>>
  BY DEF SenderAbandons, waiters, life
<1>5. Shapes' /\ Scalars'
  BY <1>1, <1>2, <1>3, <1>4, Holds, Kinds DEF Shapes, Scalars, NetBecame, Concluded
<1>6. Hands'
  BY <1>3, <1>4, Holds DEF Hands
<1>7. AnsweredIsClaimed'
  BY <1>2, <1>4, Holds, Kinds DEF AnsweredIsClaimed, NetBecame, Concluded
<1>8. LogoutUntouched'
  BY <1>2, <1>4, Holds, Kinds DEF LogoutUntouched, Concluded
<1>9. EveryRequestIsHeld'
  BY <1>2, <1>3, <1>4, Holds, Kinds DEF EveryRequestIsHeld, Hands, NetBecame, Concluded
<1>10. PlainIsPlain'
  BY <1>2, <1>4, Holds, Kinds DEF PlainIsPlain, NetBecame, Concluded
<1>11. DeadIsDead'
  BY <1>1, <1>4, Holds, Kinds DEF DeadIsDead, Alive
<1>12. Carried'
  BY <1>1, <1>4 DEF Carried, AttemptIsCarried, Alive
<1>13. Kept
  BY <1>2, <1>4, Holds DEF Kept, Concluded
<1>14. QED
  BY <1>4, <1>5, <1>6, <1>7, <1>8, <1>9, <1>10, <1>11, <1>12, <1>13, Frames DEF IInv

\* stop() begins.
LEMMA StopKeeps ==
  ASSUME IInv, Stop
  PROVE  IInv' /\ Kept
<1>1. closing = "idle"
  BY DEF Stop
<1>2. \/ /\ closing' = "logout" /\ outcome' = [outcome EXCEPT ![Logout] = "pending"]
         /\ NetBecame(net', net, ToSet(net.queue) \cup {Logout}, {Logout}, "unsent")
      \/ closing' = "teardown" /\ outcome' = outcome /\ net' = net
  BY Holds, Kinds, QueuedDoes DEF Stop
<1>3. UNCHANGED <<apiKey, auth, gate, attempts, sender, listener, stage, stranded,
                 connecting, socket, stopped, dead, delivering, trouble>>
  BY DEF Stop, waiters, life
<1>4. Shapes' /\ Scalars'
  BY <1>1, <1>2, <1>3, Holds, Kinds DEF Shapes, Scalars, NetBecame
<1>5. AnsweredIsClaimed'
  BY <1>1, <1>2, <1>3, Holds, Kinds DEF AnsweredIsClaimed, NetBecame
<1>6. LogoutUntouched'
  BY <1>1, <1>2, Holds, Kinds DEF LogoutUntouched
<1>7. EveryRequestIsHeld'
  BY <1>1, <1>2, <1>3, Holds, Kinds DEF EveryRequestIsHeld, NetBecame
<1>8. PlainIsPlain'
  BY <1>1, <1>2, <1>3, Holds, Kinds DEF PlainIsPlain, NetBecame
<1>9. Carried'
  BY <1>1, <1>2, <1>3, Holds, Kinds DEF Carried, AttemptIsCarried, Underway, Alive,
     NetBecame
<1>10. Kept
  BY <1>1, <1>2, <1>3, Holds DEF Kept, LogoutUntouched
<1>11. QED
  BY <1>3, <1>4, <1>5, <1>6, <1>7, <1>8, <1>9, <1>10, Frames DEF IInv

\* The threads are told to end.
LEMMA TeardownKeeps ==
  ASSUME IInv, Teardown
  PROVE  IInv' /\ Kept
<1>1. /\ closing # "idle" /\ closing' = "joining" /\ stopped' = TRUE
      /\ socket' = IF socket = "open" THEN "told" ELSE socket
  BY DEF Teardown
<1>2. UNCHANGED <<apiKey, auth, gate, net, attempts, outcome, sender, listener, stage,
                 stranded, connecting, dead, delivering, trouble>>
  BY DEF Teardown, waiters, life
<1>3. Shapes' /\ Scalars'
  BY <1>1, <1>2, Holds, Kinds DEF Shapes, Scalars
<1>4. LogoutUntouched'
  BY <1>1, <1>2, Holds, Kinds DEF LogoutUntouched
<1>5. DeadIsDead'
  BY <1>1, <1>2, Holds, Kinds DEF DeadIsDead, Alive
<1>6. Carried'
  BY <1>1, <1>2, Holds, Kinds DEF Carried, AttemptIsCarried, Underway, Alive
<1>7. QED
  BY <1>2, <1>3, <1>4, <1>5, <1>6, Frames DEF IInv

\* stop() is done.
LEMMA JoinedKeeps ==
  ASSUME IInv, Joined
  PROVE  IInv' /\ Kept
<1>1. closing # "idle" /\ closing' = "stopped" /\ socket' = "closed"
  BY DEF Joined
<1>2. /\ NetBecame(net', net, {}, All, "gone")
      /\ Concluded({d \in All : net.at[d] # "gone"} \cup ToSet(net.queue) \cup {})
  BY Holds, AbortDoes DEF Joined
<1>3. UNCHANGED <<apiKey, auth, gate, attempts, sender, listener, stage, stranded,
                 connecting, stopped, dead, delivering, trouble>>
  BY DEF Joined, waiters, life
<1>4. Shapes' /\ Scalars'
  BY <1>1, <1>2, <1>3, Holds, Kinds DEF Shapes, Scalars, NetBecame, Concluded
<1>5. AnsweredIsClaimed'
  BY <1>2, <1>3, Holds, Kinds DEF AnsweredIsClaimed, NetBecame, Concluded
<1>6. LogoutUntouched'
  BY <1>1, <1>2, Holds, Kinds DEF LogoutUntouched, Concluded
<1>7. EveryRequestIsHeld'
  BY <1>2, <1>3, Holds, Kinds DEF EveryRequestIsHeld, NetBecame, Concluded
<1>8. PlainIsPlain'
  BY <1>2, <1>3, Holds, Kinds DEF PlainIsPlain, NetBecame, Concluded
<1>9. DeadIsDead'
  BY <1>1, <1>3, Holds, Kinds DEF DeadIsDead, Alive
<1>10. Carried'
  BY <1>1, <1>2, <1>3, Holds, Kinds DEF Carried, AttemptIsCarried, Underway, Alive,
     NetBecame, Concluded
<1>11. Kept
  BY <1>2, <1>3, Holds DEF Kept, Concluded
<1>12. QED
  BY <1>3, <1>4, <1>5, <1>6, <1>7, <1>8, <1>9, <1>10, <1>11, Frames DEF IInv

\* A reply is handed to a thread of its own.
LEMMA ReplyArrivesKeeps ==
  ASSUME IInv, NEW c \in Ordinary, ReplyArrives(c)
  PROVE  IInv' /\ Kept
<1>1. /\ listener.pc = "recv" /\ listener' \in ListenerThreads
      /\ listener'.pc = "recv" /\ listener'.cmd = NoCmd
  BY Holds, NoteDoes DEF ReplyArrives, Answerable, Reading
<1>2. NetBecame(net', net, ToSet(net.queue), {c}, "gone")
  BY Holds, Kinds, ClaimedDoes DEF ReplyArrives
<1>3. delivering' = delivering \cup {c} /\ socket' \in {socket, "closed"}
  BY DEF ReplyArrives
<1>4. trouble' \in 0 .. MaxTrouble
  BY Holds, CauseDoes DEF ReplyArrives
<1>5. UNCHANGED <<apiKey, auth, gate, attempts, outcome, sender, stage, stranded,
                 connecting, closing, stopped, dead>>
  BY DEF ReplyArrives, waiters, life
<1>6. Shapes' /\ Scalars'
  BY <1>1, <1>2, <1>3, <1>4, <1>5, Holds, Kinds DEF Shapes, Scalars, NetBecame
<1>7. Hands'
  BY <1>1, <1>5, Holds DEF Hands
<1>8. ListenerSends'
  BY <1>1, <1>5, Holds DEF ListenerSends, InListener
<1>9. AnsweredIsClaimed'
  BY <1>2, <1>5, Holds, Kinds DEF AnsweredIsClaimed, NetBecame
<1>10. EveryRequestIsHeld'
  BY <1>1, <1>2, <1>3, <1>5, Holds, Kinds DEF EveryRequestIsHeld, Hands, NetBecame
<1>11. PlainIsPlain'
  BY <1>2, <1>5, Holds, Kinds DEF PlainIsPlain, NetBecame
<1>12. DeadIsDead'
  BY <1>1, <1>3, <1>5, Holds, Kinds DEF DeadIsDead, Alive
<1>13. Carried'
  BY <1>1, <1>2, <1>3, <1>5, Holds, Kinds DEF Carried, AttemptIsCarried, Underway, Alive,
     NetBecame
<1>14. QED
  BY <1>5, <1>6, <1>7, <1>8, <1>9, <1>10, <1>11, <1>12, <1>13, Frames DEF IInv

\* A reply is delivered.
LEMMA DeliversKeeps ==
  ASSUME IInv, NEW c \in Ordinary, Delivers(c)
  PROVE  IInv' /\ Kept
<1>1. delivering' = delivering \ {c} /\ stopped' = (stopped \/ c = Logout)
  BY DEF Delivers
<1>2. Concluded({c})
  BY Holds, SettleDoes DEF Delivers
<1>3. UNCHANGED <<apiKey, auth, gate, net, attempts, sender, listener, stage, stranded,
                 connecting, closing, socket, dead, trouble>>
  BY DEF Delivers, waiters, life
<1>4. Shapes' /\ Scalars'
  BY <1>1, <1>2, <1>3, Holds, Kinds DEF Shapes, Scalars, Concluded
<1>5. LogoutUntouched'
  BY <1>2, <1>3, Holds, Kinds DEF LogoutUntouched, Concluded
<1>6. EveryRequestIsHeld'
  BY <1>1, <1>2, <1>3, Holds, Kinds DEF EveryRequestIsHeld, Concluded
<1>7. Kept
  BY <1>2, <1>3, Holds DEF Kept, Concluded
<1>8. QED
  BY <1>3, <1>4, <1>5, <1>6, <1>7, Frames DEF IInv

\* The listener learns that the session is lost.
LEMMA SessionLostKeeps ==
  ASSUME IInv, NEW c \in Cmds, NEW h \in HandshakeChoice, SessionLost(c, h)
  PROVE  IInv' /\ Kept
<1>1. NetBecame(Claimed(c), net, ToSet(net.queue), {c}, "gone")
  BY Holds, Kinds, ClaimedDoes
<1>2. /\ auth' \in Sessions /\ stranded' \subseteq {"sender", "app"} /\ ~auth'.session
      /\ Attempted(DropSession(auth), Claimed(c), h, "listener")
  BY <1>1, Holds, DropDoes, ReauthenticateDoes DEF SessionLost, Senders, NetBecame
<1>3. /\ listener.pc = "recv" /\ listener' \in ListenerThreads /\ listener'.cmd = c
      /\ listener'.pc = IF Launches(DropSession(auth)) THEN "sending" ELSE "recover"
  BY Holds, NoteDoes DEF SessionLost, Answerable, Reading
<1>4. ~DropSession(auth).authed /\ DropSession(auth).authenticating = auth.authenticating
  BY Holds, DropDoes
<1>5. trouble' \in 0 .. MaxTrouble
  BY Holds, CauseDoes DEF SessionLost
<1>6. UNCHANGED <<apiKey, gate, attempts, outcome, sender, connecting, closing, socket,
                 stopped, dead, delivering>>
  BY DEF SessionLost, waiters, life
<1>7. Shapes' /\ Scalars'
  BY <1>1, <1>2, <1>3, <1>4, <1>5, <1>6, Holds, Kinds DEF Shapes, Scalars, NetBecame,
     Attempted, Launched, NotLaunched, Senders
<1>8. Hands'
  BY <1>3, <1>4, <1>6, Holds, Kinds DEF Hands
<1>9. ListenerSends'
  BY <1>2, <1>3, <1>4, Holds DEF ListenerSends, InListener, Attempted, Launched,
     NotLaunched, NetBecame, Senders
<1>10. AnsweredIsClaimed'
  BY <1>1, <1>2, <1>4, Holds, Kinds DEF AnsweredIsClaimed, NetBecame, Attempted, Launched,
     NotLaunched, Senders
<1>11. OpenSessionIsNew'
  BY <1>2, <1>4, <1>6, Holds, Kinds DEF OpenSessionIsNew, Attempted, Launched, NotLaunched,
     NetBecame, Senders
<1>12. EveryRequestIsHeld'
  BY <1>1, <1>2, <1>3, <1>4, <1>6, Holds, Kinds DEF EveryRequestIsHeld, Hands, NetBecame,
     Attempted, Launched, NotLaunched
<1>13. PlainIsPlain'
  BY <1>1, <1>2, <1>4, <1>6, Holds, Kinds DEF PlainIsPlain, NetBecame, Attempted, Launched,
     NotLaunched, Senders
<1>14. DeadIsDead'
  BY <1>3, <1>4, <1>6, Holds, Kinds DEF DeadIsDead, Alive
<1>15. AttemptIsWanted'
  BY <1>2, <1>4, <1>6, Holds, Kinds DEF AttemptIsWanted, Attempted, Launched, NotLaunched,
     NetBecame
<1>16. Carried'
  BY <1>1, <1>2, <1>3, <1>4, <1>6, Holds, Kinds DEF Carried, AttemptIsCarried, Underway,
     Alive, NetBecame, Attempted, Launched, NotLaunched, Senders
<1>17. QED
  BY <1>6, <1>7, <1>8, <1>9, <1>10, <1>11, <1>12, <1>13, <1>14, <1>15, <1>16,
     Frames DEF IInv

\* The listener requests the command again.
LEMMA ListenerRecoversKeeps ==
  ASSUME IInv, ListenerRecovers
  PROVE  IInv' /\ Kept
<1>1. listener.pc = "recover" /\ listener.cmd \in Cmds
  BY Holds DEF ListenerRecovers, Hands
<1>2. \/ Concluded({listener.cmd}) /\ net' = net
      \/ /\ NetBecame(net', net, ToSet(net.queue) \cup {listener.cmd}, {listener.cmd}, "unsent")
         /\ outcome' = outcome
  BY <1>1, Holds, Kinds, SettleDoes, QueuedDoes DEF ListenerRecovers
<1>3. listener' \in ListenerThreads /\ listener'.pc = "recv" /\ listener'.cmd = NoCmd
  BY Holds DEF ListenerRecovers, ListenerThreads
<1>4. UNCHANGED <<apiKey, auth, gate, attempts, sender, stage, stranded, connecting,
                 closing, socket, stopped, dead, delivering, trouble>>
  BY DEF ListenerRecovers, waiters, life
<1>5. Shapes' /\ Scalars'
  BY <1>1, <1>2, <1>3, <1>4, Holds, Kinds DEF Shapes, Scalars, NetBecame, Concluded
<1>6. Hands'
  BY <1>1, <1>3, <1>4, Holds DEF Hands
<1>7. ListenerSends'
  BY <1>1, <1>3, <1>4, Holds DEF ListenerSends, InListener
<1>8. AnsweredIsClaimed'
  BY <1>1, <1>2, <1>4, Holds, Kinds DEF AnsweredIsClaimed, NetBecame, Concluded
<1>9. LogoutUntouched'
  BY <1>1, <1>2, <1>4, Holds, Kinds DEF LogoutUntouched, Concluded
<1>10. EveryRequestIsHeld'
  BY <1>1, <1>2, <1>3, <1>4, Holds, Kinds DEF EveryRequestIsHeld, Hands, NetBecame,
     Concluded
<1>11. PlainIsPlain'
  BY <1>1, <1>2, <1>4, Holds, Kinds DEF PlainIsPlain, NetBecame, Concluded
<1>12. DeadIsDead'
  BY <1>1, <1>3, <1>4, Holds, Kinds DEF DeadIsDead, Alive
<1>13. Carried'
  BY <1>1, <1>2, <1>3, <1>4, Holds, Kinds DEF Carried, AttemptIsCarried, Underway, Alive,
     NetBecame, Concluded
<1>14. Kept
  BY <1>1, <1>2, <1>4, Holds DEF Kept, Concluded
<1>15. QED
  BY <1>4, <1>5, <1>6, <1>7, <1>8, <1>9, <1>10, <1>11, <1>12, <1>13, <1>14, Frames DEF IInv

\* LOGOUT finds its session lost.
LEMMA LogoutUnneededKeeps ==
  ASSUME IInv, LogoutUnneeded
  PROVE  IInv' /\ Kept
<1>1. /\ listener.pc = "recv" /\ listener' \in ListenerThreads
      /\ listener'.pc = "recv" /\ listener'.cmd = NoCmd
  BY Holds, NoteDoes DEF LogoutUnneeded, Answerable, Reading
<1>2. NetBecame(net', net, ToSet(net.queue), {Logout}, "gone")
  BY Holds, Kinds, ClaimedDoes DEF LogoutUnneeded
<1>3. socket' = "closed"
  BY DEF LogoutUnneeded
<1>4. trouble' \in 0 .. MaxTrouble
  BY Holds, CauseDoes DEF LogoutUnneeded
<1>5. UNCHANGED <<apiKey, auth, gate, attempts, outcome, sender, stage, stranded,
                 connecting, closing, stopped, dead, delivering>>
  BY DEF LogoutUnneeded, waiters, life
<1>6. Shapes' /\ Scalars'
  BY <1>1, <1>2, <1>3, <1>4, <1>5, Holds, Kinds DEF Shapes, Scalars, NetBecame
<1>7. Hands'
  BY <1>1, <1>5, Holds DEF Hands
<1>8. ListenerSends'
  BY <1>1, <1>5, Holds DEF ListenerSends, InListener
<1>9. AnsweredIsClaimed'
  BY <1>2, <1>5, Holds, Kinds DEF AnsweredIsClaimed, NetBecame
<1>10. EveryRequestIsHeld'
  BY <1>1, <1>2, <1>5, Holds, Kinds DEF EveryRequestIsHeld, Hands, NetBecame
<1>11. PlainIsPlain'
  BY <1>2, <1>5, Holds, Kinds DEF PlainIsPlain, NetBecame
<1>12. DeadIsDead'
  BY <1>1, <1>3, <1>5, Holds, Kinds DEF DeadIsDead, Alive
<1>13. Carried'
  BY <1>1, <1>2, <1>3, <1>5, Holds, Kinds DEF Carried, AttemptIsCarried, Underway, Alive,
     NetBecame
<1>14. QED
  BY <1>5, <1>6, <1>7, <1>8, <1>9, <1>10, <1>11, <1>12, <1>13, Frames DEF IInv

\* AniDB says stop in reply to a command.
LEMMA ReplyRefusesKeeps ==
  ASSUME IInv, NEW c \in All, ReplyRefuses(c)
  PROVE  IInv' /\ Kept
<1>1. /\ listener.pc = "recv" /\ listener' \in ListenerThreads
      /\ listener'.pc = "recv" /\ listener'.cmd = NoCmd
  BY Holds, NoteDoes DEF ReplyRefuses, Answerable, Reading
<1>2. NetBecame(net', net, ToSet(net.queue), {c}, "gone")
  BY Holds, Kinds, ClaimedDoes DEF ReplyRefuses
<1>3. Concluded({c})
  BY Holds, SettleDoes DEF ReplyRefuses
<1>4. /\ auth' \in Sessions /\ ~auth'.session /\ ~auth'.authenticating
      /\ gate' \in {gate, "open"}
  BY Holds, SetBannedDoes, AuthFailedDoes DEF ReplyRefuses
<1>5. trouble' \in 0 .. MaxTrouble
  BY Holds, CauseDoes DEF ReplyRefuses
<1>6. UNCHANGED <<apiKey, attempts, sender, stage, stranded, connecting, closing, socket,
                 stopped, dead, delivering>>
  BY DEF ReplyRefuses, waiters, life
<1>7. Shapes' /\ Scalars'
  BY <1>1, <1>2, <1>3, <1>4, <1>5, <1>6, Holds, Kinds DEF Shapes, Scalars, NetBecame,
     Concluded
<1>8. Hands'
  BY <1>1, <1>6, Holds DEF Hands
<1>9. ListenerSends'
  BY <1>1, <1>6, Holds DEF ListenerSends, InListener
<1>10. AnsweredIsClaimed'
  BY <1>2, <1>6, Holds, Kinds DEF AnsweredIsClaimed, NetBecame
<1>11. OpenSessionIsNew'
  BY <1>4, <1>6, Holds, Kinds DEF OpenSessionIsNew
<1>12. LogoutUntouched'
  BY <1>3, <1>6, Holds, Kinds DEF LogoutUntouched, Concluded
<1>13. EveryRequestIsHeld'
  BY <1>1, <1>2, <1>3, <1>6, Holds, Kinds DEF EveryRequestIsHeld, Hands, NetBecame,
     Concluded
<1>14. PlainIsPlain'
  BY <1>2, <1>6, Holds, Kinds DEF PlainIsPlain, NetBecame
<1>15. DeadIsDead'
  BY <1>1, <1>6, Holds, Kinds DEF DeadIsDead, Alive
<1>16. AttemptIsWanted'
  BY <1>4, Holds, Kinds DEF AttemptIsWanted
<1>17. Carried'
  BY <1>1, <1>2, <1>4, <1>6, Holds, Kinds DEF Carried, AttemptIsCarried, Underway, Alive,
     NetBecame
<1>18. Kept
  BY <1>3, <1>6, Holds DEF Kept, Concluded
<1>19. QED
  BY <1>6, <1>7, <1>8, <1>9, <1>10, <1>11, <1>12, <1>13, <1>14, <1>15, <1>16, <1>17, <1>18,
     Frames DEF IInv

\* A handshake is answered.
LEMMA HandshakeAcceptedKeeps ==
  ASSUME IInv, NEW h \in Handshakes, HandshakeAccepted(h)
  PROVE  IInv' /\ Kept
<1>1. /\ listener.pc = "recv" /\ listener' \in ListenerThreads
      /\ listener'.pc = "recv" /\ listener'.cmd = NoCmd /\ net.at[h] = "wire"
  BY Holds, NoteDoes DEF HandshakeAccepted, Answerable, Reading
<1>2. NetBecame(net', net, ToSet(net.queue), {h}, "gone")
  BY Holds, Kinds, ClaimedDoes DEF HandshakeAccepted
<1>3. auth' = [auth EXCEPT !.session = @ \/ h \in Auths]
  BY DEF HandshakeAccepted
<1>4. /\ auth' \in Sessions /\ auth'.session = (auth.session \/ h \in Auths)
      /\ auth'.authed = auth.authed /\ auth'.authenticating = auth.authenticating
  BY <1>3, Holds DEF Sessions
<1>5. stage' = [stage EXCEPT ![h] = "answered"]
  BY DEF HandshakeAccepted
<1>6. UNCHANGED <<apiKey, gate, attempts, outcome, sender, stranded, connecting, closing,
                 socket, stopped, dead, delivering, trouble>>
  BY DEF HandshakeAccepted, waiters, life
<1>7. Shapes' /\ Scalars'
  BY <1>1, <1>2, <1>3, <1>4, <1>5, <1>6, Holds, Kinds DEF Shapes, Scalars, NetBecame,
     Senders
<1>8. Hands'
  BY <1>1, <1>6, Holds DEF Hands
<1>9. ListenerSends'
  BY <1>1, <1>5, Holds DEF ListenerSends, InListener, Senders
<1>10. AnsweredIsClaimed'
  BY <1>2, <1>5, Holds, Kinds DEF AnsweredIsClaimed, NetBecame, Senders
<1>11. OpenSessionIsNew'
  BY <1>3, <1>4, <1>5, <1>6, Holds, Kinds DEF OpenSessionIsNew, Senders
<1>12. EveryRequestIsHeld'
  BY <1>1, <1>2, <1>6, Holds, Kinds DEF EveryRequestIsHeld, Hands, NetBecame
<1>13. PlainIsPlain'
  BY <1>1, <1>2, <1>5, <1>6, Holds, Kinds DEF PlainIsPlain, NetBecame, Senders
<1>14. DeadIsDead'
  BY <1>1, <1>6, Holds, Kinds DEF DeadIsDead, Alive
<1>15. AttemptIsWanted'
  BY <1>3, <1>4, <1>6, Holds, Kinds DEF AttemptIsWanted
<1>16. Carried'
  BY <1>1, <1>2, <1>3, <1>4, <1>5, <1>6, Holds, Kinds DEF Carried, AttemptIsCarried,
     Underway, Alive, NetBecame, Senders
<1>17. QED
  BY <1>6, <1>7, <1>8, <1>9, <1>10, <1>11, <1>12, <1>13, <1>14, <1>15, <1>16,
     Frames DEF IInv

\* A handshake is refused for good.
LEMMA HandshakeRejectedKeeps ==
  ASSUME IInv, NEW h \in Handshakes, HandshakeRejected(h)
  PROVE  IInv' /\ Kept
<1>1. /\ listener.pc = "recv" /\ listener' \in ListenerThreads
      /\ listener'.pc = "recv" /\ listener'.cmd = NoCmd
  BY Holds, NoteDoes DEF HandshakeRejected, Answerable, Reading
<1>2. NetBecame(net', net, ToSet(net.queue), {h}, "gone")
  BY Holds, Kinds, ClaimedDoes DEF HandshakeRejected
<1>3. /\ auth' \in Sessions /\ ~auth'.session /\ ~auth'.authenticating
      /\ gate' \in {gate, "open"}
  BY Holds, AuthFailedDoes DEF HandshakeRejected
<1>4. trouble' \in 0 .. MaxTrouble
  BY Holds, CauseDoes DEF HandshakeRejected
<1>5. UNCHANGED <<apiKey, attempts, outcome, sender, stage, stranded, connecting, closing,
                 socket, stopped, dead, delivering>>
  BY DEF HandshakeRejected, waiters, life
<1>6. Shapes' /\ Scalars'
  BY <1>1, <1>2, <1>3, <1>4, <1>5, Holds, Kinds DEF Shapes, Scalars, NetBecame
<1>7. Hands'
  BY <1>1, <1>5, Holds DEF Hands
<1>8. ListenerSends'
  BY <1>1, <1>5, Holds DEF ListenerSends, InListener
<1>9. AnsweredIsClaimed'
  BY <1>2, <1>5, Holds, Kinds DEF AnsweredIsClaimed, NetBecame
<1>10. OpenSessionIsNew'
  BY <1>3, <1>5, Holds, Kinds DEF OpenSessionIsNew
<1>11. EveryRequestIsHeld'
  BY <1>1, <1>2, <1>5, Holds, Kinds DEF EveryRequestIsHeld, Hands, NetBecame
<1>12. PlainIsPlain'
  BY <1>2, <1>5, Holds, Kinds DEF PlainIsPlain, NetBecame
<1>13. DeadIsDead'
  BY <1>1, <1>5, Holds, Kinds DEF DeadIsDead, Alive
<1>14. AttemptIsWanted'
  BY <1>3, Holds, Kinds DEF AttemptIsWanted
<1>15. Carried'
  BY <1>1, <1>2, <1>3, <1>5, Holds, Kinds DEF Carried, AttemptIsCarried, Underway, Alive,
     NetBecame
<1>16. QED
  BY <1>5, <1>6, <1>7, <1>8, <1>9, <1>10, <1>11, <1>12, <1>13, <1>14, <1>15, Frames DEF IInv

\* AniDB says stop to nobody in particular.
LEMMA UntaggedRefusalKeeps ==
  ASSUME IInv, UntaggedRefusal
  PROVE  IInv' /\ Kept
<1>1. /\ listener.pc = "recv" /\ listener' \in ListenerThreads
      /\ listener'.pc = "recv" /\ listener'.cmd = NoCmd
  BY Holds, NoteDoes DEF UntaggedRefusal, Answerable, Reading
<1>2. NetBecame(net', net, ToSet(net.queue), {}, "gone")
  BY Holds, HeardDoes DEF UntaggedRefusal
<1>3. /\ auth' \in Sessions /\ ~auth'.session /\ ~auth'.authenticating
      /\ gate' = "open"
  BY Holds, SetBannedDoes DEF UntaggedRefusal
<1>4. trouble' \in 0 .. MaxTrouble
  BY Holds, CauseDoes DEF UntaggedRefusal
<1>5. UNCHANGED <<apiKey, attempts, outcome, sender, stage, stranded, connecting, closing,
                 socket, stopped, dead, delivering>>
  BY DEF UntaggedRefusal, waiters, life
<1>6. Shapes' /\ Scalars'
  BY <1>1, <1>2, <1>3, <1>4, <1>5, Holds, Kinds DEF Shapes, Scalars, NetBecame
<1>7. Hands'
  BY <1>1, <1>5, Holds DEF Hands
<1>8. ListenerSends'
  BY <1>1, <1>5, Holds DEF ListenerSends, InListener
<1>9. AnsweredIsClaimed'
  BY <1>2, <1>5, Holds, Kinds DEF AnsweredIsClaimed, NetBecame
<1>10. OpenSessionIsNew'
  BY <1>3, <1>5, Holds, Kinds DEF OpenSessionIsNew
<1>11. EveryRequestIsHeld'
  BY <1>1, <1>2, <1>5, Holds, Kinds DEF EveryRequestIsHeld, Hands, NetBecame
<1>12. PlainIsPlain'
  BY <1>2, <1>5, Holds, Kinds DEF PlainIsPlain, NetBecame
<1>13. DeadIsDead'
  BY <1>1, <1>5, Holds, Kinds DEF DeadIsDead, Alive
<1>14. AttemptIsWanted'
  BY <1>3, Holds, Kinds DEF AttemptIsWanted
<1>15. Carried'
  BY <1>1, <1>2, <1>3, <1>5, Holds, Kinds DEF Carried, AttemptIsCarried, Underway, Alive,
     NetBecame
<1>16. QED
  BY <1>5, <1>6, <1>7, <1>8, <1>9, <1>10, <1>11, <1>12, <1>13, <1>14, <1>15, Frames DEF IInv

\* The encrypted session is gone.
LEMMA EncryptionLostKeeps ==
  ASSUME IInv, NEW h \in HandshakeChoice, EncryptionLost(h)
  PROVE  IInv' /\ Kept
<1>1. /\ apiKey /\ ~DropSession(auth).authed
      /\ DropSession(auth).authenticating = auth.authenticating
  BY Holds, DropDoes DEF EncryptionLost
<1>2. NetBecame(Heard(net), net, ToSet(net.queue), {}, "gone")
  BY Holds, HeardDoes
<1>3. \/ /\ auth' = auth /\ stage' = stage /\ stranded' = stranded /\ net' = Heard(net)
         /\ NoteDatagram("recv", NoCmd) /\ socket' = "closed"
      \/ /\ Reauthenticate(DropSession(auth), Heard(net), h, "listener") /\ socket' = socket
         /\ NoteDatagram(IF Launches(DropSession(auth)) THEN "sending" ELSE "recv", NoCmd)
  BY DEF EncryptionLost
<1>4. \/ /\ auth' = auth /\ stage' = stage /\ stranded' = stranded /\ net' = Heard(net)
         /\ NoteDatagram("recv", NoCmd) /\ socket' = "closed"
      \/ /\ auth' \in Sessions /\ ~auth'.session
         /\ (auth'.authenticating => ~auth'.authed /\ gate # "open")
         /\ stranded' \subseteq {"sender", "app"} /\ socket' = socket
         /\ \/ /\ Launched(Heard(net), h, "listener")
               /\ NoteDatagram("sending", NoCmd)
            \/ /\ NotLaunched(Heard(net))
               /\ NoteDatagram("recv", NoCmd)
  BY <1>1, <1>2, <1>3, Holds, DropDoes, ReauthenticateDoes DEF Senders, NetBecame,
     Attempted, AttemptIsWanted
<1>5. /\ listener.pc = "recv" /\ listener' \in ListenerThreads /\ listener'.cmd = NoCmd
      /\ \/ /\ auth' = auth /\ stage' = stage /\ stranded' = stranded
            /\ net' = Heard(net) /\ listener'.pc = "recv"
         \/ /\ auth' \in Sessions /\ ~auth'.session /\ stranded' \subseteq {"sender", "app"}
            /\ auth'.authenticating => ~auth'.authed /\ gate # "open"
            /\ \/ Launched(Heard(net), h, "listener") /\ listener'.pc = "sending"
               \/ NotLaunched(Heard(net)) /\ listener'.pc = "recv"
  BY <1>4, Holds, NoteDoes DEF EncryptionLost, Reading
<1>6. socket' \in {socket, "closed"}
  BY <1>4
<1>7. trouble' \in 0 .. MaxTrouble
  BY Holds, CauseDoes DEF EncryptionLost
<1>8. UNCHANGED <<apiKey, gate, attempts, outcome, sender, connecting, closing, stopped,
                 dead, delivering>>
  BY DEF EncryptionLost, waiters, life
<1>9. Shapes' /\ Scalars'
  BY <1>1, <1>2, <1>3, <1>4, <1>5, <1>6, <1>7, <1>8, Holds, Kinds DEF Shapes, Scalars,
     NetBecame, Launched, NotLaunched, Senders
<1>10. Hands'
  BY <1>1, <1>5, <1>8, Holds DEF Hands
<1>11. ListenerSends'
  BY <1>1, <1>3, <1>4, <1>5, Holds DEF ListenerSends, InListener, Launched, NotLaunched,
     NetBecame, Senders
<1>12. AnsweredIsClaimed'
  BY <1>1, <1>2, <1>3, <1>4, <1>5, Holds, Kinds DEF AnsweredIsClaimed, NetBecame, Launched,
     NotLaunched, Senders
<1>13. OpenSessionIsNew'
  BY <1>1, <1>3, <1>4, <1>5, <1>8, Holds, Kinds DEF OpenSessionIsNew, Launched,
     NotLaunched, NetBecame, Senders
<1>14. EveryRequestIsHeld'
  BY <1>1, <1>2, <1>3, <1>4, <1>5, <1>8, Holds, Kinds DEF EveryRequestIsHeld, Hands,
     NetBecame, Launched, NotLaunched
<1>15. PlainIsPlain'
  BY <1>1, <1>2, <1>3, <1>4, <1>5, <1>8, Holds, Kinds DEF PlainIsPlain, NetBecame,
     Launched, NotLaunched, Senders
<1>16. DeadIsDead'
  BY <1>1, <1>3, <1>4, <1>5, <1>6, <1>8, Holds, Kinds DEF DeadIsDead, Alive
<1>17. AttemptIsWanted'
  BY <1>1, <1>3, <1>4, <1>5, <1>8, Holds, Kinds DEF AttemptIsWanted, Launched, NotLaunched,
     NetBecame
<1>18. Carried'
  BY <1>1, <1>2, <1>3, <1>4, <1>5, <1>6, <1>8, Holds, Kinds DEF Carried, AttemptIsCarried,
     Underway, Alive, NetBecame, Launched, NotLaunched, Senders
<1>19. QED
  BY <1>8, <1>9, <1>10, <1>11, <1>12, <1>13, <1>14, <1>15, <1>16, <1>17, <1>18,
     Frames DEF IInv

\* A datagram nothing can be done with.
LEMMA NoiseKeeps ==
  ASSUME IInv, Noise
  PROVE  IInv' /\ Kept
<1>1. /\ listener.pc = "recv" /\ listener' \in ListenerThreads
      /\ listener'.pc = "recv" /\ listener'.cmd = NoCmd
  BY Holds, NoteDoes DEF Noise, Answerable, Reading
<1>2. net' = net \/ NetBecame(net', net, ToSet(net.queue), {}, "gone")
  BY Holds, HeardDoes DEF Noise
<1>3. trouble' \in 0 .. MaxTrouble
  BY Holds, CauseDoes DEF Noise
<1>4. UNCHANGED <<apiKey, auth, gate, attempts, outcome, sender, stage, stranded,
                 connecting, closing, socket, stopped, dead, delivering>>
  BY DEF Noise, waiters, life
<1>5. Shapes' /\ Scalars'
  BY <1>1, <1>2, <1>3, <1>4, Holds, Kinds DEF Shapes, Scalars, NetBecame
<1>6. Hands'
  BY <1>1, <1>4, Holds DEF Hands
<1>7. ListenerSends'
  BY <1>1, <1>4, Holds DEF ListenerSends, InListener
<1>8. AnsweredIsClaimed'
  BY <1>2, <1>4, Holds, Kinds DEF AnsweredIsClaimed, NetBecame
<1>9. EveryRequestIsHeld'
  BY <1>1, <1>2, <1>4, Holds, Kinds DEF EveryRequestIsHeld, Hands, NetBecame
<1>10. PlainIsPlain'
  BY <1>2, <1>4, Holds, Kinds DEF PlainIsPlain, NetBecame
<1>11. DeadIsDead'
  BY <1>1, <1>4, Holds, Kinds DEF DeadIsDead, Alive
<1>12. Carried'
  BY <1>1, <1>2, <1>4, Holds, Kinds DEF Carried, AttemptIsCarried, Underway, Alive,
     NetBecame
<1>13. QED
  BY <1>4, <1>5, <1>6, <1>7, <1>8, <1>9, <1>10, <1>11, <1>12, Frames DEF IInv

\* The listener's thread dies.
LEMMA ListenerCrashesKeeps ==
  ASSUME IInv, ListenerCrashes
  PROVE  IInv' /\ Kept
<1>1. /\ listener.pc = "recv" /\ listener' \in ListenerThreads
      /\ listener'.pc = "gone" /\ listener'.cmd = NoCmd
  BY Holds, NoteDoes DEF ListenerCrashes, Answerable, Reading
<1>2. trouble' \in 0 .. MaxTrouble
  BY Holds, CauseDoes DEF ListenerCrashes
<1>3. UNCHANGED <<apiKey, auth, gate, net, attempts, outcome, sender, stage, stranded,
                 connecting, closing, socket, stopped, dead, delivering>>
  BY DEF ListenerCrashes, waiters, life
<1>4. Shapes' /\ Scalars'
  BY <1>1, <1>2, <1>3, Holds, Kinds DEF Shapes, Scalars
<1>5. Hands'
  BY <1>1, <1>3, Holds DEF Hands
<1>6. ListenerSends'
  BY <1>1, <1>3, Holds DEF ListenerSends, InListener
<1>7. EveryRequestIsHeld'
  BY <1>1, <1>3, Holds, Kinds DEF EveryRequestIsHeld, Hands
<1>8. DeadIsDead'
  BY <1>1, <1>3, Holds, Kinds DEF DeadIsDead, Alive
<1>9. Carried'
  BY <1>1, <1>3, Holds, Kinds DEF Carried, AttemptIsCarried, Underway, Alive
<1>10. QED
  BY <1>3, <1>4, <1>5, <1>6, <1>7, <1>8, <1>9, Frames DEF IInv

\* The listener's thread ends.
LEMMA ListenerLeavesKeeps ==
  ASSUME IInv, ListenerLeaves
  PROVE  IInv' /\ Kept
<1>1. /\ listener.pc = "recv" /\ listener' \in ListenerThreads
      /\ listener'.pc = "gone" /\ listener'.cmd = listener.cmd
  BY Holds DEF ListenerLeaves, ListenerThreads
<1>2. UNCHANGED <<apiKey, auth, gate, net, attempts, outcome, sender, stage, stranded,
                 connecting, closing, socket, stopped, dead, delivering, trouble>>
  BY DEF ListenerLeaves, waiters, life
<1>3. Shapes' /\ Scalars'
  BY <1>1, <1>2, Holds, Kinds DEF Shapes, Scalars
<1>4. Hands'
  BY <1>1, <1>2, Holds DEF Hands
<1>5. ListenerSends'
  BY <1>1, <1>2, Holds DEF ListenerSends, InListener
<1>6. EveryRequestIsHeld'
  BY <1>1, <1>2, Holds, Kinds DEF EveryRequestIsHeld, Hands
<1>7. DeadIsDead'
  BY <1>1, <1>2, Holds, Kinds DEF DeadIsDead, Alive
<1>8. Carried'
  BY <1>1, <1>2, Holds, Kinds DEF Carried, AttemptIsCarried, Underway, Alive
<1>9. QED
  BY <1>2, <1>3, <1>4, <1>5, <1>6, <1>7, <1>8, Frames DEF IInv

\* A sweep begins.
LEMMA SweepBeginsKeeps ==
  ASSUME IInv, SweepBegins
  PROVE  IInv' /\ Kept
<1>1. /\ listener.pc = "recv" /\ listener' \in ListenerThreads
      /\ listener'.pc = "sweep" /\ listener'.cmd = listener.cmd
  BY Holds DEF SweepBegins, Reading, Started, ListenerThreads
<1>2. UNCHANGED <<apiKey, auth, gate, net, attempts, outcome, sender, stage, stranded,
                 connecting, closing, socket, stopped, dead, delivering, trouble>>
  BY DEF SweepBegins, waiters, life
<1>3. Shapes' /\ Scalars'
  BY <1>1, <1>2, Holds, Kinds DEF Shapes, Scalars
<1>4. Hands'
  BY <1>1, <1>2, Holds DEF Hands
<1>5. ListenerSends'
  BY <1>1, <1>2, Holds DEF ListenerSends, InListener
<1>6. EveryRequestIsHeld'
  BY <1>1, <1>2, Holds, Kinds DEF EveryRequestIsHeld, Hands
<1>7. DeadIsDead'
  BY <1>1, <1>2, Holds, Kinds DEF DeadIsDead, Alive
<1>8. Carried'
  BY <1>1, <1>2, Holds, Kinds DEF Carried, AttemptIsCarried, Underway, Alive
<1>9. QED
  BY <1>2, <1>3, <1>4, <1>5, <1>6, <1>7, <1>8, Frames DEF IInv

\* The sweep finds a command claimed.
LEMMA SweepSkipsKeeps ==
  ASSUME IInv, NEW c \in All, SweepSkips(c)
  PROVE  IInv' /\ Kept
<1>1. /\ listener.pc = "sweep" /\ listener' \in ListenerThreads
      /\ listener'.pc \in {"recv", "sweep"} /\ listener'.cmd = NoCmd
  BY Holds, SweptDoes DEF SweepSkips, Sweeping
<1>2. UNCHANGED <<apiKey, auth, gate, net, attempts, outcome, sender, stage, stranded,
                 connecting, closing, socket, stopped, dead, delivering, trouble>>
  BY DEF SweepSkips, waiters, life
<1>3. Shapes' /\ Scalars'
  BY <1>1, <1>2, Holds, Kinds DEF Shapes, Scalars
<1>4. Hands'
  BY <1>1, <1>2, Holds DEF Hands
<1>5. ListenerSends'
  BY <1>1, <1>2, Holds DEF ListenerSends, InListener
<1>6. EveryRequestIsHeld'
  BY <1>1, <1>2, Holds, Kinds DEF EveryRequestIsHeld, Hands
<1>7. DeadIsDead'
  BY <1>1, <1>2, Holds, Kinds DEF DeadIsDead, Alive
<1>8. Carried'
  BY <1>1, <1>2, Holds, Kinds DEF Carried, AttemptIsCarried, Underway, Alive
<1>9. QED
  BY <1>2, <1>3, <1>4, <1>5, <1>6, <1>7, <1>8, Frames DEF IInv

\* The sweep requests a stale command again.
LEMMA SweepRequeuesStaleKeeps ==
  ASSUME IInv, NEW c \in Ordinary, SweepRequeuesStale(c)
  PROVE  IInv' /\ Kept
<1>1. /\ listener.pc = "sweep" /\ listener' \in ListenerThreads
      /\ listener'.pc \in {"recv", "sweep"} /\ listener'.cmd = NoCmd
  BY Holds, SweptDoes DEF SweepRequeuesStale, Sweeping
<1>2. Rerequested(c)
  BY Holds, RerequestDoes DEF SweepRequeuesStale
<1>3. UNCHANGED <<apiKey, auth, gate, attempts, sender, stage, stranded, connecting,
                 closing, socket, stopped, dead, delivering, trouble>>
  BY DEF SweepRequeuesStale, waiters, life
<1>4. Shapes' /\ Scalars'
  BY <1>1, <1>2, <1>3, Holds, Kinds DEF Shapes, Scalars, Rerequested, NetBecame, Concluded
<1>5. Hands'
  BY <1>1, <1>3, Holds DEF Hands
<1>6. ListenerSends'
  BY <1>1, <1>3, Holds DEF ListenerSends, InListener
<1>7. AnsweredIsClaimed'
  BY <1>2, <1>3, Holds, Kinds DEF AnsweredIsClaimed, Rerequested, NetBecame, Concluded
<1>8. LogoutUntouched'
  BY <1>2, <1>3, Holds, Kinds DEF LogoutUntouched, Rerequested, Concluded
<1>9. EveryRequestIsHeld'
  BY <1>1, <1>2, <1>3, Holds, Kinds DEF EveryRequestIsHeld, Hands, Rerequested, NetBecame,
     Concluded
<1>10. PlainIsPlain'
  BY <1>2, <1>3, Holds, Kinds DEF PlainIsPlain, Rerequested, NetBecame, Concluded
<1>11. DeadIsDead'
  BY <1>1, <1>3, Holds, Kinds DEF DeadIsDead, Alive
<1>12. Carried'
  BY <1>1, <1>2, <1>3, Holds, Kinds DEF Carried, AttemptIsCarried, Underway, Alive,
     Rerequested, NetBecame, Concluded
<1>13. Kept
  BY <1>2, <1>3, Holds DEF Kept, Rerequested, Concluded
<1>14. QED
  BY <1>3, <1>4, <1>5, <1>6, <1>7, <1>8, <1>9, <1>10, <1>11, <1>12, <1>13, Frames DEF IInv

\* The sweep requests a silent command again.
LEMMA SweepRetriesKeeps ==
  ASSUME IInv, NEW c \in Ordinary, SweepRetries(c)
  PROVE  IInv' /\ Kept
<1>1. /\ listener.pc = "sweep" /\ listener' \in ListenerThreads
      /\ listener'.pc \in {"recv", "sweep"} /\ listener'.cmd = NoCmd
  BY Holds, SweptDoes DEF SweepRetries, Sweeping
<1>2. Rerequested(c)
  BY Holds, RerequestDoes DEF SweepRetries
<1>3. UNCHANGED <<apiKey, auth, gate, attempts, sender, stage, stranded, connecting,
                 closing, socket, stopped, dead, delivering, trouble>>
  BY DEF SweepRetries, waiters, life
<1>4. Shapes' /\ Scalars'
  BY <1>1, <1>2, <1>3, Holds, Kinds DEF Shapes, Scalars, Rerequested, NetBecame, Concluded
<1>5. Hands'
  BY <1>1, <1>3, Holds DEF Hands
<1>6. ListenerSends'
  BY <1>1, <1>3, Holds DEF ListenerSends, InListener
<1>7. AnsweredIsClaimed'
  BY <1>2, <1>3, Holds, Kinds DEF AnsweredIsClaimed, Rerequested, NetBecame, Concluded
<1>8. LogoutUntouched'
  BY <1>2, <1>3, Holds, Kinds DEF LogoutUntouched, Rerequested, Concluded
<1>9. EveryRequestIsHeld'
  BY <1>1, <1>2, <1>3, Holds, Kinds DEF EveryRequestIsHeld, Hands, Rerequested, NetBecame,
     Concluded
<1>10. PlainIsPlain'
  BY <1>2, <1>3, Holds, Kinds DEF PlainIsPlain, Rerequested, NetBecame, Concluded
<1>11. DeadIsDead'
  BY <1>1, <1>3, Holds, Kinds DEF DeadIsDead, Alive
<1>12. Carried'
  BY <1>1, <1>2, <1>3, Holds, Kinds DEF Carried, AttemptIsCarried, Underway, Alive,
     Rerequested, NetBecame, Concluded
<1>13. Kept
  BY <1>2, <1>3, Holds DEF Kept, Rerequested, Concluded
<1>14. QED
  BY <1>3, <1>4, <1>5, <1>6, <1>7, <1>8, <1>9, <1>10, <1>11, <1>12, <1>13, Frames DEF IInv

\* The sweep gives a command up.
LEMMA SweepFailsKeeps ==
  ASSUME IInv, NEW c \in Ordinary, SweepFails(c)
  PROVE  IInv' /\ Kept
<1>1. /\ listener.pc = "sweep" /\ listener' \in ListenerThreads
      /\ listener'.pc \in {"recv", "sweep"} /\ listener'.cmd = NoCmd
  BY Holds, SweptDoes DEF SweepFails, Sweeping
<1>2. NetBecame(net', net, ToSet(net.queue), {c}, "gone")
  BY Holds, Kinds, MoveDoes DEF SweepFails
<1>3. Concluded({c})
  BY Holds, SettleDoes DEF SweepFails
<1>4. /\ auth' \in Sessions /\ ~auth'.session /\ ~auth'.authenticating
      /\ gate' = "open"
  BY Holds, SetBannedDoes DEF SweepFails
<1>5. UNCHANGED <<apiKey, attempts, sender, stage, stranded, connecting, closing, socket,
                 stopped, dead, delivering, trouble>>
  BY DEF SweepFails, waiters, life
<1>6. Shapes' /\ Scalars'
  BY <1>1, <1>2, <1>3, <1>4, <1>5, Holds, Kinds DEF Shapes, Scalars, NetBecame, Concluded
<1>7. Hands'
  BY <1>1, <1>5, Holds DEF Hands
<1>8. ListenerSends'
  BY <1>1, <1>5, Holds DEF ListenerSends, InListener
<1>9. AnsweredIsClaimed'
  BY <1>2, <1>5, Holds, Kinds DEF AnsweredIsClaimed, NetBecame
<1>10. OpenSessionIsNew'
  BY <1>4, <1>5, Holds, Kinds DEF OpenSessionIsNew
<1>11. LogoutUntouched'
  BY <1>3, <1>5, Holds, Kinds DEF LogoutUntouched, Concluded
<1>12. EveryRequestIsHeld'
  BY <1>1, <1>2, <1>3, <1>5, Holds, Kinds DEF EveryRequestIsHeld, Hands, NetBecame,
     Concluded
<1>13. PlainIsPlain'
  BY <1>2, <1>5, Holds, Kinds DEF PlainIsPlain, NetBecame
<1>14. DeadIsDead'
  BY <1>1, <1>5, Holds, Kinds DEF DeadIsDead, Alive
<1>15. AttemptIsWanted'
  BY <1>4, Holds, Kinds DEF AttemptIsWanted
<1>16. Carried'
  BY <1>1, <1>2, <1>4, <1>5, Holds, Kinds DEF Carried, AttemptIsCarried, Underway, Alive,
     NetBecame
<1>17. Kept
  BY <1>3, <1>5, Holds DEF Kept, Concluded
<1>18. QED
  BY <1>5, <1>6, <1>7, <1>8, <1>9, <1>10, <1>11, <1>12, <1>13, <1>14, <1>15, <1>16, <1>17,
     Frames DEF IInv

\* The sweep gives a handshake up.
LEMMA SweepFailsHandshakeKeeps ==
  ASSUME IInv, NEW h \in Handshakes, SweepFailsHandshake(h)
  PROVE  IInv' /\ Kept
<1>1. /\ listener.pc = "sweep" /\ listener' \in ListenerThreads
      /\ listener'.pc \in {"recv", "sweep"} /\ listener'.cmd = NoCmd
  BY Holds, SweptDoes DEF SweepFailsHandshake, Sweeping
<1>2. NetBecame(net', net, ToSet(net.queue), {h}, "gone")
  BY Holds, Kinds, MoveDoes DEF SweepFailsHandshake
<1>3. /\ auth' \in Sessions /\ ~auth'.session /\ ~auth'.authenticating
      /\ gate' \in {gate, "open"}
  BY Holds, AuthFailedDoes DEF SweepFailsHandshake
<1>4. UNCHANGED <<apiKey, attempts, outcome, sender, stage, stranded, connecting, closing,
                 socket, stopped, dead, delivering, trouble>>
  BY DEF SweepFailsHandshake, waiters, life
<1>5. Shapes' /\ Scalars'
  BY <1>1, <1>2, <1>3, <1>4, Holds, Kinds DEF Shapes, Scalars, NetBecame
<1>6. Hands'
  BY <1>1, <1>4, Holds DEF Hands
<1>7. ListenerSends'
  BY <1>1, <1>4, Holds DEF ListenerSends, InListener
<1>8. AnsweredIsClaimed'
  BY <1>2, <1>4, Holds, Kinds DEF AnsweredIsClaimed, NetBecame
<1>9. OpenSessionIsNew'
  BY <1>3, <1>4, Holds, Kinds DEF OpenSessionIsNew
<1>10. EveryRequestIsHeld'
  BY <1>1, <1>2, <1>4, Holds, Kinds DEF EveryRequestIsHeld, Hands, NetBecame
<1>11. PlainIsPlain'
  BY <1>2, <1>4, Holds, Kinds DEF PlainIsPlain, NetBecame
<1>12. DeadIsDead'
  BY <1>1, <1>4, Holds, Kinds DEF DeadIsDead, Alive
<1>13. AttemptIsWanted'
  BY <1>3, Holds, Kinds DEF AttemptIsWanted
<1>14. Carried'
  BY <1>1, <1>2, <1>3, <1>4, Holds, Kinds DEF Carried, AttemptIsCarried, Underway, Alive,
     NetBecame
<1>15. QED
  BY <1>4, <1>5, <1>6, <1>7, <1>8, <1>9, <1>10, <1>11, <1>12, <1>13, <1>14, Frames DEF IInv

\* The sweep sends a handshake again.
LEMMA SweepResendsHandshakeKeeps ==
  ASSUME IInv, NEW h \in Handshakes, SweepResendsHandshake(h)
  PROVE  IInv' /\ Kept
<1>1. listener.pc = "sweep" /\ net.at[h] # "gone"
  BY DEF SweepResendsHandshake, Sweeping
<1>2. \/ /\ net' \in {Move(net, {h}, "gone"), [Move(net, {h}, "gone") EXCEPT !.stray = TRUE]}
         /\ SweptTo(h, listener.silent) /\ stage' = stage /\ (dead \/ gate = "open")
      \/ /\ net' = Move(net, {h}, "unsent") /\ stage' = [stage EXCEPT ![h] = "sweep"]
         /\ listener' = [listener EXCEPT !.pc = "sending", !.expired = @ \ {h}]
  BY DEF SweepResendsHandshake
<1>3. /\ NetBecame(Move(net, {h}, "gone"), net, ToSet(net.queue), {h}, "gone")
      /\ NetBecame(Move(net, {h}, "unsent"), net, ToSet(net.queue), {h}, "unsent")
  BY Holds, Kinds, MoveDoes
<1>4. NetBecame([Move(net, {h}, "gone") EXCEPT !.stray = TRUE], net, ToSet(net.queue), {h}, "gone")
  BY Holds, DroppedDoes, Zenon
<1>5. \/ /\ NetBecame(net', net, ToSet(net.queue), {h}, "gone")
         /\ SweptTo(h, listener.silent) /\ stage' = stage /\ (dead \/ gate = "open")
      \/ /\ NetBecame(net', net, ToSet(net.queue), {h}, "unsent")
         /\ stage' = [stage EXCEPT ![h] = "sweep"]
         /\ listener' = [listener EXCEPT !.pc = "sending", !.expired = @ \ {h}]
  BY <1>2, <1>3, <1>4, Zenon
<1>6. /\ listener' \in ListenerThreads
      /\ \/ /\ NetBecame(net', net, ToSet(net.queue), {h}, "gone") /\ stage' = stage
            /\ (dead \/ gate = "open")
            /\ listener'.pc \in {"recv", "sweep"} /\ listener'.cmd = NoCmd
         \/ /\ NetBecame(net', net, ToSet(net.queue), {h}, "unsent")
            /\ stage' = [stage EXCEPT ![h] = "sweep"]
            /\ listener'.pc = "sending" /\ listener'.cmd = listener.cmd
  BY <1>5, Holds, SweptDoes DEF ListenerThreads
<1>7. UNCHANGED <<apiKey, auth, gate, attempts, outcome, sender, stranded, connecting,
                 closing, socket, stopped, dead, delivering, trouble>>
  BY DEF SweepResendsHandshake, waiters, life
<1>8. Shapes' /\ Scalars'
  BY <1>1, <1>6, <1>7, Holds, Kinds DEF Shapes, Scalars, NetBecame,
     Senders
<1>9. Hands'
  BY <1>1, <1>2, <1>5, <1>6, <1>7, Holds DEF Hands
<1>10. ListenerSends'
  BY <1>1, <1>2, <1>5, <1>6, Holds DEF ListenerSends, InListener, Hands, NetBecame, Senders
<1>11. AnsweredIsClaimed'
  BY <1>1, <1>2, <1>3, <1>4, <1>5, <1>6, Holds, Kinds DEF AnsweredIsClaimed, NetBecame,
     Senders
<1>12. OpenSessionIsNew'
  BY <1>1, <1>2, <1>5, <1>6, <1>7, Holds, Kinds DEF OpenSessionIsNew, AnsweredIsClaimed,
     NetBecame, Senders
<1>13. EveryRequestIsHeld'
  BY <1>1, <1>2, <1>3, <1>4, <1>5, <1>6, <1>7, Holds, Kinds DEF EveryRequestIsHeld, Hands,
     NetBecame
<1>14. PlainIsPlain'
  BY <1>1, <1>2, <1>3, <1>4, <1>5, <1>6, <1>7, Holds, Kinds DEF PlainIsPlain, NetBecame,
     Senders
<1>15. DeadIsDead'
  BY <1>1, <1>2, <1>5, <1>6, <1>7, Holds, Kinds DEF DeadIsDead, Alive
<1>16. Carried'
  BY <1>1, <1>2, <1>3, <1>4, <1>5, <1>6, <1>7, Holds, Kinds DEF Carried, AttemptIsCarried,
     Underway, Alive, AttemptIsWanted, DeadIsDead, NetBecame, Senders
<1>17. QED
  BY <1>7, <1>8, <1>9, <1>10, <1>11, <1>12, <1>13, <1>14, <1>15, <1>16, Frames DEF IInv

\* The window passes.
LEMMA WindowElapsesKeeps ==
  ASSUME IInv, WindowElapses
  PROVE  IInv' /\ Kept
<1>1. gate' = "elapsed"
  BY DEF WindowElapses
<1>2. UNCHANGED <<apiKey, auth, net, attempts, outcome, sender, listener, stage, stranded,
                 connecting, closing, socket, stopped, dead, delivering, trouble>>
  BY DEF WindowElapses, waiters, life
<1>3. Shapes' /\ Scalars'
  BY <1>1, <1>2, Holds, Kinds DEF Shapes, Scalars
<1>4. OpenSessionIsNew'
  BY <1>1, <1>2, Holds, Kinds DEF OpenSessionIsNew
<1>5. AttemptIsWanted'
  BY <1>1, <1>2, Holds, Kinds DEF AttemptIsWanted
<1>6. QED
  BY <1>2, <1>3, <1>4, <1>5, Frames DEF IInv

\* Every step keeps the invariant, and what has been concluded.
LEMMA StepKeeps == IInv /\ [Next]_vars => IInv' /\ [Kept]_vars
<1> SUFFICES ASSUME IInv, [Next]_vars PROVE IInv' /\ Kept
  OBVIOUS
<1>1. CASE LinkNext
  <2>1. ASSUME NEW c \in Cmds, Ask(c) PROVE IInv' /\ Kept
    BY <2>1, AskKeeps
  <2>2. ASSUME NEW c \in Cmds, Enqueue(c) PROVE IInv' /\ Kept
    BY <2>2, EnqueueKeeps
  <2>3. ASSUME NEW h \in HandshakeChoice, Connect(h) PROVE IInv' /\ Kept
    BY <2>3, ConnectKeeps
  <2>4. CASE ConnectReturns
    BY <2>4, ConnectReturnsKeeps
  <2>5. CASE Stop
    BY <2>5, StopKeeps
  <2>6. CASE Teardown
    BY <2>6, TeardownKeeps
  <2>7. CASE Joined
    BY <2>7, JoinedKeeps
  <2>8. QED
    BY <1>1, <2>1, <2>2, <2>3, <2>4, <2>5, <2>6, <2>7 DEF LinkNext
<1>2. ASSUME NEW h \in Handshakes, HandshakeStep(h) PROVE IInv' /\ Kept
  <2>1. CASE HandshakeLeaves(h)
    BY <2>1, HandshakeLeavesKeeps
  <2>2. CASE HandshakeIgnored(h)
    BY <2>2, HandshakeIgnoredKeeps
  <2>3. CASE HandshakeAborts(h)
    BY <2>3, HandshakeAbortsKeeps
  <2>4. CASE HandlerForgives(h)
    BY <2>4, HandlerForgivesKeeps
  <2>5. CASE AuthHandler(h)
    BY <2>5, AuthHandlerKeeps
  <2>6. ASSUME NEW a \in HandshakeChoice, SendAuth(h, a) PROVE IInv' /\ Kept
    BY <2>6, SendAuthKeeps
  <2>7. QED
    BY <1>2, <2>1, <2>2, <2>3, <2>4, <2>5, <2>6 DEF HandshakeStep
<1>3. CASE SenderNext
  <2>1. CASE SenderTakes
    BY <2>1, SenderTakesKeeps
  <2>2. CASE SenderStops
    BY <2>2, SenderStopsKeeps
  <2>3. ASSUME NEW h \in HandshakeChoice, SenderReauthenticates(h) PROVE IInv' /\ Kept
    BY <2>3, SenderReauthenticatesKeeps
  <2>4. CASE SenderAwaitSucceeds
    BY <2>4, SenderAwaitSucceedsKeeps
  <2>5. CASE SenderAwaitRefused
    BY <2>5, SenderAwaitRefusedKeeps
  <2>6. CASE SenderAwaitGivesUp
    BY <2>6, SenderAwaitGivesUpKeeps
  <2>7. CASE SenderChecks
    BY <2>7, SenderChecksKeeps
  <2>8. CASE SenderUnauthorized
    BY <2>8, SenderUnauthorizedKeeps
  <2>9. CASE SenderSends
    BY <2>9, SenderSendsKeeps
  <2>10. CASE SenderAbandons
    BY <2>10, SenderAbandonsKeeps
  <2>11. QED
    BY <1>3, <2>1, <2>2, <2>3, <2>4, <2>5, <2>6, <2>7, <2>8, <2>9, <2>10 DEF SenderNext
<1>4. CASE DatagramNext
  <2>1. ASSUME NEW c \in Ordinary, ReplyArrives(c) PROVE IInv' /\ Kept
    BY <2>1, ReplyArrivesKeeps
  <2>2. ASSUME NEW c \in Cmds, NEW h \in HandshakeChoice, SessionLost(c, h) PROVE IInv' /\ Kept
    BY <2>2, SessionLostKeeps
  <2>3. CASE LogoutUnneeded
    BY <2>3, LogoutUnneededKeeps
  <2>4. ASSUME NEW c \in All, ReplyRefuses(c) PROVE IInv' /\ Kept
    BY <2>4, ReplyRefusesKeeps
  <2>5. ASSUME NEW h \in Handshakes, HandshakeAccepted(h) PROVE IInv' /\ Kept
    BY <2>5, HandshakeAcceptedKeeps
  <2>6. ASSUME NEW h \in Handshakes, HandshakeRejected(h) PROVE IInv' /\ Kept
    BY <2>6, HandshakeRejectedKeeps
  <2>7. CASE UntaggedRefusal
    BY <2>7, UntaggedRefusalKeeps
  <2>8. ASSUME NEW h \in HandshakeChoice, EncryptionLost(h) PROVE IInv' /\ Kept
    BY <2>8, EncryptionLostKeeps
  <2>9. CASE Noise
    BY <2>9, NoiseKeeps
  <2>10. CASE ListenerCrashes
    BY <2>10, ListenerCrashesKeeps
  <2>11. QED
    BY <1>4, <2>1, <2>2, <2>3, <2>4, <2>5, <2>6, <2>7, <2>8, <2>9, <2>10 DEF DatagramNext
<1>5. CASE ListenerNext
  <2>1. CASE ListenerRecovers
    BY <2>1, ListenerRecoversKeeps
  <2>2. CASE ListenerLeaves
    BY <2>2, ListenerLeavesKeeps
  <2>3. CASE SweepBegins
    BY <2>3, SweepBeginsKeeps
  <2>4. ASSUME NEW c \in All, SweepSkips(c) PROVE IInv' /\ Kept
    BY <2>4, SweepSkipsKeeps
  <2>5. ASSUME NEW c \in Ordinary, SweepRequeuesStale(c) PROVE IInv' /\ Kept
    BY <2>5, SweepRequeuesStaleKeeps
  <2>6. ASSUME NEW c \in Ordinary, SweepRetries(c) PROVE IInv' /\ Kept
    BY <2>6, SweepRetriesKeeps
  <2>7. ASSUME NEW c \in Ordinary, SweepFails(c) PROVE IInv' /\ Kept
    BY <2>7, SweepFailsKeeps
  <2>8. ASSUME NEW h \in Handshakes, SweepFailsHandshake(h) PROVE IInv' /\ Kept
    BY <2>8, SweepFailsHandshakeKeeps
  <2>9. ASSUME NEW h \in Handshakes, SweepResendsHandshake(h) PROVE IInv' /\ Kept
    BY <2>9, SweepResendsHandshakeKeeps
  <2>10. QED
    BY <1>5, <2>1, <2>2, <2>3, <2>4, <2>5, <2>6, <2>7, <2>8, <2>9 DEF ListenerNext
<1>6. ASSUME NEW c \in Ordinary, Delivers(c) PROVE IInv' /\ Kept
  BY <1>6, DeliversKeeps
<1>7. CASE WindowElapses
  BY <1>7, WindowElapsesKeeps
<1>8. CASE UNCHANGED vars
  <2>1. UNCHANGED <<apiKey, auth, gate, net, attempts, outcome, sender, listener, stage,
                    stranded, connecting, closing, socket, stopped, dead, delivering, trouble>>
    BY <1>8 DEF vars, waiters, life
  <2>2. Shapes' /\ Scalars'
    BY <2>1, Holds DEF Shapes, Scalars
  <2>3. QED
    BY <2>1, <2>2, Frames DEF IInv
<1>9. QED
  BY <1>1, <1>2, <1>3, <1>4, <1>5, <1>6, <1>7, <1>8 DEF Next

\* In the beginning there is nothing to hold.
LEMMA InitHolds == Init => IInv
<1> SUFFICES ASSUME Init PROVE IInv
  OBVIOUS
<1>1. Well(net) /\ net.queue = <<>>
  <2>1. <<>> \in Seq(Ordinary)
    OBVIOUS
  <2>2. [c \in All |-> "gone"] \in [All -> {"gone", "unsent", "wire", "lost"}]
    OBVIOUS
  <2>3. QED
    BY <2>1, <2>2 DEF Init, Well, Nets, Started
<1>2. auth \in Sessions /\ ~auth.session
  BY DEF Init, Sessions
<1>3. /\ sender \in SenderThreads /\ sender.cmd = NoCmd
      /\ listener \in ListenerThreads /\ listener.cmd = NoCmd
  BY DEF Init, SenderThreads, ListenerThreads
<1>4. stage = [h \in Handshakes |-> "idle"] /\ outcome = [c \in Ordinary |-> "idle"]
  BY DEF Init
<1>5. Shapes
  BY <1>1, <1>2, <1>3, <1>4 DEF Shapes
<1>6. Scalars
  <2>1. apiKey \in BOOLEAN /\ trouble \in 0 .. MaxTrouble
    BY TransportAssumption DEF Init
  <2>2. /\ attempts \in [Ordinary -> Nat] /\ delivering \subseteq Ordinary
        /\ stranded \subseteq {"sender", "app"}
    BY DEF Init
  <2>3. QED
    BY <2>1, <2>2 DEF Init, Scalars
<1>7. Hands
  BY <1>3 DEF Init, Hands
<1>8. ListenerSends /\ AnsweredIsClaimed /\ OpenSessionIsNew
  BY <1>2, <1>4 DEF ListenerSends, InListener, AnsweredIsClaimed, OpenSessionIsNew
<1>9. LogoutUntouched /\ EveryRequestIsHeld
  BY <1>4, Kinds DEF LogoutUntouched, EveryRequestIsHeld
<1>10. PlainIsPlain /\ DeadIsDead /\ AttemptIsWanted /\ Carried
  BY Kinds DEF Init, PlainIsPlain, DeadIsDead, AttemptIsWanted, Carried, AttemptIsCarried
<1>11. QED
  BY <1>5, <1>6, <1>7, <1>8, <1>9, <1>10 DEF IInv

\* The invariant holds throughout.
LEMMA Invariant == Spec => []IInv
BY InitHolds, StepKeeps, PTL DEF Spec

-----------------------------------------------------------------------------
(* The theorems *)

\* Every variable keeps its type; only what was sent can be older than a reply.
THEOREM TypeCorrect == Spec => []TypeOK
<1>1. IInv => TypeOK
  <2> SUFFICES ASSUME IInv PROVE TypeOK
    OBVIOUS
  <2>1. net \in Nets /\ net.heard \subseteq Started(net)
    BY Holds DEF Well
  <2>2. QED
    BY <2>1, Holds DEF TypeOK, Sessions, Nets, SenderThreads, ListenerThreads, Scalars
<1>2. QED
  BY <1>1, Invariant, PTL

\* A request nobody has answered is always in some thread's hands, whatever the
\* two threads, the replies, the sweep, stop() and trouble do, and in which order.
THEOREM RequestsAreHeld == Spec => []EveryRequestIsHeld
<1>1. IInv => EveryRequestIsHeld
  BY DEF IInv
<1>2. QED
  BY <1>1, Invariant, PTL

\* While the back-off window is open there is no session, but for a login that AniDB
\* accepted meanwhile and whose handler has not run.
THEOREM GateHoldsNoSession == Spec => []OpenGateHoldsNoSession
<1>1. IInv => OpenGateHoldsNoSession
  BY DEF IInv, OpenSessionIsNew, OpenGateHoldsNoSession
<1>2. QED
  BY <1>1, Invariant, PTL

\* What the caller of a request was told is never replaced.
THEOREM OutcomesStand == Spec => OutcomeStands
<1>1. [Kept]_vars => [\A c \in Ordinary : outcome[c] \in {"reply", "error"}
                                          => outcome'[c] = outcome[c]]_vars
  BY DEF Kept
<1>2. QED
  BY <1>1, Invariant, StepKeeps, PTL DEF Spec, OutcomeStands

\* Without encryption, while a login is said to be in flight some command that can
\* still end it is: whatever is lost, refused, silent or late, unless the listener
\* itself has died.
THEOREM AttemptsAreCarried == ASSUME ApiKeys = {FALSE} PROVE Spec => []AttemptIsCarried
<1>1. Init => apiKey = FALSE
  BY DEF Init
<1>2. apiKey = FALSE /\ IInv /\ [Next]_vars => (apiKey = FALSE)'
  BY StepKeeps DEF Kept, vars
<1>3. apiKey = FALSE /\ IInv => AttemptIsCarried
  BY DEF IInv, Carried
<1>4. QED
  BY <1>1, <1>2, <1>3, Invariant, PTL DEF Spec
=============================================================================
