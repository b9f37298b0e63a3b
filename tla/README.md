# A TLA+ model of anidb-client

anidb-client is a Python client for AniDB's UDP API: a transport of two threads that must never
send too fast, an object layer that answers attributes from a local cache and asks AniDB only
when it has to, and around them the commands, replies, cache tables and title dumps. These
modules model the parts of it in which order, timing and failure decide whether it works, check
them with TLC on small instances and prove the most important results with TLAPS for every value
of the constants. All paths are relative to the repository root; the code is `src/anidb_client/`.

- [1. The system](#1-the-system)
- [2. Modules, and how they correspond to the code](#2-modules-and-how-they-correspond-to-the-code)
- [3. What TLC checks](#3-what-tlc-checks)
- [4. Fairness](#4-fairness)
- [5. What is proved](#5-what-is-proved)
- [6. Where the code and its documentation part](#6-where-the-code-and-its-documentation-part)
- [7. What is not modelled](#7-what-is-not-modelled)
- [8. Plan](#8-plan)

## 1. The system

```
 application threads
      |  attribute reads, update(), related_anime(), add_to_mylist()     connect(), close()
      v                                                                        |
 object layer (animeobjs.py) --- cache rows (db.py)    titles (anames.py)      | __init__.py
      |  request(command, callback) -> future                                  |
      v                                                                        v
 AniDBLink, the sender thread (link.py) <----- shared: queue, table of pending commands,
      |  wait(), record_send()                  session, cipher, attempt at a login
 RateLimiter (ratelimit.py)                            |
      |                                        AniDBListener, the listener thread (link.py)
      v                                                |  register_ban(), clear_ban()
   socket ---------------- AniDB ----------------------'  replies run callbacks on threads of their own
```

| Component | State it keeps | Operations | What makes it hard | What makes it correct |
|---|---|---|---|---|
| `RateLimiter` (ratelimit.py) | send count, last send, deadline, cause, kind and multiplier of a back-off | record a send, ask or sleep out a delay, register and clear a ban, read back for a restart, resume | two kinds of refusal with different schedules, jitter, a monotonic clock that restarts, several sending threads | the flood bound; a back-off is coherent, within its schedule, never shortened by its escalation, and survives a restart as what it was |
| `AniDBLink` (link.py) | send queue, session, cipher, `_authed`, `_authenticating`, the attempt's future, `_dead`, `_stop` | request, connect, reauthenticate, the send loop, set_banned, auth_failed, stop | a login may be started by the sender, the listener, `connect()` and a reply thread; each read of shared state is followed by a wait | nothing is sent into an open window with a session; every attempt at a login settles; every request has an outcome; stop ends the threads |
| `AniDBListener` (link.py) | pending commands by tag, when it last heard anything, the count of silent timeouts | read a reply, deliver it, recover a session, react to refusals, sweep timeouts | replies lost, late, duplicated, undecodable; the sweep collects and then handles | no command is dropped between the queue, the table and a thread's hands |
| `Command` (commands.py) | a future, the attempts spent, when it was sent | succeed, fail, handle a timeout | four parties may conclude about it | an outcome is never replaced |
| Response table (responses.py) | none | a class per code, its fields | which codes say stop | -- |
| Object layer (animeobjs.py) | per object a copy of its row, the `_updating` lock, the illegal flag | read an attribute, read the relations, update, refresh by age, the reply callback | readers share an object; the reply comes on another thread, perhaps after its reader gave up | one fetch at a time; the lock is always let go; a failed refresh costs no read; every wait is bounded; None is an answer |
| Relation walk (animeobjs.py) | queue, answer, the bound that stopped it | related_anime | cyclic graph, learnt while it is walked, four bounds | a bounded answer says so; a complete one is complete |
| Files and mylist (animeobjs.py) | per file its cached row: generic or not, fid, lid, watched; on the other side the list AniDB holds | identify, update_mylist, remove_from_mylist, add_to_mylist, the promotion of a generic file | each call is a conversation of several requests that can stop anywhere; the replies do not carry the lid; a reply's callback starts a conversation of its own | one entry per episode; a cached entry is real; an update that returns did what it was asked; a promotion keeps the watched flag |
| Cache (db.py) | the tables, the engine | merge, insert, commit; open, dispose | best-effort writes, unique keys | modelled for the rows of an anime and of files, and the life of the engine |
| Titles and mappings (anames.py) | cached XML dumps, two tables in memory | refresh, look up | partial downloads; tables that are reset and refilled without a lock | what is on disk has verified; a refreshed table is whole |
| Masks and converters (mapper.py) | none | encode, decode bit masks | -- | -- |
| `init`, `connect`, `close` (\_\_init\_\_.py) | the module's globals | set up, hand out, tear down | a partial failure of init; close while the transport is in use and its listener reads | nothing stays open; the port comes back; no stopped transport is handed out; nobody waits for a stopped one |

The hazards this code is exposed to, each at its line and with the properties that would catch it
going wrong, are the list `hazards` in `PROJECT.json`.

## 2. Modules, and how they correspond to the code

`PROJECT.json` maps every definition to the lines it models. Operators keep the names of the
methods where that is possible; definitions whose comment begins "A bug:" are variants used to see
that a property can fail, and are used by no specification.

**BackOff** is the abstract specification of a back-off, with no clock: a refusal opens a window
of some length within the schedule of its kind, doubles or restarts the multiplier, time uses it up,
success clears it.

**RateLimiter** is ratelimit.py with its clock: `sends`, `last_send`, `banned_until`, cause, kind
and multiplier are the fields of the class, one action per method. `RestartResumed` is the end of a
process and the constructor of the next with what the readers returned; its clock starts at another
zero. It implements BackOff: a resumed restart is a stutter there. Delays are integers and the
jittered window is any length from the floor the code uses (one JITTER_DIVISOR-th: half) to the whole.

**Pacing** adds the threads that send: `wait()` decides a delay under the lock and sleeps without
it, and `record_send()` comes after, so it is two actions (`BeginWait`, `Send`).

**TransportState**, **Link**, **Listener**, **Transport** are link.py and the part of commands.py it
calls. TransportState holds the variables both threads share and the helpers both call; Link has the
sender, the handshake any thread may start, `connect()`, `request()` and `stop()`; Listener has the
reply loop, delivery, refusals and the sweep; Transport composes them and states the properties.
A thread is a program counter and the command it holds; a lock section is one action; a pacing wait,
a wait for a login, and the gap between two lock sections are places where other threads interleave
(`SenderChecks` before the wait, `SenderSends` after it; `Ask` before registering a command,
`Enqueue` after). The abstractions:

- Time is reduced to what it decides: the window is clear, open, or elapsed and standing; a command
  was sent before or after the last reply; the sweep finds an arbitrary set of commands expired.
- A tag is current or not. A reply to another tag answers nothing.
- Handshake commands come from a pool (`Auths`, `Encrypts`); one that no thread, table or waiter
  refers to may be used again (`Fresh`), so the pool bounds those in flight, not those ever made.
- Sections that no other thread can tell apart are merged: storing the cipher and clearing the ban
  is `HandlerForgives`. `GivesUp` of a wait for a login stands for AUTH_TIMEOUT_FACTOR.
- What the environment does beyond answering and losing datagrams (a refusal, a lost session, a
  socket error, a listener that dies, ...) is a `Troubles` kind and happens at most `MaxTrouble`
  times. Losing a datagram is not counted.
- 598 is only answered to an encrypted session. The listener's 2-second join may pass while it is
  in a paced send (`Joined`). The keepalives PING and UPTIME are left out.

**AniDBObj** is the object layer of animeobjs.py for the objects of one anime: they share one row of
the cache, and each has its own copy, lock and flag. An application thread calls for an attribute,
the relations, `update(block=True)` or a background `update()`, and passes the places of
`_resolve_cached_attribute`, `update_if_old`, `update` and `_fetch_anidb_data`; the send thread has
its steps; the callback is an action of the transport, which may come after `GiveUp`. A row is the
day it was fetched and the day it last rolled for a refresh, as the policy reads nothing else; the
roll's odds are a choice. The roll (merge, set, commit) and the refresh of an existing row are one
step each, while a new row is made (`Make`) and committed (`Insert`) in two, because `db_data` is set
before the commit. Days end when nothing is under way. `thread.join`'s own timeout, which is longer
than the wait inside it, is never reached, and database errors other than a refused INSERT are left
out. `Fetches` bounds the requests outstanding; one never answered is forgotten when its place is used
again.

**RelationWalk** is `Anime.related_anime()`. The graph is learnt as it is read: a read of an anime's
relations answers any of `RelationLists`, finds the anime unknown, or raises. Each relation is looked
at in a step of its own (`Consider`), as the generator in `queue.extend` does. `exclude` and
`only_in_mylist` are one set of anime that may not be entered; `follow` is a set of types.

**Mylist** is `File` and `Episode.add_to_mylist` against the list AniDB keeps. `call` is the call under
way, `request` the one it waits for; a call is a sequence of actions, each the code between two replies,
so that a crash (`Crash`), an error of the transport (`Fail`), a caller's timeout (`GiveUp`) and a lost
reply that makes the transport ask again (`LoseReply`) fall between any two of them. A command given
up stays `adrift` and may be served at any later time (`Drift`), its callback included. Identification
(`Infer`, `Identify`, `LookUp`) is the first attribute read of a File without a row; `Promote`, `Retire`,
`Retired`, `Unstall` and then `Decide` ... are the callback that turns a generic row into a real file's.
The model rests on these readings:

- The application makes one call at a time on a File built from its path for that call; a row that exists
  is younger than a day, so that `update_if_old()` does nothing (a fetch is `Refresh`).
- AniDB (external): an add of what is there is 310; a generic add is refused when the episode has an
  entry; a MYLISTDEL by anime and episode removes the episode's entries; the reply to a generic add carries no lid.
  A lid is used again only when nothing names it, which keeps the numbers small.
- `watched` stands for the view date and flag; the other mylist fields travel with it. The episodes a
  file name stands for are the constant `Span`: the guess is a computation over titles. Every file
  that is not a generic one has a group, which is what the callback tells them apart by.
- `astray` is a ghost: the episodes whose entries moved behind the cache's back -- a late service of a
  command given up, a removal in several commands that stopped half-way, an update that removed an entry its
  row named wrongly, a removal of a generic entry that another file's row still names. The invariants speak of the others,
  and `second_entry` shows what happens to these.

**Lifecycle** is `init()`, `close()` and `get_link()` with the engine, the socket, the listener thread and
what users of the transport wait for. One thread makes the lifecycle calls (two at once are listed as not
modelled); each is a sequence of actions with a failure wherever the code can raise, and users and
the listener run in between. `Join` is the join with its bound of two seconds: it ends when the thread ended, or when
the thread is busy or was not woken. `lost` is a ghost for what a constructor had opened when it raised:
`create_all()` failing after the engine was made, and the second thread of a transport failing to
start after the first; there the caller never gets anything to close. The wake-up datagram always arrives
(the code calls it best effort, and falls back to the socket's timeout). What the transport does in
between is Transport's.

**Titles** is `update_xml()`, the two tables of anames.py and their readers, any number of threads at once.
`Reset`, `Open`, `Fetch`, `Verify`, `Read`, `Fill` are the steps of a refresh in the order of the code; the mapping
table is filled entry by entry. A download is usable, unusable, or `odd`: long enough and well
formed, with an entry `update_anilist()` raises on. `latest` is a ghost: which update reset a table last,
and how it ended.

**RateLimiterProofs**, **AniDBObjProofs**, **RelationWalkProofs**, **LifecycleProofs**, **TitlesProofs**,
**PacingProofs**, **TransportProofs** and **MylistProofs** hold the theorems. The `MC*` modules and `.cfg` files are the instances below.

## 3. What TLC checks

| Run | Instance | States | Shows |
|---|---|---|---|
| `limiter` | burst 2, delays 1/2, idle 3, bases 3 (ban) and 1 (busy), ceiling 4, clocks from 0 and 3, 9 ticks, 3 sends | 57 937 | types; `Coherent`, `WindowWithinSchedule`, `Resumable`, `EscalationNeverShortens`; RateLimiter implements BackOff |
| `pacing` | burst 3, delays 2/4, idle 6, one sending thread, 40 ticks, 8 sends | 890 788 | `NeverBackToBack`, `FloodBound` |
| `transport` | a command, 2 AUTHs, 2 ENCRYPTs, with and without api_key, 2 troubles of any kind, 2 attempts per command | 1 066 432 | `EveryRequestIsHeld`, `OpenGateHoldsNoSession`, `OutcomeStands` |
| `transport_live` | the same without encryption, 1 trouble the transport is meant to survive, stop() at any time | 274 615 | `AttemptIsCarried`; `EveryAttemptSettles`, `EveryRequestSettles`, `ThreadsEnd` under fairness |
| `object` | 2 threads, 1 object, 2 requests, 2 days, row present or absent | 576 535 | `ExclusionEnds`, `NoConcurrentFetches`, `RefreshFailsNoRead`; `CallsReturn` under fairness |
| `walk` | 4 anime, any 0-2 relations each, any filter, budgets 1, 2, 20, depths 0, 1, 2 and none | 1 173 824 | `CompleteIsAll`, `NothingElse`, `Reported`, `DepthIsExact`, `BudgetIsExact` |
| `mylist` | 2 files of one episode, one of which covers a second by name; 2 episodes; adds given up, one at a time | 1.9 million | `OneEntryPerEpisode`, `InMylistIsTrue`, `UpdateDoesWhatItSays`, `PromotionCarries` |
| `lifecycle` | 2 users, 1 port, 4 names for engines and transports at one time | 351 356 | `NothingStranded`, `PortIsBack`, `GetLinkIsLive`, `WaitersAreTold` |
| `titles` | 2 threads, 2 entries in the mapping document | 1 429 737 | `TablesAreWhole`; and, in `TypeOK`, that the copies on disk have verified |
| `wedged_handshake`, `second_entry`, `promotion_stall` | | | violations: section 6 |

Why the bounds are enough to be interesting:

- *limiter*: 9 ticks are longer than a jittered ban after its first doubling; with the ceiling at 4
  the multiplier is doubled twice and then held; both kinds follow each other both ways; the two
  clock zeros let a deadline be on either side of the new clock.
- *pacing*: 8 sends and 40 ticks hold a free burst, its end, an idle reset and a second burst.
- *transport*: one command suffices for the places a command can be lost, since the sender holds one
  at a time and the table is keyed. Two AUTHs let a login be started
  beside one in flight, replaced, or answered late. Two attempts separate "try again" from "give up",
  and two silent timeouts separate a lost datagram from a silence. Two troubles allow, for example, a
  ban during a recovery from a lost session.
- *transport_live* has one trouble and no encryption because the liveness divergences of section 6
  need encryption or a dead listener: with those left in, the properties would only report them again. Its second requester is the LOGOUT of stop().
- *object*: two threads are the reader that fetches and the one that finds the lock taken; two requests
  are the one given up on and the next; two days separate fresh from stale. Deadlock is not checked
  there: the lock leak of section 6 can leave both threads waiting, which `CallsReturn` allows by name
  and `EveryCallReturns` does not. The limiter, mylist, lifecycle and titles runs check for
  deadlock; the rest do not, because there a system may come to rest (a spent budget of ticks or
  troubles, a closed transport, a walk that returned).
- *mylist*: two files of one episode are the two that can hold entries it may have only one of, and that can
  share a generic one; the second episode of the first makes its generic adds and removals take several commands. One
  command adrift is enough to be served between any two steps of the next calls, which are unbounded in number.
  `GivenUp = {"add"}` is the command whose late service adds an entry; the initial lists hold any one entry per episode.
- *lifecycle*: one port is the hard case, as each init() needs the one the last close() gave back; four names are a client
  that is published, one being built, one a user still holds, and one lost. Sequences of calls are unbounded.
- *titles*: two threads are one that resets under another's refill; two entries make a table partly filled, and
  put the unreadable one after one that is read. Refreshes, agings and restarts are unbounded.
- *walk*: four anime hold a chain, a diamond, a detour longer than the direct way, self-loops and
  cycles through the start; one of the anime is reached by another type than the rest, so that a type
  filter cuts some routes and not others. Nothing is special about four: what is claimed of every graph
  is proved.

Every property of a passing run is known to fail for at least one plausible bug in the code it is
about (`mutants` in `PROJECT.json`).

## 4. Fairness

`Transport!FairSpec`: weak fairness of each thread's own next step (the sender, the listener, each
handshake's thread, a request under way, a reply thread, teardown and its join), and of the window
elapsing. These are threads that are running, sleeping with a bound, or waiting on a lock held for a
moment. Nothing makes AniDB answer, the application ask, or trouble happen; a datagram may be lost
each time. The listener's sweep is part of the listener's next step: the model does not include traffic so
dense that a receive never times out (that hazard is listed).

`AniDBObj!FairSpec`: weak fairness of each reader's steps, of the send threads (whose wait has a
timeout) and of a commit once begun. Taking `_updating` is strongly fair, as a lock that is released
again and again is given to a waiter eventually: CPython's lock is handed to a thread that has been
starved of it. Nothing makes the transport settle a request; the bound is the caller's own.

## 5. What is proved

Each proof module states an inductive invariant, proves that `Init` implies it and that every step
keeps it, and derives the properties. TLC checked each invariant on the instances above first.

**RateLimiterProofs** assumes `LimiterAssumption` (the burst, its delay, the two bases and the ceiling are
positive, the steady delay is at least the burst's and the idle reset at least the steady delay, as the
constants of ratelimit.py are; JITTER_DIVISOR is 1 for no jitter or 2 for the code's floor of a half). The invariant is `TypeOK /\ Coherent /\ WindowWithinSchedule`; the types
alone do not bound what remains of a window, and without coherence a cleared ban could come back on
resuming. `TypeCorrect`, `CoherentAlways`, `WindowBounded`, `AlwaysResumable` (whatever the readers
return, the next constructor accepts), `EscalationMonotone` (nothing below half a window is jittered away, so a
doubled and jittered window is at least the old one) and `ImplementsBackOff` (initial states and each step, restarts
included, map to BackOff under the refinement mapping).

**AniDBObjProofs** assumes `ObjectAssumption` (threads and fetches are distinct, nobody is neither).
The invariant adds to `TypeOK` that a call under way and a reply still expected are about an object;
that a reader about to start a thread, and each thread that runs, holds the lock of its object; and
that whoever waits for a fetch was told to block. `ExclusionEnds` is not inductive without the second:
a release is only harmless if the one who releases is the holder. `TypeCorrect`, `ExclusionIsReleased`,
`FetchesExclude`, `RefreshIsHarmless`, for any number of threads, objects, requests and days.

**RelationWalkProofs** assumes `WalkAssumption` (the relation lists are sequences of typed anime, bounds
are natural numbers). The invariant says that the answer is the prefix of the queue that was taken,
that nothing is queued twice or against the filters, that only the answer has been read, that whatever is
queued or still to be looked at was led to by what was read and the other way round, and that every set
closed under the edges followed that holds the start holds the queue. `CompleteAnswerIsWhole` and
`AnswerIsReachable` together say that an unbounded answer is exactly the least closed set;
`AnswerIsReported`, `BudgetIsHonest` and `TypeCorrect` are the rest. No induction over the
graph is needed for these: reachability is stated as "in every closed set".

`DepthIsHonest` (`DepthIsExact`) needs a second invariant beside the first, `DInv`: the queue goes outward by one
step at a time; each entry was led to from an anime reached one step nearer; whatever a reached anime leads to was reached
within one step more, or is still to be looked at from where the walk is; nothing is queued beyond the depth; and all
that was taken nearer than the depth has been read. That is what rules a detour out: the distance an
anime is queued with is the least there is. `Within`, the distances the answer is compared with, is a recursive function. That
it has the values its definition says is proved too (`WithinDoes`), from the least-number principle the
library's `NatLessThanWellFounded` and `WFMin` give, and so are the two inductions on the distance (`ReachedIsWithin`,
`WithinIsReached`). The property says besides that all nearer than the depth was read: without it a walk that took
every anime to be at the limit would be exact by what little it knows.

**LifecycleProofs** assumes `LifecycleAssumption` (nobody is not a name, a transport or a call). The invariant says
which globals are set at each step of a call (`Phases`), how far the transport in its hands has come (`Teardown`), that
nobody reads from a closed socket, and that each held port has somebody who answers for it. `PortIsBack` is
about what is true between two calls; what carries it through one is that the wake-up datagram is still in the
socket while a listener told to leave reads, so that the join ends with the listener out of `recv()`, and a listener out of
`recv()` never goes back to a closed socket. `NoEngineIsStranded`, `PortComesBack`, `PublishedIsLive`, `StopTellsWaiters`
and `TypeCorrect`, for any number of users, ports and names. A section of lemmas first states what each action does
field by field; the invariant is then shown kept from those alone.

**TitlesProofs** assumes `TitlesAssumption` (a thread, an entry; nobody and "no table" are neither). The invariant adds to
`TablesAreWhole` that a thread never reads a copy that is not there; that it fills the mappings from the first
entry on, in a table that has been reset; and that what it has filled in is still there unless another
thread has reset the table since (`FilledStays`). Without the last, a refresh that ends says nothing about the entries
it filled first. `TablesEndUpWhole` and `TypeCorrect`, for any number of threads and entries.

**PacingProofs** assumes `LimiterAssumption`, and for the flood bound that one thread sends (with two it is false: section 6). The
invariant adds that a wait under way ends no sooner than the limiter asks for now (`WaitStands`): what the wait was
decided from still holds when it ends, because nobody else has sent or begun a burst meanwhile. `LeastGrows` is the
arithmetic of one more datagram. `OneSenderNeverFloods`, `OneSenderIsPaced`; `TypeCorrect` for any number of threads.

**TransportProofs** assumes `TransportAssumption` (the kinds of command are disjoint, there is one of each, budgets are
positive). The invariant adds to the types: a thread with no work holds no command (`Hands`), without which a command the
listener puts down could be lost from sight; the listener sends one handshake at a time and is nowhere else
meanwhile (`ListenerSends`); a handshake whose reply is being handled has left the table, so that the sweep cannot send it
again (`AnsweredIsClaimed`); a session in an open window is a login whose handler has not begun (`OpenSessionIsNew`: stronger
than the property, since the handler's first half clears the window); LOGOUT is stop()'s alone; without a key nothing of
ENCRYPT exists (`PlainIsPlain`); a transport declared dead has lost its listener (`DeadIsDead`); and a login in flight
means that nobody is logged in and no window is open (`AttemptIsWanted`), so that a handshake dropped as unneeded or
refused by the window is never the one an attempt waits for. Lemmas first
say what each helper does to the queue, the table, the session and the outcomes, field by field; each action then has a
lemma with a step for each part it can disturb. `RequestsAreHeld`, `GateHoldsNoSession`, `OutcomesStand` and
`TypeCorrect`, for any number of commands, handshakes, attempts and troubles of every kind; `AttemptsAreCarried` under
the further assumption that no api_key is configured (`ApiKeys = {FALSE}`): with one it is false, as `wedged_handshake`
shows.

**MylistProofs** assumes `MylistAssumption` (the files named are finitely many, and neither episodes nor each other's)
and `NoneAssumption` (None is none of the records). None of the properties is inductive: what the list holds depends
on what the call believed when it sent its request. The invariant says four things more.

- What is known of lids. The list, the cached rows of their own and the reply under way never give one lid to two
  fids (`LidsAgree`); a file's row with that lid is of the same fid, or the episode is astray (`RowsAgree`); and what a
  reply carries is still in the list, unless a late command came in since (`ReplyIsCurrent`).
- `Excused`: the rows a call is in the middle of removing are the only ones that may name nothing, and the call clears them or
  `HalfRemoved` marks the episode when it stops. `RowsAreTrue` with this is `InMylistIsTrue` during a call.
- `Progress`: what the call knows of its episode at each place. While it clears, each entry left has a row to be cleared;
  before the add nothing is left; while it adds, what is there was asked for; when it reads back, something is. It
  is what makes a retry of an add that was served already harmless.
- The shapes of rows, calls, requests and replies, such as that a call that got a fid from AniDB (`byFid`) has
  it in its row until it is promoted.

`QuietStep` proves the invariant once for every step that leaves the list alone: each row must name what it named before,
or the entry in the reply (`RowFollows`). Only `Serve` and `Drift` change the list, and have lemmas of their own on
what `Served`, `Reply` and `FreshLid` give. `NoSecondEntry`, `RowsTellTheTruth`, `UpdateKeepsItsWord`, `PromotionKeepsWatched`,
`TypeCorrect`, for any files, episodes, spans and late commands; like the runs, they speak of episodes that are not
`astray`, and section 6 says what happens to those.

Only model-checked: all liveness (TLAPS has no rule here for fairness and ENABLED). Every invariant and every
other action property the passing runs check is proved.

## 6. Where the code and its documentation part

Three are runs that TLC ends with a counterexample; the quotations are in `PROJECT.json`.

- `wedged_handshake`: `reauthenticate()` drops the cipher of a login in flight; the handler of ENCRYPT
  then returns without settling the attempt, and no later login starts.
- `second_entry`: a cached row that names an entry that is gone keeps `update_mylist()` from asking AniDB what
  covers the episode; it goes on to add, and the episode has two entries, silently.
- `promotion_stall`: when a file AniDB has indexed is promoted, `update_mylist()` on the reply thread waits for the
  lock of the fetch that waits for that very reply thread; REQUEST_TIMEOUT ends it, and the caller is told that
  AniDB did not answer.

The models show more, each with a property that is stated in its module and that TLC refutes
with the instance named. They have no run of their own:

- `Pacing!NeverBackToBack` with `Threads` of two: any thread that sends a handshake (connect, the listener's
  recovery, the sweep, the reply thread after ENCRYPT) paces itself beside the sender; both decide from the same last
  send and two datagrams leave together, against "A caller cannot send faster by asking" (SPEC-002).
- `Transport!AuthIsEncrypted` with an api_key and no trouble: the `reauthenticate()` above during the pacing wait of
  AUTH lets AUTH leave unencrypted although a key is set.
- `Transport!EveryRequestSettles` with `Troubles = {"crash"}`: a sender that needs a login after the listener died
  puts its command back for ever and never declares the transport dead.
- `AniDBObj!NoneIsAnAnswer`: a reader that joined another's fetch answers None, or no relations, when that fetch failed.
- `AniDBObj!EveryCallReturns` under `FairSpec`: an object found illegal by a late reply, between `update()` taking
  its lock and the look-up of the method that would let it go, keeps the lock, and a reader waiting for it never
  returns. (`CallsReturn`, which the `object` run checks, excepts this call by name.)

Smaller ones are carried in the models and named there. In AniDBObj and RelationWalk: a depth of 0 is walked as 1;
two readers that both find stale data fetch it twice in succession; the freshness roll of one object writes
its old copy over a newer row. In Mylist: two files share a generic entry and removing it for one leaves the other's
row naming it; a removal of several episodes that fails half-way leaves the row in the mylist;
an edit writes the row whatever AniDB answered, and without a watched flag clears the cached one; a promotion
interrupted before its add loses the watched flag; a promoted multi-episode file removes one
generic entry only; a repeated add after a lost reply reads as already present. In Lifecycle:
`init()`'s "everything it opened is given back" does not hold of an engine whose tables cannot be created; a request
on a stopped transport waits out REQUEST_TIMEOUT, as `request()` does not look. In Titles: a look-up during a
refresh of the mappings sees part of the table and answers "no mapping"; the table `update_anilist()`
raises half-way through is truthy and stays; a download cut short (`IncompleteRead`) escapes `update_xml()` and leaves its
temporary file, which `_discard`'s docstring excludes.

## 7. What is not modelled

Bytes (encoding, encryption, compression, parsing), the health surface of the link, keepalives, tag
numbers, the parameters of commands and their guards, the payload of replies (responses.py is 2019 lines of
declarations: a code, a name, the names of its fields), the callbacks of Episode and Group, edits of the mylist by two
calls at once, hashing and file name inference, look-ups in the title dumps and the episode mapping as
computations, the netrc, logging, image downloads, two `init()` at once. These are data or I/O, but for what the plan lists.

## 8. Plan

In order; each with an instance, its properties and, where it says so, proofs.

1. *Tags*: correlation of replies with commands over the wrapping tag, unbounded replies and the sweep
   that only runs when the socket is quiet.
2. *Refresh policy*: the odds as a function of age, against the tables of SPEC-003; two objects of one
   anime and what a roll overwrites; the floor of one day.
3. *Command guards and masks*: which combinations of parameters a command accepts, and that bit masks
   encode what they decode, as operators over bounded inputs; the mapping of an episode to a season's.
4. *Concurrent mylist calls*: two threads on files of one episode, with AniDBObj's lock in place of one call at a time.
