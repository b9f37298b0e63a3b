------------------------------ MODULE AniDBObj ------------------------------
(* The object layer of animeobjs.py: how reading an attribute of an Anime     *)
(* resolves from the object's copy of the cached row, and only then from      *)
(* AniDB.                                                                     *)
(*                                                                            *)
(* All the objects here stand for one anime, so they share one row of the     *)
(* cache, and each has its own copy of it (db_data), its own _updating lock   *)
(* and its own _illegal_object flag.  Application threads read them; a fetch  *)
(* runs on a thread of its own and waits for a reply of the transport, whose  *)
(* callback runs on yet another thread and may come after the fetch gave up.  *)
(*                                                                            *)
(* The content of a row is the day it was fetched on, and the day the         *)
(* freshness roll was last made for it: the refresh policy reads no more.     *)
EXTENDS Naturals, FiniteSets

CONSTANTS
  Readers,       \* the application's threads
  Objects,       \* AniDBObj instances for one anime
  Fetches,       \* bound: send threads, and requests outstanding, at once
  LAST_DAY,      \* bound: the days the model lasts
  NoRow,         \* no cached row
  NoOne          \* nobody: a lock that is free, no fetch

ASSUME ObjectAssumption ==
  /\ LAST_DAY \in Nat
  /\ NoOne \notin Readers \cup Fetches
  /\ Readers \cap Fetches = {}

VARIABLES
  today,     \* the day it is
  row,       \* the cached row of the anime
  dbData,    \* object -> its db_data
  illegal,   \* object -> _illegal_object
  updating,  \* object -> who holds _updating
  pc,        \* reader -> where in a read it is
  call,      \* reader -> what it was called for
  fetch,     \* fetch -> its send thread
  reply      \* fetch -> the reply to its request

vars == <<today, row, dbData, illegal, updating, pc, call, fetch, reply>>

Days == 0 .. LAST_DAY
Rows == [updated: Days, dice: Days]

\* A copy is "kept" when it is the row of the cache, with its primary key; one
\* whose INSERT was refused never gets a key.  "by" is the callback that made it
\* and has not committed it yet.
Copies == [updated: Days, dice: Days, kept: BOOLEAN, by: Fetches \cup {NoOne}]

Kinds    == {"attribute", "relations", "update", "background update"}
Places   == {"idle", "excluded", "resolving", "updating", "dispatching",
             "waiting", "joining", "reading"}

Calls == [object: Objects \cup {NoOne}, kind: Kinds, block: BOOLEAN,
          blind: BOOLEAN, fetch: Fetches \cup {NoOne}]

\* "block" is what update() is called with; "blind" says there was no row.
Asks(o, kind, block, blind) ==
  [object |-> o, kind |-> kind, block |-> block, blind |-> blind, fetch |-> NoOne]

NoCall  == Asks(NoOne, "attribute", FALSE, FALSE)
Threads == [state: {"starting", "awaiting", "ended"}, object: Objects \cup {NoOne},
            failed: BOOLEAN]

NoFetch == [state |-> "ended", object |-> NoOne, failed |-> FALSE]

\* The type invariant: every variable keeps the kind of value the code gives it.
TypeOK ==
  /\ today \in Days
  /\ row \in Rows \cup {NoRow}
  /\ dbData \in [Objects -> Copies \cup {NoRow}]
  /\ illegal \in [Objects -> BOOLEAN]
  /\ updating \in [Objects -> Readers \cup Fetches \cup {NoOne}]
  /\ pc \in [Readers -> Places]
  /\ call \in [Readers -> Calls]
  /\ fetch \in [Fetches -> Threads]
  /\ reply \in [Fetches -> {"none", "due", "storing", "answered", "failed"}]

-----------------------------------------------------------------------------
(* The cached row *)

\* What an object finds in the cache when it is built.
Loaded(cached) ==
  IF cached = NoRow THEN NoRow
  ELSE [updated |-> cached.updated, dice |-> cached.dice, kept |-> TRUE, by |-> NoOne]

Stored(copy) == [updated |-> copy.updated, dice |-> copy.dice]

\* A row of the cache; data fetched less than a day ago; a roll made less than
\* twenty hours ago.
HasKey(copy)    == copy # NoRow /\ copy.kept
IsFresh(copy)   == copy.updated = today
WasRolled(copy) == copy.dice = today

-----------------------------------------------------------------------------
(* A call of the application *)

Object(r) == call[r].object

Goes(r, place) == pc' = [pc EXCEPT ![r] = place]

\* With a value or an exception.
Returns(r) ==
  /\ Goes(r, "idle")
  /\ call' = [call EXCEPT ![r] = NoCall]

\* Where a call enters: an attribute waits its turn on _updating first, a read
\* of the relations only asks when there is no row, and update() goes straight
\* to the fetch.
Entry(o, kind) ==
  CASE kind = "attribute"                     -> "excluded"
    [] kind = "relations" /\ dbData[o] = NoRow -> "resolving"
    [] kind = "relations"                     -> "reading"
    [] OTHER                                  -> "updating"

\* A bug: a read waits for the refresh it happens to set off.
CallBlocking(r, o, kind) ==
  /\ pc[r] = "idle"
  /\ ~illegal[o]
  /\ call' = [call EXCEPT ![r] = Asks(o, kind, kind # "background update", FALSE)]
  /\ Goes(r, Entry(o, kind))
  /\ UNCHANGED <<today, row, dbData, illegal, updating, fetch, reply>>

\* An object marked illegal raises on the spot: nothing is called then.
Call(r, o, kind) ==
  /\ pc[r] = "idle"
  /\ ~illegal[o]
  /\ call' = [call EXCEPT ![r] =
                Asks(o, kind, kind \in {"relations", "update"},
                     kind = "relations" /\ dbData[o] = NoRow)]
  /\ Goes(r, Entry(o, kind))
  /\ UNCHANGED <<today, row, dbData, illegal, updating, fetch, reply>>

\* _resolve_cached_attribute takes _updating and lets it go again: it waits for
\* a fetch in flight.
PassExclusion(r) ==
  /\ pc[r] = "excluded"
  /\ updating[Object(r)] = NoOne
  /\ Goes(r, "resolving")
  /\ UNCHANGED <<today, row, dbData, illegal, updating, call, fetch, reply>>

\* A bug: the roll records when the next one is due.
RollDue(o) ==
  LET rolled == [dbData[o] EXCEPT !.dice = today + 1]
  IN  /\ dbData' = [dbData EXCEPT ![o] = rolled]
      /\ row' = IF rolled.kept THEN Stored(rolled) ELSE row

\* The freshness roll, recorded before it is acted on.  Merging writes the whole
\* of this object's copy over the row; a copy without a key is an INSERT, which
\* the unique aid refuses.
Roll(o) ==
  LET rolled == [dbData[o] EXCEPT !.dice = today]
  IN  /\ dbData' = [dbData EXCEPT ![o] = rolled]
      /\ row' = IF rolled.kept THEN Stored(rolled) ELSE row

\* update_if_old
Resolve(r) ==
  LET o == Object(r)
      copy == dbData[o]
  IN  /\ pc[r] = "resolving"
      /\ \/ /\ illegal[o]
            /\ Returns(r)
            /\ UNCHANGED <<row, dbData>>
         \/ /\ ~illegal[o] /\ copy = NoRow
            /\ call' = [call EXCEPT ![r] = Asks(o, call[r].kind, TRUE, TRUE)]
            /\ Goes(r, "updating")
            /\ UNCHANGED <<row, dbData>>
         \/ /\ ~illegal[o] /\ copy # NoRow
            /\ IsFresh(copy) \/ WasRolled(copy)
            /\ Goes(r, "reading")
            /\ UNCHANGED <<row, dbData, call>>
         \/ /\ ~illegal[o] /\ copy # NoRow
            /\ ~IsFresh(copy) /\ ~WasRolled(copy)
            /\ Roll(o)
            /\ \/ Goes(r, "updating")
               \/ Goes(r, "reading")
            /\ UNCHANGED call
      /\ UNCHANGED <<today, illegal, updating, fetch, reply>>

\* A bug: the result of acquire(False) is not looked at.
UpdateUnlocked(r) ==
  /\ pc[r] = "updating"
  /\ updating' = [updating EXCEPT ![Object(r)] = r]
  /\ Goes(r, "dispatching")
  /\ UNCHANGED <<today, row, dbData, illegal, call, fetch, reply>>

\* update(): the one that takes the lock fetches; another, if it blocks, waits
\* for that fetch and looks no further.
Update(r) ==
  LET o == Object(r)
  IN  /\ pc[r] = "updating"
      /\ \/ /\ updating[o] = NoOne
            /\ updating' = [updating EXCEPT ![o] = r]
            /\ Goes(r, "dispatching")
         \/ /\ updating[o] # NoOne
            /\ Goes(r, IF call[r].block THEN "joining" ELSE "reading")
            /\ UNCHANGED updating
      /\ UNCHANGED <<today, row, dbData, illegal, call, fetch, reply>>

Join(r) ==
  /\ pc[r] = "joining"
  /\ updating[Object(r)] = NoOne
  /\ Goes(r, "reading")
  /\ UNCHANGED <<today, row, dbData, illegal, updating, call, fetch, reply>>

\* A send thread that has ended is gone.  Its request may still be outstanding,
\* but is never answered once its place is taken.
IsAwaited(f) == \E r \in Readers : call[r].fetch = f

IsFree(f) == fetch[f].state = "ended" /\ reply[f] \in {"none", "due"} /\ ~IsAwaited(f)

\* _fetch_anidb_data starts the send thread.  Looking the method up already
\* raises on an object marked illegal, and then nobody lets _updating go.
Dispatch(r) ==
  LET o == Object(r)
  IN  /\ pc[r] = "dispatching"
      /\ \/ /\ illegal[o]
            /\ Returns(r)
            /\ UNCHANGED <<updating, fetch, reply>>
         \/ /\ ~illegal[o]
            /\ \E f \in Fetches :
                 /\ IsFree(f)
                 /\ updating' = [updating EXCEPT ![o] = f]
                 /\ fetch' = [fetch EXCEPT ![f] = [state |-> "starting", object |-> o,
                                                   failed |-> FALSE]]
                 /\ reply' = [reply EXCEPT ![f] = "none"]
                 /\ call' = [call EXCEPT ![r].fetch = IF call[r].block THEN f ELSE NoOne]
            /\ Goes(r, IF call[r].block THEN "waiting" ELSE "reading")
      /\ UNCHANGED <<today, row, dbData, illegal>>

\* The end of _fetch_anidb_data: the failure of the thread is raised here.
Rejoin(r) ==
  LET f == call[r].fetch
  IN  /\ pc[r] = "waiting"
      /\ fetch[f].state = "ended"
      /\ \/ /\ fetch[f].failed \/ illegal[Object(r)]
            /\ Returns(r)
         \/ /\ ~fetch[f].failed /\ ~illegal[Object(r)]
            /\ Goes(r, "reading")
            /\ call' = [call EXCEPT ![r].fetch = NoOne]
      /\ UNCHANGED <<today, row, dbData, illegal, updating, fetch, reply>>

\* The value, read off whatever copy there is: None has no attribute,
\* which answers None, and no relations, which answers an empty list.
Read(r) ==
  /\ pc[r] = "reading"
  /\ Returns(r)
  /\ UNCHANGED <<today, row, dbData, illegal, updating, fetch, reply>>

-----------------------------------------------------------------------------
(* The send thread *)

Release(o) == updating' = [updating EXCEPT ![o] = NoOne]

\* A failure with nobody waiting is raised to nobody.
Ends(f, failed) ==
  fetch' = [fetch EXCEPT ![f].state = "ended", ![f].failed = failed /\ IsAwaited(f)]

\* Looking _send_anidb_update_req up raises on an object marked illegal, outside
\* the try whose finally lets _updating go; otherwise the request goes out.
Send(f) ==
  /\ fetch[f].state = "starting"
  /\ \/ /\ illegal[fetch[f].object]
        /\ Ends(f, TRUE)
        /\ UNCHANGED reply
     \/ /\ ~illegal[fetch[f].object]
        /\ fetch' = [fetch EXCEPT ![f].state = "awaiting"]
        /\ reply' = [reply EXCEPT ![f] = "due"]
  /\ UNCHANGED <<today, row, dbData, illegal, updating, pc, call>>

\* _await_reply returns, or raises what failed the request, and the finally of
\* _send_anidb_update_req lets _updating go.
Answered(f) ==
  /\ fetch[f].state = "awaiting"
  /\ reply[f] \notin {"due", "storing"}
  /\ Ends(f, reply[f] = "failed")
  /\ reply' = [reply EXCEPT ![f] = "none"]
  /\ Release(fetch[f].object)
  /\ UNCHANGED <<today, row, dbData, illegal, pc, call>>

\* A bug: the release is not in a finally.
GiveUpHeld(f) ==
  /\ fetch[f].state = "awaiting"
  /\ reply[f] \in {"due", "storing"}
  /\ Ends(f, TRUE)
  /\ UNCHANGED <<today, row, dbData, illegal, updating, pc, call, reply>>

\* A bug: the wait for the reply has no timeout.
AwaitForEver(f) == FALSE /\ UNCHANGED vars

\* REQUEST_TIMEOUT: the fetch gives up, and its request is still outstanding.
GiveUp(f) ==
  /\ fetch[f].state = "awaiting"
  /\ reply[f] \in {"due", "storing"}
  /\ Ends(f, TRUE)
  /\ Release(fetch[f].object)
  /\ UNCHANGED <<today, row, dbData, illegal, pc, call, reply>>

-----------------------------------------------------------------------------
(* The transport and the callback it runs, _db_data_callback.  The reply may    *)
(* come while its fetch waits, or after it gave up.                           *)

\* The outcome of the command, for the fetch that still waits for it.
Settles(f, outcome) ==
  reply' = [reply EXCEPT ![f] = IF fetch[f].state = "awaiting" THEN outcome ELSE "none"]

\* Banned, refused, unanswered: the transport fails the command.  So does a reply
\* the callback raises on.
Fail(f) ==
  /\ reply[f] = "due"
  /\ Settles(f, "failed")
  /\ UNCHANGED <<today, row, dbData, illegal, updating, pc, call, fetch>>

\* 330: the object is marked illegal.
Unknown(f) ==
  /\ reply[f] = "due"
  /\ illegal' = [illegal EXCEPT ![fetch[f].object] = TRUE]
  /\ Settles(f, "answered")
  /\ UNCHANGED <<today, row, dbData, updating, pc, call, fetch>>

\* The reply carries the anime and the object holds its row: the copy is merged,
\* stamped and committed.
Refresh(f) ==
  LET o == fetch[f].object
  IN  /\ reply[f] = "due"
      /\ HasKey(dbData[o])
      /\ dbData' = [dbData EXCEPT ![o].updated = today]
      /\ row' = [updated |-> today, dice |-> dbData[o].dice]
      /\ Settles(f, "answered")
      /\ UNCHANGED <<today, illegal, updating, pc, call, fetch>>

\* The object holds no row, or one without a key: a new one is made ...
Make(f) ==
  LET o == fetch[f].object
      old == dbData[o]
  IN  /\ reply[f] = "due"
      /\ ~HasKey(old)
      /\ dbData' = [dbData EXCEPT ![o] =
                      [updated |-> today, dice |-> IF old = NoRow THEN today ELSE old.dice,
                       kept |-> FALSE, by |-> f]]
      /\ reply' = [reply EXCEPT ![f] = "storing"]
      /\ UNCHANGED <<today, row, illegal, updating, pc, call, fetch>>

\* ... and committed.  If the row exists by now the INSERT is refused and rolled
\* back, which is logged and no more.
Insert(f) ==
  LET o == fetch[f].object
      mine == dbData[o] # NoRow /\ dbData[o].by = f
  IN  /\ reply[f] = "storing"
      /\ row' = IF row = NoRow THEN [updated |-> today, dice |-> today] ELSE row
      /\ dbData' = IF mine
                   THEN [dbData EXCEPT ![o].by = NoOne, ![o].kept = (row = NoRow)]
                   ELSE dbData
      /\ Settles(f, "answered")
      /\ UNCHANGED <<today, illegal, updating, pc, call, fetch>>

-----------------------------------------------------------------------------
(* The application and the calendar *)

IsUnused(o) == /\ \A r \in Readers : pc[r] = "idle" \/ Object(r) # o
               /\ \A f \in Fetches : fetch[f].object = o => IsFree(f) /\ reply[f] = "none"

\* The application drops an object and builds another for the same anime.
Build(o) ==
  /\ IsUnused(o)
  /\ dbData' = [dbData EXCEPT ![o] = Loaded(row)]
  /\ illegal' = [illegal EXCEPT ![o] = FALSE]
  /\ updating' = [updating EXCEPT ![o] = NoOne]
  /\ UNCHANGED <<today, row, pc, call, fetch, reply>>

\* A day is long against every wait in here, so nothing is under way as it ends.
NextDay ==
  /\ today < LAST_DAY
  /\ \A o \in Objects : IsUnused(o)
  /\ today' = today + 1
  /\ UNCHANGED <<row, dbData, illegal, updating, pc, call, fetch, reply>>

-----------------------------------------------------------------------------
Init ==
  /\ today = 0
  /\ row \in {NoRow, [updated |-> 0, dice |-> 0]}
  /\ dbData = [o \in Objects |-> Loaded(row)]
  /\ illegal = [o \in Objects |-> FALSE]
  /\ updating = [o \in Objects |-> NoOne]
  /\ pc = [r \in Readers |-> "idle"]
  /\ call = [r \in Readers |-> NoCall]
  /\ fetch = [f \in Fetches |-> NoFetch]
  /\ reply = [f \in Fetches |-> "none"]

ReaderStep(r) ==
  \/ PassExclusion(r) \/ Resolve(r) \/ Update(r) \/ Join(r)
  \/ Dispatch(r) \/ Rejoin(r) \/ Read(r)

FetchStep(f) == Send(f) \/ Answered(f) \/ GiveUp(f)

Callback(f) == Fail(f) \/ Unknown(f) \/ Refresh(f) \/ Make(f) \/ Insert(f)

Next ==
  \/ \E r \in Readers, o \in Objects, kind \in Kinds : Call(r, o, kind)
  \/ \E r \in Readers : ReaderStep(r)
  \/ \E f \in Fetches : FetchStep(f) \/ Callback(f)
  \/ \E o \in Objects : Build(o)
  \/ NextDay

Spec == Init /\ [][Next]_vars

\* Threads run, and a lock that keeps coming free is not withheld from a waiter for
\* ever.  Nothing makes the transport settle a request.
Fairness ==
  /\ \A r \in Readers : /\ WF_vars(Resolve(r) \/ Update(r) \/ Dispatch(r) \/ Rejoin(r) \/ Read(r))
                        /\ SF_vars(PassExclusion(r) \/ Join(r))
  /\ \A f \in Fetches : WF_vars(FetchStep(f)) /\ WF_vars(Insert(f))

FairSpec == Spec /\ Fairness

-----------------------------------------------------------------------------
(* Properties *)

IsRunning(f) == fetch[f].state \in {"starting", "awaiting"}

\* An object is never left marked as fetching by nobody, whichever way a fetch of
\* it fails: whoever holds _updating is a read about to start its thread, or a
\* send thread that has not ended.  (An illegal object may be: see CallsReturn.)
ExclusionEnds ==
  \A o \in Objects : ~illegal[o] =>
    \/ updating[o] = NoOne
    \/ \E r \in Readers : updating[o] = r /\ pc[r] = "dispatching" /\ Object(r) = o
    \/ \E f \in Fetches : updating[o] = f /\ IsRunning(f) /\ fetch[f].object = o

\* Concurrent reads of one object do not make concurrent fetches of it.
NoConcurrentFetches ==
  \A f, g \in Fetches :
    f # g /\ IsRunning(f) /\ IsRunning(g) => fetch[f].object # fetch[g].object

\* Being unable to refresh does not cost the caller what is already held: only a
\* read that found no row at all, or a forced update(), is failed by its fetch.
RefreshFailsNoRead ==
  \A r \in Readers :
    pc[r] = "waiting" /\ fetch[call[r].fetch].failed => call[r].blind \/ call[r].kind = "update"

\* None is an answer, never the absence of one: a read that comes to its answer has
\* a row to read it off; one that has none raises.
NoneIsAnAnswer ==
  \A r \in Readers :
    /\ pc[r] = "reading"
    /\ \/ call[r].kind = "attribute"
       \/ call[r].kind = "relations" /\ ~illegal[Object(r)]
    => dbData[Object(r)] # NoRow

\* Every wait is bounded: a read or an update() always comes back.
EveryCallReturns == \A r \in Readers : pc[r] # "idle" ~> pc[r] = "idle"

\* The waits that are bounded: a call comes back, whatever becomes of its fetch,
\* unless it is one that waits for somebody else's fetch of an object found illegal.
CallsReturn ==
  \A r \in Readers :
    pc[r] # "idle" ~> \/ pc[r] = "idle"
                      \/ pc[r] \in {"excluded", "joining"} /\ illegal[Object(r)]
=============================================================================
