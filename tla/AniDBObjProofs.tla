--------------------------- MODULE AniDBObjProofs ---------------------------
(***************************************************************************)
(* What AniDBObj promises about the exclusion of fetches, for any number   *)
(* of application threads, objects and fetches, and any number of days.    *)
(***************************************************************************)
EXTENDS AniDBObj, TLAPS

\* A call that is under way is a call of some object.
CallsNameObjects == \A r \in Readers : pc[r] # "idle" => Object(r) \in Objects

\* The read about to start a thread, and each thread that runs, holds _updating:
\* at most one of them for an object.
StarterHolds == \A r \in Readers : pc[r] = "dispatching" => updating[Object(r)] = r

RunnerHolds ==
  \A f \in Fetches : IsRunning(f) => /\ fetch[f].object \in Objects
                                     /\ updating[fetch[f].object] = f

\* A reply that is due or being stored is one to an object.
RepliesNameObjects ==
  \A f \in Fetches : reply[f] \in {"due", "storing"} => fetch[f].object \in Objects

\* Only a call that must fetch waits for a fetch.
WaitersAsked ==
  \A r \in Readers :
    /\ pc[r] = "waiting" => call[r].block
    /\ pc[r] \notin {"idle", "reading"} /\ call[r].block => call[r].blind \/ call[r].kind = "update"

\* The inductive invariant.
Exclusion == StarterHolds /\ RunnerHolds /\ ExclusionEnds
IInv == TypeOK /\ CallsNameObjects /\ RepliesNameObjects /\ WaitersAsked /\ Exclusion

-----------------------------------------------------------------------------
(* Type correctness *)

\* What a call asks for when it starts is a call.
LEMMA AsksType ==
  ASSUME NEW o \in Objects \cup {NoOne}, NEW kind \in Kinds,
         NEW block \in BOOLEAN, NEW blind \in BOOLEAN
  PROVE  Asks(o, kind, block, blind) \in Calls
BY DEF Asks, Calls

\* So is no call at all.
LEMMA NoCallType == NoCall \in Calls
BY AsksType DEF NoCall, Kinds

\* Starting a call keeps the types.
LEMMA CallTypes ==
  ASSUME TypeOK, NEW r \in Readers, NEW o \in Objects, NEW kind \in Kinds, Call(r, o, kind)
  PROVE  TypeOK'
<1>1. Entry(o, kind) \in Places
  BY DEF Entry, Places
<1>2. (kind \in {"relations", "update"}) \in BOOLEAN
  OBVIOUS
<1>3. (kind = "relations" /\ dbData[o] = NoRow) \in BOOLEAN
  OBVIOUS
<1>4. Asks(o, kind, kind \in {"relations", "update"}, kind = "relations" /\ dbData[o] = NoRow)
        \in Calls
  BY <1>2, <1>3, AsksType
<1>5. QED
  BY <1>1, <1>4 DEF Call, Goes, TypeOK

\* A row that is rolled stays a row, and so does the copy.
LEMMA RollTypes ==
  ASSUME TypeOK, NEW o \in Objects, dbData[o] # NoRow, Roll(o)
  PROVE  /\ row' \in Rows \cup {NoRow}
         /\ dbData' \in [Objects -> Copies \cup {NoRow}]
<1> DEFINE rolled == [dbData[o] EXCEPT !.dice = today]
<1>1. dbData[o] \in Copies
  BY DEF TypeOK
<1>2. rolled \in Copies
  BY <1>1 DEF Copies, TypeOK
<1>3. Stored(rolled) \in Rows
  BY <1>2 DEF Stored, Copies, Rows
<1>4. QED
  BY <1>2, <1>3 DEF Roll, TypeOK

\* A call that waits may record its fetch.
LEMMA FetchOfCallType ==
  ASSUME NEW c \in Calls, NEW f \in Fetches \cup {NoOne}
  PROVE  [c EXCEPT !.fetch = f] \in Calls
BY DEF Calls

\* update_if_old keeps the types, whichever way it goes.
LEMMA ResolveTypes ==
  ASSUME IInv, NEW r \in Readers, Resolve(r)
  PROVE  TypeOK'
<1> DEFINE o == Object(r)
<1>1. o \in Objects /\ TypeOK
  BY DEF IInv, CallsNameObjects, Resolve
<1>2. CASE illegal[o] /\ Returns(r) /\ UNCHANGED <<row, dbData>>
  BY <1>1, <1>2, NoCallType DEF Resolve, Returns, Goes, Places, TypeOK
<1>3. CASE /\ call' = [call EXCEPT ![r] = Asks(o, call[r].kind, TRUE, TRUE)]
           /\ Goes(r, "updating") /\ UNCHANGED <<row, dbData>>
  <2>1. call[r].kind \in Kinds
    BY <1>1 DEF Calls, TypeOK
  <2>2. Asks(o, call[r].kind, TRUE, TRUE) \in Calls
    BY <1>1, <2>1, AsksType
  <2>3. QED
    BY <1>1, <1>3, <2>2 DEF Resolve, Goes, Places, TypeOK
<1>4. CASE Goes(r, "reading") /\ UNCHANGED <<row, dbData, call>>
  BY <1>1, <1>4 DEF Resolve, Goes, Places, TypeOK
<1>5. CASE /\ dbData[o] # NoRow /\ Roll(o) /\ UNCHANGED call
           /\ Goes(r, "updating") \/ Goes(r, "reading")
  BY <1>1, <1>5, RollTypes DEF Resolve, Goes, Places, TypeOK
<1>6. QED
  BY <1>2, <1>3, <1>4, <1>5 DEF Resolve

\* Starting a send thread keeps the types.
LEMMA DispatchTypes ==
  ASSUME IInv, NEW r \in Readers, Dispatch(r)
  PROVE  TypeOK'
<1> DEFINE o == Object(r)
<1>1. o \in Objects /\ TypeOK
  BY DEF IInv, CallsNameObjects, Dispatch
<1>2. CASE Returns(r) /\ UNCHANGED <<updating, fetch, reply>>
  BY <1>1, <1>2, NoCallType DEF Dispatch, Returns, Goes, Places, TypeOK
<1>3. ASSUME NEW f \in Fetches,
             updating' = [updating EXCEPT ![o] = f],
             fetch' = [fetch EXCEPT ![f] = [state |-> "starting", object |-> o, failed |-> FALSE]],
             reply' = [reply EXCEPT ![f] = "none"],
             call' = [call EXCEPT ![r].fetch = IF call[r].block THEN f ELSE NoOne],
             Goes(r, IF call[r].block THEN "waiting" ELSE "reading")
      PROVE  TypeOK'
  <2>1. [call[r] EXCEPT !.fetch = IF call[r].block THEN f ELSE NoOne] \in Calls
    BY <1>1, FetchOfCallType DEF TypeOK
  <2>2. call' \in [Readers -> Calls]
    BY <1>1, <1>3, <2>1 DEF TypeOK
  <2>3. pc' \in [Readers -> Places]
    BY <1>1, <1>3 DEF Goes, Places, TypeOK
  <2>4. fetch' \in [Fetches -> Threads]
    BY <1>1, <1>3 DEF Threads, TypeOK
  <2>5. QED
    BY <1>1, <1>3, <2>2, <2>3, <2>4 DEF Dispatch, TypeOK
<1>4. QED
  BY <1>2, <1>3 DEF Dispatch

\* Every step of a read keeps the types.
LEMMA ReaderTypes ==
  ASSUME IInv, NEW r \in Readers, ReaderStep(r)
  PROVE  TypeOK'
<1>1. TypeOK
  BY DEF IInv
<1>2. CASE PassExclusion(r)
  BY <1>1, <1>2 DEF PassExclusion, Goes, Places, TypeOK
<1>3. CASE Update(r)
  <2>1. pc' \in [Readers -> Places]
    BY <1>1, <1>3 DEF Update, Goes, Places, TypeOK
  <2>2. QED
    BY <1>1, <1>3, <2>1 DEF Update, TypeOK
<1>4. CASE Join(r)
  BY <1>1, <1>4 DEF Join, Goes, Places, TypeOK
<1>5. CASE Rejoin(r)
  <2>1. pc' \in [Readers -> Places]
    BY <1>1, <1>5 DEF Rejoin, Returns, Goes, Places, TypeOK
  <2>2. [call[r] EXCEPT !.fetch = NoOne] \in Calls
    BY <1>1, FetchOfCallType DEF TypeOK
  <2>3. call' \in [Readers -> Calls]
    BY <1>1, <1>5, <2>2, NoCallType DEF Rejoin, Returns, TypeOK
  <2>4. QED
    BY <1>1, <1>5, <2>1, <2>3 DEF Rejoin, TypeOK
<1>6. CASE Read(r)
  BY <1>1, <1>6, NoCallType DEF Read, Returns, Goes, Places, TypeOK
<1>7. QED
  BY <1>2, <1>3, <1>4, <1>5, <1>6, ResolveTypes, DispatchTypes DEF ReaderStep

\* A send thread that ends is still a send thread.
LEMMA EndsTypes ==
  ASSUME TypeOK, NEW f \in Fetches, NEW failed \in BOOLEAN, Ends(f, failed)
  PROVE  fetch' \in [Fetches -> Threads]
<1> DEFINE raised == failed /\ IsAwaited(f)
<1>1. raised \in BOOLEAN
  BY DEF IsAwaited
<1>2. [fetch[f] EXCEPT !.state = "ended", !.failed = raised] \in Threads
  BY <1>1 DEF Threads, TypeOK
<1>3. fetch' = [fetch EXCEPT ![f] = [fetch[f] EXCEPT !.state = "ended", !.failed = raised]]
  BY DEF Ends, TypeOK
<1>4. QED
  BY <1>2, <1>3 DEF TypeOK

\* Every step of a send thread keeps the types.
LEMMA FetchTypes ==
  ASSUME TypeOK, NEW f \in Fetches, FetchStep(f)
  PROVE  TypeOK'
<1> DEFINE outcome == reply[f] = "failed"
<1>1. CASE Send(f)
  <2>1. fetch' \in [Fetches -> Threads]
    <3>1. CASE Ends(f, TRUE)
      BY <3>1, EndsTypes
    <3>2. CASE fetch' = [fetch EXCEPT ![f].state = "awaiting"]
      BY <3>2 DEF Threads, TypeOK
    <3>3. QED
      BY <1>1, <3>1, <3>2 DEF Send
  <2>2. QED
    BY <1>1, <2>1 DEF Send, TypeOK
<1>2. CASE Answered(f)
  <2>1. outcome \in BOOLEAN
    OBVIOUS
  <2>2. fetch' \in [Fetches -> Threads]
    BY <1>2, <2>1, EndsTypes DEF Answered
  <2>3. QED
    BY <1>2, <2>2 DEF Answered, Release, TypeOK
<1>3. CASE GiveUp(f)
  <2>1. fetch' \in [Fetches -> Threads]
    BY <1>3, EndsTypes DEF GiveUp
  <2>2. QED
    BY <1>3, <2>1 DEF GiveUp, Release, TypeOK
<1>4. QED
  BY <1>1, <1>2, <1>3 DEF FetchStep

\* Every outcome of a request, and its callback, keeps the types.
LEMMA CallbackTypes ==
  ASSUME IInv, NEW f \in Fetches, Callback(f)
  PROVE  TypeOK'
<1> DEFINE o == fetch[f].object
<1>1. TypeOK /\ o \in Objects
  BY DEF IInv, RepliesNameObjects, Callback, Fail, Unknown, Refresh, Make, Insert
<1>2. CASE Fail(f)
  BY <1>1, <1>2 DEF Fail, Settles, TypeOK
<1>3. CASE Unknown(f)
  BY <1>1, <1>3 DEF Unknown, Settles, TypeOK
<1>4. CASE Refresh(f)
  <2>1. dbData[o] \in Copies
    BY <1>1, <1>4 DEF Refresh, HasKey, TypeOK
  <2>2. [dbData[o] EXCEPT !.updated = today] \in Copies
    BY <1>1, <2>1 DEF Copies, TypeOK
  <2>3. dbData' \in [Objects -> Copies \cup {NoRow}]
    BY <1>1, <1>4, <2>2 DEF Refresh, TypeOK
  <2>4. row' \in Rows
    BY <1>1, <1>4, <2>1 DEF Refresh, Rows, Copies, TypeOK
  <2>5. QED
    BY <1>1, <1>4, <2>3, <2>4 DEF Refresh, Settles, TypeOK
<1>5. CASE Make(f)
  <2> DEFINE dice == IF dbData[o] = NoRow THEN today ELSE dbData[o].dice
  <2>1. dice \in Days
    BY <1>1 DEF Copies, TypeOK
  <2>2. [updated |-> today, dice |-> dice, kept |-> FALSE, by |-> f] \in Copies
    BY <1>1, <2>1 DEF Copies, TypeOK
  <2>3. dbData' \in [Objects -> Copies \cup {NoRow}]
    BY <1>1, <1>5, <2>2 DEF Make, TypeOK
  <2>4. QED
    BY <1>1, <1>5, <2>3 DEF Make, TypeOK
<1>6. CASE Insert(f)
  <2> DEFINE kept == row = NoRow
  <2>1. row' \in Rows \cup {NoRow}
    BY <1>1, <1>6 DEF Insert, Rows, TypeOK
  <2>2. dbData' \in [Objects -> Copies \cup {NoRow}]
    <3>1. CASE dbData[o] = NoRow \/ dbData[o].by # f
      BY <1>1, <1>6, <3>1 DEF Insert, TypeOK
    <3>2. CASE dbData[o] # NoRow /\ dbData[o].by = f
      <4>1. kept \in BOOLEAN
        OBVIOUS
      <4>2. [dbData[o] EXCEPT !.by = NoOne, !.kept = kept] \in Copies
        <5>1. dbData[o] \in Copies
          BY <1>1, <3>2 DEF TypeOK
        <5> HIDE DEF kept
        <5>2. QED
          BY <4>1, <5>1 DEF Copies
      <4>3. dbData' = [dbData EXCEPT ![o] = [dbData[o] EXCEPT !.by = NoOne, !.kept = kept]]
        BY <1>1, <1>6, <3>2 DEF Insert, TypeOK
      <4>4. QED
        BY <1>1, <4>2, <4>3 DEF TypeOK
    <3>3. QED
      BY <3>1, <3>2
  <2>3. QED
    BY <1>1, <1>6, <2>1, <2>2 DEF Insert, Settles, TypeOK
<1>7. QED
  BY <1>2, <1>3, <1>4, <1>5, <1>6 DEF Callback

\* A new object and a new day keep the types.
LEMMA ApplicationTypes ==
  ASSUME TypeOK, NextDay \/ \E o \in Objects : Build(o)
  PROVE  TypeOK'
<1>1. CASE NextDay
  <2>1. today' \in Days
    BY <1>1, ObjectAssumption DEF NextDay, Days, TypeOK
  <2>2. QED
    BY <1>1, <2>1 DEF NextDay, TypeOK
<1>2. ASSUME NEW o \in Objects, Build(o)
      PROVE  TypeOK'
  <2>1. Loaded(row) \in Copies \cup {NoRow}
    BY DEF Loaded, Rows, Copies, TypeOK
  <2>2. QED
    BY <1>2, <2>1 DEF Build, TypeOK
<1>3. QED
  BY <1>1, <1>2

\* Every step keeps the types.
LEMMA TypesKept ==
  ASSUME IInv, [Next]_vars
  PROVE  TypeOK'
<1>1. TypeOK
  BY DEF IInv
<1>2. CASE UNCHANGED vars
  BY <1>1, <1>2 DEF vars, TypeOK
<1>3. CASE Next
  BY <1>1, <1>3, CallTypes, ReaderTypes, FetchTypes, CallbackTypes, ApplicationTypes DEF Next
<1>4. QED
  BY <1>2, <1>3

-----------------------------------------------------------------------------
(* What calls and replies are about *)

\* A call keeps its object until it returns.
LEMMA CallsKept ==
  ASSUME IInv, [Next]_vars
  PROVE  CallsNameObjects'
<1> USE DEF IInv, CallsNameObjects
<1>1. CASE UNCHANGED vars
  BY <1>1 DEF vars, Object
<1>2. ASSUME NEW r \in Readers, NEW o \in Objects, NEW kind \in Kinds, Call(r, o, kind)
      PROVE  CallsNameObjects'
  BY <1>2 DEF Call, Goes, Asks, Object, TypeOK
<1>3. ASSUME NEW r \in Readers, ReaderStep(r)
      PROVE  CallsNameObjects'
  <2>1. pc[r] # "idle" /\ \A q \in Readers \ {r} : pc'[q] = pc[q] /\ call'[q] = call[q]
    BY <1>3 DEF ReaderStep, PassExclusion, Resolve, Update, Join, Dispatch, Rejoin, Read,
                Returns, Goes, TypeOK
  <2>2. pc'[r] = "idle" \/ call'[r].object = call[r].object
    BY <1>3 DEF ReaderStep, PassExclusion, Resolve, Update, Join, Dispatch, Rejoin, Read,
                Returns, Goes, Asks, Object, TypeOK, Calls
  <2>3. QED
    BY <2>1, <2>2 DEF Object
<1>4. CASE UNCHANGED <<pc, call>>
  BY <1>4 DEF Object
<1>5. ASSUME NEW f \in Fetches, FetchStep(f) \/ Callback(f)
      PROVE  UNCHANGED <<pc, call>>
  BY <1>5 DEF FetchStep, Callback, Send, Answered, GiveUp, Fail, Unknown, Refresh, Make, Insert
<1>6. ASSUME NextDay \/ \E o \in Objects : Build(o)
      PROVE  UNCHANGED <<pc, call>>
  BY <1>6 DEF NextDay, Build
<1>7. QED
  BY <1>1, <1>2, <1>3, <1>4, <1>5, <1>6 DEF Next

\* Whoever waits for a fetch was called with block, or found no row.
LEMMA WaitersKept ==
  ASSUME IInv, [Next]_vars
  PROVE  WaitersAsked'
<1> USE DEF IInv, WaitersAsked
<1>1. CASE UNCHANGED vars
  BY <1>1 DEF vars
<1>2. ASSUME NEW r \in Readers, NEW o \in Objects, NEW kind \in Kinds, Call(r, o, kind)
      PROVE  WaitersAsked'
  BY <1>2 DEF Call, Entry, Goes, Asks, TypeOK, Kinds
<1>3. ASSUME NEW r \in Readers, ReaderStep(r)
      PROVE  WaitersAsked'
  <2>1. \A q \in Readers \ {r} : pc'[q] = pc[q] /\ call'[q] = call[q]
    BY <1>3 DEF ReaderStep, PassExclusion, Resolve, Update, Join, Dispatch, Rejoin, Read,
                Returns, Goes, TypeOK
  <2>2. pc[r] \notin {"idle"} /\ (pc[r] = "reading" => pc'[r] = "idle")
    BY <1>3 DEF ReaderStep, PassExclusion, Resolve, Update, Join, Dispatch, Rejoin, Read,
                Returns, Goes, TypeOK
  <2>3. \/ pc'[r] \in {"idle", "reading"}
        \/ call'[r].block /\ call'[r].blind /\ pc'[r] = "updating"
        \/ /\ call'[r].block = call[r].block /\ call'[r].blind = call[r].blind
           /\ call'[r].kind = call[r].kind
           /\ pc'[r] = "waiting" => call[r].block
    BY <1>3 DEF ReaderStep, PassExclusion, Resolve, Update, Join, Dispatch, Rejoin, Read,
                Returns, Goes, Asks, TypeOK, Calls
  <2>4. QED
    BY <2>1, <2>2, <2>3
<1>4. CASE UNCHANGED <<pc, call>>
  BY <1>4
<1>5. ASSUME NEW f \in Fetches, FetchStep(f) \/ Callback(f)
      PROVE  UNCHANGED <<pc, call>>
  BY <1>5 DEF FetchStep, Callback, Send, Answered, GiveUp, Fail, Unknown, Refresh, Make, Insert
<1>6. ASSUME NextDay \/ \E o \in Objects : Build(o)
      PROVE  UNCHANGED <<pc, call>>
  BY <1>6 DEF NextDay, Build
<1>7. QED
  BY <1>1, <1>2, <1>3, <1>4, <1>5, <1>6 DEF Next

\* A thread that ends changes nothing of another, nor whose object it fetches.
LEMMA EndsEnds ==
  ASSUME TypeOK, NEW f \in Fetches, NEW failed, Ends(f, failed)
  PROVE  /\ fetch'[f].state = "ended"
         /\ \A g \in Fetches : fetch'[g].object = fetch[g].object
         /\ \A g \in Fetches \ {f} : fetch'[g] = fetch[g]
<1> DEFINE raised == failed /\ IsAwaited(f)
<1>1. fetch' = [fetch EXCEPT ![f] = [fetch[f] EXCEPT !.state = "ended", !.failed = raised]]
  BY DEF Ends, TypeOK
<1> HIDE DEF raised
<1>2. QED
  BY <1>1 DEF TypeOK, Threads

\* A step of a send thread leaves the others, and its object, as they are.
LEMMA FetchStepShape ==
  ASSUME TypeOK, NEW f \in Fetches, FetchStep(f)
  PROVE  /\ \A g \in Fetches : fetch'[g].object = fetch[g].object
         /\ \A g \in Fetches \ {f} : fetch'[g] = fetch[g]
         /\ fetch[f].state \in {"starting", "awaiting"}
         /\ fetch'[f].state \in {"awaiting", "ended"}
<1>1. CASE Send(f) /\ Ends(f, TRUE)
  BY <1>1, EndsEnds DEF Send
<1>2. CASE Send(f) /\ fetch' = [fetch EXCEPT ![f].state = "awaiting"]
  BY <1>2 DEF Send, TypeOK, Threads
<1>3. CASE Answered(f)
  BY <1>3, EndsEnds DEF Answered
<1>4. CASE GiveUp(f)
  BY <1>4, EndsEnds DEF GiveUp
<1>5. QED
  BY <1>1, <1>2, <1>3, <1>4 DEF FetchStep, Send

\* A request keeps its object while a reply may still come.
LEMMA RepliesKept ==
  ASSUME IInv, [Next]_vars
  PROVE  RepliesNameObjects'
<1> USE DEF IInv, RepliesNameObjects
<1>1. CASE UNCHANGED <<fetch, reply>>
  BY <1>1
<1>2. ASSUME NEW r \in Readers, ReaderStep(r)
      PROVE  RepliesNameObjects'
  BY <1>1, <1>2 DEF ReaderStep, PassExclusion, Resolve, Update, Join, Dispatch, Rejoin, Read, TypeOK
<1>3. ASSUME NEW f \in Fetches, FetchStep(f)
      PROVE  RepliesNameObjects'
  <2>1. \A g \in Fetches : fetch'[g].object = fetch[g].object
    BY <1>3, FetchStepShape
  <2>2. reply'[f] \in {"due", "storing"} => fetch[f].object \in Objects
    BY <1>3 DEF FetchStep, Send, Answered, GiveUp, TypeOK, Exclusion, RunnerHolds, IsRunning
  <2>3. \A g \in Fetches \ {f} : reply'[g] = reply[g]
    BY <1>3 DEF FetchStep, Send, Answered, GiveUp, TypeOK
  <2>4. QED
    BY <2>1, <2>2, <2>3
<1>4. ASSUME NEW f \in Fetches, Callback(f)
      PROVE  RepliesNameObjects'
  BY <1>4 DEF Callback, Fail, Unknown, Refresh, Make, Insert, Settles, TypeOK
<1>5. QED
  BY <1>1, <1>2, <1>3, <1>4 DEF Next, Call, NextDay, Build, vars

-----------------------------------------------------------------------------
(* Who holds _updating *)

\* A read changes nothing of another; it gives up "dispatching" only in Dispatch,
\* and takes it only with the lock.
LEMMA ReaderStepHolds ==
  ASSUME IInv, NEW r \in Readers, ReaderStep(r)
  PROVE  Exclusion'
<1> DEFINE o == Object(r)
<1>1. TypeOK /\ Exclusion /\ o \in Objects
  BY DEF IInv, CallsNameObjects, ReaderStep, PassExclusion, Resolve, Update, Join, Dispatch,
         Rejoin, Read
<1>2. \A q \in Readers \ {r} : pc'[q] = pc[q] /\ call'[q] = call[q]
  BY <1>1 DEF ReaderStep, PassExclusion, Resolve, Update, Join, Dispatch, Rejoin, Read,
              Returns, Goes, TypeOK
<1>3. illegal' = illegal
  BY DEF ReaderStep, PassExclusion, Resolve, Update, Join, Dispatch, Rejoin, Read
<1>4. ASSUME UNCHANGED <<updating, fetch>>, pc[r] # "dispatching", pc'[r] # "dispatching"
      PROVE  Exclusion'
  BY <1>1, <1>2, <1>3, <1>4 DEF Exclusion, StarterHolds, RunnerHolds, ExclusionEnds, IsRunning, Object
<1>5. CASE PassExclusion(r) \/ Resolve(r) \/ Join(r) \/ Rejoin(r) \/ Read(r)
  BY <1>1, <1>4, <1>5 DEF PassExclusion, Resolve, Join, Rejoin, Read, Returns, Goes, TypeOK
<1>6. CASE Update(r)
  <2>1. CASE updating[o] = NoOne
    <3>1. /\ updating' = [updating EXCEPT ![o] = r] /\ pc' = [pc EXCEPT ![r] = "dispatching"]
          /\ UNCHANGED <<call, fetch>>
      BY <1>6, <2>1 DEF Update, Goes
    <3>2. StarterHolds'
      BY <1>1, <2>1, <3>1, ObjectAssumption DEF Exclusion, StarterHolds, Object, TypeOK
    <3>3. RunnerHolds'
      BY <1>1, <2>1, <3>1, ObjectAssumption DEF Exclusion, RunnerHolds, IsRunning, TypeOK
    <3>4. ExclusionEnds'
      BY <1>1, <1>3, <3>1 DEF Exclusion, ExclusionEnds, IsRunning, Object, TypeOK
    <3>5. QED
      BY <3>2, <3>3, <3>4 DEF Exclusion
  <2>2. CASE updating[o] # NoOne
    BY <1>1, <1>4, <1>6, <2>2 DEF Update, Goes, TypeOK
  <2>3. QED
    BY <2>1, <2>2
<1>7. CASE Dispatch(r)
  <2>1. updating[o] = r
    BY <1>1, <1>7 DEF Dispatch, Exclusion, StarterHolds
  <2>2. CASE illegal[o]
    <3>1. pc' = [pc EXCEPT ![r] = "idle"] /\ UNCHANGED <<updating, fetch>>
      BY <1>7, <2>2 DEF Dispatch, Returns, Goes
    <3>2. StarterHolds' /\ RunnerHolds'
      BY <1>1, <1>2, <3>1 DEF Exclusion, StarterHolds, RunnerHolds, IsRunning, Object, TypeOK
    <3>3. ExclusionEnds'
      BY <1>1, <1>2, <1>3, <2>2, <3>1 DEF Exclusion, ExclusionEnds, IsRunning, Object, TypeOK
    <3>4. QED
      BY <3>2, <3>3 DEF Exclusion
  <2>3. CASE ~illegal[o]
    <3>1. PICK f \in Fetches :
            /\ IsFree(f)
            /\ updating' = [updating EXCEPT ![o] = f]
            /\ fetch' = [fetch EXCEPT ![f] = [state |-> "starting", object |-> o,
                                              failed |-> FALSE]]
      BY <1>7, <2>3 DEF Dispatch
    <3>2. pc'[r] # "dispatching"
      BY <1>1, <1>7, <2>3 DEF Dispatch, Goes, TypeOK
    <3>3. StarterHolds'
      BY <1>1, <1>2, <2>1, <3>1, <3>2 DEF Exclusion, StarterHolds, Object, TypeOK
    <3>4. RunnerHolds'
      <4>1. fetch'[f].object = o /\ updating'[o] = f
        BY <1>1, <3>1 DEF TypeOK
      <4>2. \A g \in Fetches \ {f} : fetch'[g] = fetch[g]
        BY <1>1, <3>1 DEF TypeOK
      <4>3. \A g \in Fetches : IsRunning(g) => fetch[g].object # o
        BY <1>1, <2>1, ObjectAssumption DEF Exclusion, RunnerHolds
      <4>4. QED
        BY <1>1, <3>1, <4>1, <4>2, <4>3 DEF Exclusion, RunnerHolds, IsRunning, TypeOK
    <3>5. ExclusionEnds'
      <4>1. fetch'[f].object = o /\ updating'[o] = f /\ fetch'[f].state = "starting"
        BY <1>1, <3>1 DEF TypeOK
      <4>2. \A g \in Fetches \ {f} : fetch'[g] = fetch[g]
        BY <1>1, <3>1 DEF TypeOK
      <4>3. \A p \in Objects \ {o} : updating'[p] = updating[p]
        BY <1>1, <3>1 DEF TypeOK
      <4>4. ~IsRunning(f)
        BY <3>1 DEF IsFree, IsRunning
      <4>5. QED
        BY <1>1, <1>2, <1>3, <4>1, <4>2, <4>3, <4>4 DEF Exclusion, ExclusionEnds, IsRunning, Object
    <3>6. QED
      BY <3>3, <3>4, <3>5 DEF Exclusion
  <2>4. QED
    BY <2>2, <2>3
<1>8. QED
  BY <1>5, <1>6, <1>7 DEF ReaderStep

\* A thread holds the lock until it ends, and lets it go then, unless it found the
\* object illegal before it sent anything.
LEMMA FetchStepHolds ==
  ASSUME IInv, NEW f \in Fetches, FetchStep(f)
  PROVE  Exclusion'
<1> DEFINE o == fetch[f].object
<1>1. TypeOK /\ Exclusion
  BY DEF IInv
<1>2. IsRunning(f) /\ o \in Objects /\ updating[o] = f
  BY <1>1, FetchStepShape DEF IsRunning, Exclusion, RunnerHolds
<1>3. UNCHANGED <<pc, call, illegal>>
  BY DEF FetchStep, Send, Answered, GiveUp
<1>4. /\ \A g \in Fetches : fetch'[g].object = fetch[g].object
      /\ \A g \in Fetches \ {f} : fetch'[g] = fetch[g]
  BY <1>1, FetchStepShape
<1>5. CASE /\ UNCHANGED updating
           /\ illegal[o] \/ fetch'[f].state = "awaiting"
  BY <1>1, <1>2, <1>3, <1>4, <1>5
     DEF Exclusion, StarterHolds, RunnerHolds, ExclusionEnds, IsRunning, Object
<1>6. CASE updating' = [updating EXCEPT ![o] = NoOne] /\ fetch'[f].state = "ended"
  <2>1. updating'[o] = NoOne /\ \A p \in Objects \ {o} : updating'[p] = updating[p]
    BY <1>1, <1>2, <1>6 DEF TypeOK
  <2>2. \A g \in Fetches \ {f} : IsRunning(g) => fetch[g].object # o
    BY <1>1, <1>2 DEF Exclusion, RunnerHolds
  <2>3. \A q \in Readers : pc[q] = "dispatching" => Object(q) # o
    BY <1>1, <1>2, ObjectAssumption DEF Exclusion, StarterHolds
  <2>4. StarterHolds'
    BY <1>1, <1>3, <2>1, <2>3 DEF Exclusion, StarterHolds, Object, IInv, CallsNameObjects
  <2>5. RunnerHolds'
    BY <1>1, <1>4, <1>6, <2>1, <2>2 DEF Exclusion, RunnerHolds, IsRunning
  <2>6. ExclusionEnds'
    BY <1>1, <1>2, <1>3, <1>4, <2>1 DEF Exclusion, ExclusionEnds, IsRunning, Object
  <2>7. QED
    BY <2>4, <2>5, <2>6 DEF Exclusion
<1>7. CASE Send(f)
  <2>1. UNCHANGED updating
    BY <1>7 DEF Send
  <2>2. illegal[o] \/ fetch'[f].state = "awaiting"
    BY <1>1, <1>7 DEF Send, TypeOK, Threads
  <2>3. QED
    BY <1>5, <2>1, <2>2
<1>8. CASE Answered(f) \/ GiveUp(f)
  BY <1>1, <1>6, <1>8, EndsEnds DEF Answered, GiveUp, Release
<1>9. QED
  BY <1>7, <1>8 DEF FetchStep

\* Everything else leaves the holders alone; an object is marked illegal but by
\* Build, which finds nobody at work on it.
LEMMA OthersHold ==
  ASSUME IInv,
         \/ \E r \in Readers, o \in Objects, kind \in Kinds : Call(r, o, kind)
         \/ \E f \in Fetches : Callback(f)
         \/ \E o \in Objects : Build(o)
         \/ NextDay
  PROVE  Exclusion'
<1>1. TypeOK /\ Exclusion
  BY DEF IInv
<1>2. ASSUME NEW r \in Readers, NEW o \in Objects, NEW kind \in Kinds, Call(r, o, kind)
      PROVE  Exclusion'
  <2>1. /\ pc[r] # "dispatching" /\ pc'[r] # "dispatching"
        /\ \A q \in Readers \ {r} : pc'[q] = pc[q] /\ call'[q] = call[q]
        /\ UNCHANGED <<illegal, updating, fetch>>
    BY <1>1, <1>2 DEF Call, Entry, Goes, TypeOK
  <2>2. QED
    BY <1>1, <2>1 DEF Exclusion, StarterHolds, RunnerHolds, ExclusionEnds, IsRunning, Object
<1>3. ASSUME NEW f \in Fetches, Callback(f)
      PROVE  Exclusion'
  <2>1. /\ UNCHANGED <<pc, call, updating, fetch>>
        /\ \A o \in Objects : ~illegal'[o] => ~illegal[o]
    BY <1>1, <1>3 DEF Callback, Fail, Unknown, Refresh, Make, Insert, TypeOK
  <2>2. QED
    BY <1>1, <2>1 DEF Exclusion, StarterHolds, RunnerHolds, ExclusionEnds, IsRunning, Object
<1>4. ASSUME NEW o \in Objects, Build(o)
      PROVE  Exclusion'
  <2>1. /\ UNCHANGED <<pc, call, fetch>>
        /\ updating'[o] = NoOne
        /\ \A p \in Objects \ {o} : updating'[p] = updating[p] /\ illegal'[p] = illegal[p]
    BY <1>1, <1>4 DEF Build, TypeOK
  <2>2. /\ \A q \in Readers : pc[q] = "dispatching" => Object(q) # o
        /\ \A g \in Fetches : IsRunning(g) => fetch[g].object # o
    BY <1>4 DEF Build, IsUnused, IsFree, IsRunning
  <2>3. StarterHolds'
    BY <1>1, <2>1, <2>2 DEF Exclusion, StarterHolds, Object, IInv, CallsNameObjects
  <2>4. RunnerHolds'
    BY <1>1, <2>1, <2>2 DEF Exclusion, RunnerHolds, IsRunning
  <2>5. ExclusionEnds'
    BY <1>1, <2>1 DEF Exclusion, ExclusionEnds, IsRunning, Object
  <2>6. QED
    BY <2>3, <2>4, <2>5 DEF Exclusion
<1>5. CASE NextDay
  BY <1>1, <1>5 DEF NextDay, Exclusion, StarterHolds, RunnerHolds, ExclusionEnds, IsRunning, Object
<1>6. QED
  BY <1>2, <1>3, <1>4, <1>5

\* Every step keeps the lock with the one who runs.
LEMMA ExclusionKept ==
  ASSUME IInv, [Next]_vars
  PROVE  Exclusion'
<1>1. CASE UNCHANGED vars
  BY <1>1 DEF IInv, vars, Exclusion, StarterHolds, RunnerHolds, ExclusionEnds, IsRunning, Object
<1>2. CASE Next
  BY <1>2, ReaderStepHolds, FetchStepHolds, OthersHold DEF Next
<1>3. QED
  BY <1>1, <1>2

-----------------------------------------------------------------------------
(* The theorems *)

\* Nothing is under way at the start.
LEMMA InitHolds == Init => IInv
<1> SUFFICES ASSUME Init PROVE IInv
  OBVIOUS
<1>1. TypeOK
  <2>1. row \in Rows \cup {NoRow} /\ today \in Days
    BY ObjectAssumption DEF Init, Rows, Days
  <2>2. Loaded(row) \in Copies \cup {NoRow}
    BY <2>1 DEF Loaded, Rows, Copies
  <2>3. fetch \in [Fetches -> Threads]
    BY DEF Init, NoFetch, Threads
  <2>4. QED
    BY <2>1, <2>2, <2>3, NoCallType DEF Init, TypeOK, Places
<1>2. CallsNameObjects /\ RepliesNameObjects /\ WaitersAsked /\ Exclusion
  BY DEF Init, CallsNameObjects, RepliesNameObjects, WaitersAsked, Exclusion, StarterHolds,
         RunnerHolds, ExclusionEnds, IsRunning, NoFetch, NoCall, Asks
<1>3. QED
  BY <1>1, <1>2 DEF IInv

\* The invariant is inductive.
THEOREM Invariance == Spec => []IInv
<1>1. IInv /\ [Next]_vars => IInv'
  BY TypesKept, CallsKept, RepliesKept, WaitersKept, ExclusionKept DEF IInv
<1>2. QED
  BY <1>1, InitHolds, PTL DEF Spec

\* Every variable keeps its type.
THEOREM TypeCorrect == Spec => []TypeOK
BY Invariance, PTL DEF IInv

\* Whichever way a fetch fails -- no reply, a late one, a transport that refuses, a
\* callback that raises -- an object that is not illegal is not left marked as
\* fetching by nobody.
THEOREM ExclusionIsReleased == Spec => []ExclusionEnds
BY Invariance, PTL DEF IInv, Exclusion

\* However many threads read an object, no two fetches of it run at once.
THEOREM FetchesExclude == Spec => []NoConcurrentFetches
<1>1. IInv => NoConcurrentFetches
  BY DEF IInv, Exclusion, RunnerHolds, NoConcurrentFetches
<1>2. QED
  BY <1>1, Invariance, PTL

\* A read is failed by a fetch only when it found no row to answer from.
THEOREM RefreshIsHarmless == Spec => []RefreshFailsNoRead
<1>1. IInv => RefreshFailsNoRead
  BY DEF IInv, WaitersAsked, RefreshFailsNoRead
<1>2. QED
  BY <1>1, Invariance, PTL
=============================================================================
