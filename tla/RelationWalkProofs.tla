------------------------- MODULE RelationWalkProofs -------------------------
(* What a walk's answer promises, for every graph, budget, depth and filter.  *)
EXTENDS RelationWalk, WellFoundedInduction, TLAPS

\* The anime still to be looked at, and an edge that was read.
Pending == {pairs[j][2] : j \in {k \in DOMAIN pairs : Follows(pairs[k])}}

IsEdge(a, pair) == links[a] # Unread /\ \E k \in DOMAIN links[a] : links[a][k] = pair

Open == pc = "walking" \/ Complete

\* The answer is the part of the queue that was taken.
Prefix ==
  /\ Len(found) <= index
  /\ \A i \in DOMAIN found : found[i] = PairOf(queue[i])
  /\ Open => Len(found) = index

\* No anime is queued twice, and only by edges the caller follows.
Distinct ==
  /\ \A i, j \in DOMAIN queue : queue[i].anime = queue[j].anime => i = j
  /\ \A i \in DOMAIN queue : Follows(PairOf(queue[i]))

\* Only the answer has been read, and all of it that was not at the depth limit.
ReadOnly == \A a \in Anime : links[a] # Unread => a \in Found \cup {Root}
ReadAll  == Open /\ stoppedBy = "none" => \A a \in Found \cup {Root} : links[a] # Unread

\* Whatever is queued or still to be looked at was led to by what was read ...
LedTo ==
  /\ \A i \in DOMAIN queue : \E a \in Anime : IsEdge(a, PairOf(queue[i]))
  /\ \A j \in DOMAIN pairs : \E a \in Anime : IsEdge(a, pairs[j])

\* ... and whatever was led to is queued or still to be looked at.
Covered == Open => \A a \in Anime : Successors(a) \subseteq Queued \cup Pending

Least ==
  \A S \in SUBSET Anime : Root \in S /\ IsClosed(S) => Queued \cup Pending \subseteq S

Ended ==
  /\ Complete => pairs = <<>> /\ index = Len(queue)
  /\ Len(found) <= asked.budget
  /\ stoppedBy = "budget" =>
       pc = "returned" /\ Len(found) >= asked.budget /\ Len(found) < Len(queue)
  /\ pc = "ready" => queue = <<>> /\ pairs = <<>> /\ \A a \in Anime : links[a] = Unread

IInv == TypeOK /\ Prefix /\ Distinct /\ ReadOnly /\ ReadAll /\ LedTo /\ Covered /\ Least /\ Ended

-----------------------------------------------------------------------------
(* Type correctness *)

\* The entry to be taken is one.
LEMMA FollowingType ==
  ASSUME TypeOK, IsNext
  PROVE  /\ Following \in Entries
         /\ PairOf(Following) \in Pairs
         /\ index + 1 \in 1 .. Len(queue)
<1>1. index + 1 \in 1 .. Len(queue)
  BY DEF TypeOK, IsNext
<1>2. Following \in Entries
  BY <1>1 DEF TypeOK, Following
<1>3. QED
  BY <1>1, <1>2 DEF Entries, PairOf, Pairs

\* A read keeps the types.
LEMMA ReadsTypes ==
  ASSUME TypeOK, NEW anime \in Anime, NEW answer \in Seq(Pairs), Reads(anime, answer)
  PROVE  /\ links' \in [Anime -> Seq(Pairs) \cup {Unread}]
         /\ pairs' \in Seq(Pairs)
         /\ found' \in Seq(Pairs)
         /\ stoppedBy' \in Stops
         /\ pc' \in {"ready", "walking", "returned", "raised"}
<1>1. CASE \E list \in RelationLists :
             links' = [links EXCEPT ![anime] = list] /\ pairs' = list /\ found' = answer
             /\ pc' = "walking" /\ UNCHANGED stoppedBy
  BY <1>1, WalkAssumption DEF TypeOK
<1>2. CASE /\ pc' \in {"returned", "raised"} /\ stoppedBy' \in {stoppedBy, "unknown anime"}
           /\ UNCHANGED <<links, pairs, found>>
  BY <1>2 DEF TypeOK, Stops
<1>3. QED
  BY <1>1, <1>2 DEF Reads, Ends

\* The pairs still to be looked at are pairs, and so is the first.
LEMMA HeadType ==
  ASSUME TypeOK, pairs # <<>>
  PROVE  Head(pairs) \in Pairs /\ Tail(pairs) \in Seq(Pairs)
BY DEF TypeOK

\* Every step keeps the types.
LEMMA TypeStep == ASSUME TypeOK, [Next]_vars PROVE TypeOK'
<1>1. CASE Begin
  <2>1. UNCHANGED <<asked, queue, index>>
    BY <1>1 DEF Begin
  <2>2. QED
    BY <1>1, <2>1, ReadsTypes, WalkAssumption DEF Begin, TypeOK
<1>2. CASE Consider
  <2>1. Head(pairs) \in Pairs /\ Tail(pairs) \in Seq(Pairs)
    BY <1>2, HeadType DEF Consider
  <2>2. Distance + 1 \in Nat
    <3>1. CASE index = 0
      BY <3>1 DEF Distance
    <3>2. CASE index # 0
      <4>1. index \in DOMAIN queue
        BY <3>2 DEF TypeOK
      <4>2. queue[index] \in Entries
        BY <4>1 DEF TypeOK
      <4>3. QED
        BY <3>2, <4>2 DEF Distance, Entries
    <3>3. QED
      BY <3>1, <3>2
  <2>3. [type |-> Head(pairs)[1], anime |-> Head(pairs)[2], distance |-> Distance + 1] \in Entries
    BY <2>1, <2>2 DEF Entries, Pairs
  <2>4. queue' \in Seq(Entries) /\ Len(queue') >= Len(queue)
    BY <1>2, <2>3 DEF Consider, TypeOK
  <2>5. QED
    BY <1>2, <2>1, <2>4 DEF Consider, TypeOK
<1>3. CASE Stop
  BY <1>3 DEF Stop, Ends, TypeOK, Stops
<1>4. CASE Boundary
  <2>1. Append(found, PairOf(Following)) \in Seq(Pairs) /\ index + 1 \in 0 .. Len(queue)
    BY <1>4, FollowingType DEF Boundary, TypeOK
  <2>2. QED
    BY <1>4, <2>1 DEF Boundary, TypeOK, Stops
<1>5. CASE Visit
  <2>1. Following.anime \in Anime /\ index + 1 \in 0 .. Len(queue)
    BY <1>5, FollowingType DEF Visit, Entries, TypeOK
  <2>2. Append(found, PairOf(Following)) \in Seq(Pairs)
    BY <1>5, FollowingType DEF Visit, TypeOK
  <2>3. UNCHANGED <<asked, queue>> /\ index' = index + 1
    BY <1>5 DEF Visit
  <2>4. QED
    BY <1>5, <2>1, <2>2, <2>3, ReadsTypes DEF Visit, TypeOK
<1>6. CASE Finish
  BY <1>6 DEF Finish, TypeOK
<1>7. CASE UNCHANGED vars
  BY <1>7 DEF vars, TypeOK
<1>8. QED
  BY <1>1, <1>2, <1>3, <1>4, <1>5, <1>6, <1>7 DEF Next

-----------------------------------------------------------------------------
(* The steps, by what they do to the answer and to the queue *)

\* The answer is among what was queued.
LEMMA FoundIsQueued ==
  ASSUME TypeOK, Prefix
  PROVE  Found \subseteq Queued
<1> SUFFICES ASSUME NEW i \in DOMAIN found
             PROVE  found[i][2] \in Queued
  BY DEF Found
<1>1. i \in DOMAIN queue /\ found[i] = PairOf(queue[i])
  BY DEF TypeOK, Prefix
<1>2. QED
  BY <1>1 DEF Queued, PairOf

\* Recording an entry adds its anime to the answer.
LEMMA FoundGrows ==
  ASSUME TypeOK, IsNext, found' = Append(found, PairOf(Following))
  PROVE  Found' = Found \cup {Following.anime}
<1>1. DOMAIN found' = DOMAIN found \cup {Len(found) + 1}
  BY FollowingType DEF TypeOK
<1>2. \A i \in DOMAIN found : found'[i] = found[i]
  BY FollowingType DEF TypeOK
<1>3. found'[Len(found) + 1] = PairOf(Following)
  BY FollowingType DEF TypeOK
<1>4. Found' = {found'[i][2] : i \in DOMAIN found'}
  BY DEF Found
<1>5. QED
  BY <1>1, <1>2, <1>3, <1>4 DEF Found, PairOf

\* A queue that is not touched holds the same anime, and the filters never change.
LEMMA FollowsKept ==
  ASSUME UNCHANGED asked
  PROVE  \A pair : Follows(pair)' = Follows(pair)
BY DEF Follows
\* What a read does, when it answers and when it does not.
LEMMA ReadShape ==
  ASSUME NEW anime, NEW answer, Reads(anime, answer)
  PROVE  \/ /\ \E list \in RelationLists :
                 links' = [links EXCEPT ![anime] = list] /\ pairs' = list
            /\ found' = answer /\ pc' = "walking" /\ stoppedBy' = stoppedBy
         \/ UNCHANGED <<links, pairs, found>> /\ ~Open'
BY DEF Reads, Ends, Open, Complete

\* The caller's bounds are never changed.
LEMMA AskedKept == ASSUME [Next]_vars PROVE asked' = asked
BY DEF Next, Begin, Consider, Stop, Boundary, Visit, Finish, vars

\* Looking at a pair moves it from those to be looked at to the queue, if the
\* caller follows it and it is not there already: nothing is lost.
LEMMA NothingLost ==
  ASSUME TypeOK, Prefix, Consider
  PROVE  Queued' \cup Pending' = Queued \cup Pending
<1> DEFINE h == Head(pairs)
           entry == [type |-> h[1], anime |-> h[2], distance |-> Distance + 1]
<1>1. pairs # <<>> /\ pairs' = Tail(pairs) /\ asked' = asked
  BY DEF Consider
<1>2. h = pairs[1] /\ DOMAIN pairs = 1 .. Len(pairs) /\ Len(pairs) >= 1
  BY <1>1 DEF TypeOK
<1>3. DOMAIN pairs' = 1 .. (Len(pairs) - 1)
  BY <1>1, <1>2 DEF TypeOK
<1>4. \A j \in DOMAIN pairs' : pairs'[j] = pairs[j + 1] /\ j + 1 \in DOMAIN pairs
  BY <1>1, <1>2, <1>3 DEF TypeOK
<1>5. Pending = Pending' \cup (IF Follows(h) THEN {h[2]} ELSE {})
  <2>1. \A pair : Follows(pair)' = Follows(pair)
    BY <1>1, FollowsKept
  <2>2. Pending' = {pairs'[j][2] : j \in {k \in DOMAIN pairs' : Follows(pairs'[k])}}
    BY <1>1 DEF Pending, Follows
  <2>3. Pending' \subseteq Pending
    BY <1>4, <2>2 DEF Pending
  <2>4. \A j \in DOMAIN pairs : j # 1 => j - 1 \in DOMAIN pairs' /\ pairs'[j - 1] = pairs[j]
    BY <1>2, <1>3, <1>4
  <2>5. \A x \in Pending : x \in Pending' \/ (Follows(h) /\ x = h[2])
    <3> SUFFICES ASSUME NEW j \in DOMAIN pairs, Follows(pairs[j])
                 PROVE  pairs[j][2] \in Pending' \/ (Follows(h) /\ pairs[j][2] = h[2])
      BY DEF Pending
    <3>1. CASE j = 1
      BY <3>1, <1>2
    <3>2. CASE j # 1
      BY <3>2, <2>2, <2>4
    <3>3. QED
      BY <3>1, <3>2
  <2>6. Follows(h) => h[2] \in Pending
    BY <1>2 DEF Pending
  <2> HIDE DEF h
  <2>7. QED
    BY <2>3, <2>5, <2>6
<1>6. CASE Followable(h)
  <2>1. queue' = Append(queue, entry)
    BY <1>6 DEF Consider
  <2>2. /\ DOMAIN queue' = DOMAIN queue \cup {Len(queue) + 1}
        /\ \A i \in DOMAIN queue : queue'[i] = queue[i]
        /\ queue'[Len(queue) + 1] = entry
    BY <2>1 DEF TypeOK
  <2>3. Queued' = {queue'[i].anime : i \in DOMAIN queue'}
    BY DEF Queued
  <2>4. entry.anime = h[2]
    OBVIOUS
  <2> HIDE DEF entry, h
  <2>5. Queued' = Queued \cup {h[2]}
    BY <2>2, <2>3, <2>4 DEF Queued
  <2>6. QED
    BY <2>5, <1>5, <1>6 DEF Followable
<1>7. CASE ~Followable(h)
  <2>1. queue' = queue
    BY <1>7 DEF Consider
  <2>2. Queued' = Queued
    BY <2>1 DEF Queued
  <2>3. Follows(h) => h[2] \in Queued
    BY <1>7, FoundIsQueued DEF Followable
  <2> HIDE DEF h
  <2>4. QED
    BY <2>2, <2>3, <1>5
<1>8. QED
  BY <1>6, <1>7
-----------------------------------------------------------------------------
(* The invariant, part by part *)

\* The answer stays the part of the queue that was taken.
LEMMA PrefixStep == ASSUME IInv, [Next]_vars PROVE Prefix'
<1> USE DEF IInv
<1>1. CASE Begin
  <2>1. UNCHANGED <<queue, index, found>> /\ pc = "ready"
    BY <1>1, ReadShape DEF Begin
  <2>2. index = 0 /\ Len(found) = 0
    BY <2>1 DEF Ended, TypeOK, Prefix
  <2>3. QED
    BY <2>1, <2>2 DEF Prefix, PairOf, Open, Complete
<1>2. CASE Consider
  <2>1. UNCHANGED <<index, found, pc, stoppedBy>>
    BY <1>2 DEF Consider
  <2>2. \A i \in DOMAIN queue : queue'[i] = queue[i]
    BY <1>2 DEF Consider, TypeOK
  <2>3. DOMAIN found \subseteq DOMAIN queue
    BY DEF Prefix, TypeOK
  <2>4. QED
    BY <2>1, <2>2, <2>3 DEF Prefix, PairOf, Open, Complete
<1>3. ASSUME Boundary \/ Visit, found' = Append(found, PairOf(Following)), Open
      PROVE  Prefix'
  <2>1. queue' = queue /\ index' = index + 1 /\ IsNext
    BY <1>3 DEF Boundary, Visit
  <2>2. Len(found) = index /\ Len(found') = index + 1 /\ DOMAIN found' = DOMAIN found \cup {index + 1}
    BY <1>3, <2>1, FollowingType DEF Prefix, TypeOK
  <2>3. \A i \in DOMAIN found : found'[i] = found[i]
    BY <1>3, <2>1, FollowingType DEF TypeOK
  <2>4. found'[index + 1] = PairOf(queue[index + 1])
    BY <1>3, <2>1, <2>2, FollowingType DEF TypeOK, Following
  <2>5. QED
    BY <2>1, <2>2, <2>3, <2>4 DEF Prefix, PairOf, TypeOK
<1>4. CASE Boundary
  BY <1>3, <1>4 DEF Boundary, IsNext, Open
<1>5. CASE Visit
  <2>1. Open /\ queue' = queue /\ index' = index + 1
    BY <1>5 DEF Visit, IsNext, Open
  <2>2. CASE found' = Append(found, PairOf(Following))
    BY <1>3, <1>5, <2>1, <2>2
  <2>3. CASE found' = found /\ ~Open'
    BY <2>1, <2>3 DEF Prefix, PairOf, TypeOK
  <2>4. QED
    BY <1>5, <2>2, <2>3, ReadShape DEF Visit, Open, Complete, Reads, Ends
<1>6. CASE Stop
  BY <1>6 DEF Stop, Ends, Prefix, PairOf, Open, Complete
<1>7. CASE Finish
  BY <1>7 DEF Finish, Prefix, PairOf, Open, Complete
<1>8. CASE UNCHANGED vars
  BY <1>8 DEF vars, Prefix, PairOf, Open, Complete
<1>9. QED
  BY <1>1, <1>2, <1>4, <1>5, <1>6, <1>7, <1>8 DEF Next

\* Nothing is queued twice.
LEMMA DistinctStep == ASSUME IInv, [Next]_vars PROVE Distinct'
<1> USE DEF IInv
<1>1. \A pair : Follows(pair)' = Follows(pair)
  BY AskedKept, FollowsKept
<1>2. CASE queue' = queue
  BY <1>1, <1>2, AskedKept DEF Distinct, PairOf, Follows
<1>3. CASE Consider /\ queue' # queue
  <2> DEFINE h == Head(pairs)
             entry == [type |-> h[1], anime |-> h[2], distance |-> Distance + 1]
  <2>1. Followable(h) /\ queue' = Append(queue, entry) /\ pairs # <<>>
    BY <1>3 DEF Consider
  <2>2. /\ DOMAIN queue' = DOMAIN queue \cup {Len(queue) + 1}
        /\ \A i \in DOMAIN queue : queue'[i] = queue[i]
        /\ queue'[Len(queue) + 1] = entry
    BY <2>1 DEF TypeOK
  <2>3. \A i \in DOMAIN queue : queue[i].anime # entry.anime
    BY <2>1 DEF Followable, Queued
  <2>4. h \in Pairs
    BY <2>1, HeadType
  <2>5. h = PairOf(entry)
    BY <2>4 DEF Pairs, PairOf
  <2>6. Follows(PairOf(entry))
    BY <2>1, <2>5 DEF Followable
  <2> HIDE DEF entry, h
  <2>7. \A i, j \in DOMAIN queue' : queue'[i].anime = queue'[j].anime => i = j
    BY <2>2, <2>3 DEF Distinct
  <2>8. \A i \in DOMAIN queue' : Follows(PairOf(queue'[i]))
    BY <2>2, <2>6 DEF Distinct
  <2>9. QED
    BY <2>7, <2>8, <1>1, AskedKept DEF Distinct, Follows, PairOf
<1>4. QED
  BY <1>2, <1>3 DEF Next, Begin, Stop, Boundary, Visit, Finish, vars
\* The entry to be taken is of an anime that is not in the answer and was not read.
LEMMA FollowingUnread ==
  ASSUME IInv, IsNext
  PROVE  /\ Following.anime \in Anime \ (Found \cup {Root})
         /\ links[Following.anime] = Unread
<1> USE DEF IInv
<1>1. Following.anime \in Anime /\ index + 1 \in DOMAIN queue
  BY FollowingType DEF Entries, TypeOK
<1>2. Following.anime # Root
  BY <1>1 DEF Distinct, Follows, PairOf, Following
<1>3. ASSUME NEW i \in DOMAIN found
      PROVE  found[i][2] # Following.anime
  <2>1. found[i][2] = queue[i].anime /\ i \in DOMAIN queue /\ i # index + 1
    BY DEF Prefix, PairOf, TypeOK
  <2>2. QED
    BY <1>1, <2>1 DEF Distinct, Following
<1>4. QED
  BY <1>1, <1>2, <1>3 DEF Found, ReadOnly

\* An anime is read that was not, and looking at its relations begins.
ReadsAnew(a, list) ==
  /\ links[a] = Unread /\ pairs = <<>>
  /\ links' = [links EXCEPT ![a] = list] /\ pairs' = list
  /\ UNCHANGED <<asked, queue, stoppedBy>>
  /\ pc' = "walking"
  /\ \/ a = Root /\ pc = "ready" /\ UNCHANGED <<index, found>>
     \/ IsNext /\ a = Following.anime /\ found' = Append(found, PairOf(Following))

\* Nothing is read or queued.
Quiet ==
  /\ UNCHANGED <<asked, links, queue, pairs>>
  /\ \/ found' = found /\ (Open' => Open /\ stoppedBy' = stoppedBy)
     \/ IsNext /\ found' = Append(found, PairOf(Following)) /\ stoppedBy' = "depth" /\ pc' = pc

\* Every step is one of three.
LEMMA Steps ==
  ASSUME IInv, [Next]_vars
  PROVE  \/ \E a \in Anime, list \in RelationLists : ReadsAnew(a, list)
         \/ Consider
         \/ Quiet
<1> USE DEF IInv
<1>1. CASE Begin
  <2>1. links[Root] = Unread /\ pairs = <<>> /\ pc = "ready" /\ UNCHANGED <<asked, queue, index>>
    BY <1>1, WalkAssumption DEF Begin, Ended
  <2>2. CASE /\ \E list \in RelationLists :
                  links' = [links EXCEPT ![Root] = list] /\ pairs' = list
             /\ found' = found /\ pc' = "walking" /\ stoppedBy' = stoppedBy
    BY <2>1, <2>2, WalkAssumption DEF ReadsAnew
  <2>3. CASE UNCHANGED <<links, pairs, found>> /\ ~Open'
    BY <2>1, <2>3 DEF Quiet
  <2>4. QED
    BY <1>1, <2>2, <2>3 DEF Begin, Reads, Ends, Open, Complete
<1>2. CASE Visit
  <2>1. /\ links[Following.anime] = Unread /\ Following.anime \in Anime /\ pairs = <<>> /\ IsNext
        /\ UNCHANGED <<asked, queue>>
    BY <1>2, FollowingUnread DEF Visit, IsNext
  <2>2. CASE /\ \E list \in RelationLists :
                  links' = [links EXCEPT ![Following.anime] = list] /\ pairs' = list
             /\ found' = Append(found, PairOf(Following)) /\ pc' = "walking" /\ stoppedBy' = stoppedBy
    BY <2>1, <2>2 DEF ReadsAnew
  <2>3. CASE UNCHANGED <<links, pairs, found>> /\ ~Open'
    BY <2>1, <2>3 DEF Quiet
  <2>4. QED
    BY <1>2, <2>2, <2>3 DEF Visit, Reads, Ends, Open, Complete
<1>3. CASE Consider
  BY <1>3
<1>4. CASE Stop
  BY <1>4 DEF Stop, Ends, Quiet, Open, Complete
<1>5. CASE Boundary
  BY <1>5 DEF Boundary, Quiet
<1>6. CASE Finish
  BY <1>6 DEF Finish, Quiet, Open
<1>7. CASE UNCHANGED vars
  BY <1>7 DEF vars, Quiet, Open, Complete
<1>8. QED
  BY <1>1, <1>2, <1>3, <1>4, <1>5, <1>6, <1>7 DEF Next

\* What a new read changes: the pairs to be looked at are all it leads to.
LEMMA ReadEffect ==
  ASSUME IInv, NEW a \in Anime, NEW list \in RelationLists, ReadsAnew(a, list)
  PROVE  /\ Pending = {} /\ Pending' = Successors(a)'
         /\ Queued' = Queued
         /\ Found' \cup {Root} = Found \cup {Root, a}
         /\ links'[a] # Unread
         /\ \A b \in Anime : b # a => links'[b] = links[b] /\ Successors(b)' = Successors(b)
         /\ Successors(a) = {}
<1> USE DEF IInv
<1>1. pairs = <<>> /\ pairs' = list /\ asked' = asked /\ links' = [links EXCEPT ![a] = list]
  BY DEF ReadsAnew
<1>2. links'[a] = list /\ list # Unread
  BY <1>1, WalkAssumption DEF TypeOK
<1>3. Pending = {}
  BY <1>1 DEF Pending
<1>4. Pending' = Successors(a)'
  BY <1>1, <1>2 DEF Pending, Successors
<1>5. Found' \cup {Root} = Found \cup {Root, a}
  <2>1. CASE a = Root /\ found' = found
    BY <2>1 DEF Found
  <2>2. CASE IsNext /\ a = Following.anime /\ found' = Append(found, PairOf(Following))
    BY <2>2, FoundGrows
  <2>3. QED
    BY <2>1, <2>2 DEF ReadsAnew
<1>6. ASSUME NEW b \in Anime, b # a
      PROVE  links'[b] = links[b] /\ Successors(b)' = Successors(b)
  <2>1. links'[b] = links[b]
    BY <1>1, <1>6 DEF TypeOK
  <2>2. QED
    BY <2>1, <1>1 DEF Successors, Follows
<1>7. QED
  BY <1>2, <1>3, <1>4, <1>5, <1>6 DEF ReadsAnew, Queued, Successors

\* A quiet step changes nothing but the answer.
LEMMA QuietEffect ==
  ASSUME IInv, Quiet
  PROVE  /\ Pending' = Pending /\ Queued' = Queued
         /\ \A a \in Anime : Successors(a)' = Successors(a)
         /\ Found \subseteq Found'
         /\ Open' => Open
         /\ Open' /\ stoppedBy' = "none" => Found' = Found /\ Open /\ stoppedBy = "none"
<1> USE DEF IInv
<1>1. Pending' = Pending /\ Queued' = Queued /\ \A a \in Anime : Successors(a)' = Successors(a)
  BY DEF Quiet, Pending, Queued, Successors, Follows
<1>2. CASE found' = found /\ (Open' => Open /\ stoppedBy' = stoppedBy)
  BY <1>1, <1>2 DEF Found
<1>3. CASE /\ IsNext /\ found' = Append(found, PairOf(Following))
           /\ stoppedBy' = "depth" /\ pc' = pc
  BY <1>1, <1>3, FoundGrows DEF IsNext, Open
<1>4. QED
  BY <1>2, <1>3 DEF Quiet
\* Only the answer is read, and all of it but at the depth limit.
LEMMA ReadStep == ASSUME IInv, [Next]_vars PROVE ReadOnly' /\ ReadAll'
<1> USE DEF IInv
<1>1. ASSUME NEW a \in Anime, NEW list \in RelationLists, ReadsAnew(a, list)
      PROVE  ReadOnly' /\ ReadAll'
  <2>1. Found' \cup {Root} = Found \cup {Root, a} /\ links'[a] # Unread
    BY <1>1, ReadEffect
  <2>2. \A b \in Anime : b # a => links'[b] = links[b]
    BY <1>1, ReadEffect
  <2>3. ReadOnly'
    BY <2>1, <2>2 DEF ReadOnly
  <2>4. CASE a = Root /\ pc = "ready" /\ found' = found
    <3>1. Found = {}
      BY <2>4 DEF Ended, Prefix, TypeOK, Found
    <3>2. Found' \cup {Root} = {a}
      BY <2>1, <2>4, <3>1
    <3>3. QED
      BY <2>1, <2>3, <3>2 DEF ReadAll
  <2>5. CASE IsNext
    <3>1. Open /\ stoppedBy' = stoppedBy
      BY <1>1, <2>5 DEF IsNext, Open, ReadsAnew
    <3>2. Found \subseteq Anime
      BY DEF Found, TypeOK, Pairs
    <3>3. QED
      BY <2>1, <2>2, <2>3, <3>1, <3>2, WalkAssumption DEF ReadAll
  <2>6. QED
    BY <1>1, <2>4, <2>5 DEF ReadsAnew
<1>2. CASE Consider
  BY <1>2 DEF Consider, ReadOnly, ReadAll, Found, Open, Complete
<1>3. CASE Quiet
  <2>1. links' = links /\ Found \subseteq Found'
    BY <1>3, QuietEffect DEF Quiet
  <2>2. Open' /\ stoppedBy' = "none" => Found' = Found /\ Open /\ stoppedBy = "none"
    BY <1>3, QuietEffect
  <2>3. QED
    BY <2>1, <2>2 DEF ReadOnly, ReadAll
<1>4. QED
  BY <1>1, <1>2, <1>3, Steps

\* Whatever is queued, or still to be looked at, was led to.
LEMMA LedToStep == ASSUME IInv, [Next]_vars PROVE LedTo'
<1> USE DEF IInv
<1>1. ASSUME NEW a \in Anime, NEW list \in RelationLists, ReadsAnew(a, list)
      PROVE  LedTo'
  <2>1. queue' = queue /\ pairs' = list /\ links' = [links EXCEPT ![a] = list] /\ links[a] = Unread
    BY <1>1 DEF ReadsAnew
  <2>2. links'[a] = list /\ list # Unread /\ \A b \in Anime : b # a => links'[b] = links[b]
    BY <2>1, WalkAssumption DEF TypeOK
  <2>3. ASSUME NEW b \in Anime, NEW pair, IsEdge(b, pair)
        PROVE  IsEdge(b, pair)'
    <3>1. b # a
      BY <2>1, <2>3 DEF IsEdge
    <3>2. links'[b] = links[b]
      BY <2>2, <3>1
    <3>3. QED
      BY <2>3, <3>2 DEF IsEdge
  <2>4. \A i \in DOMAIN queue : \E b \in Anime : IsEdge(b, PairOf(queue[i]))'
    BY <2>1, <2>3 DEF LedTo, PairOf
  <2>5. \A j \in DOMAIN pairs' : \E b \in Anime : IsEdge(b, pairs[j])'
    BY <2>1, <2>2 DEF IsEdge
  <2>6. QED
    BY <2>1, <2>4, <2>5 DEF LedTo
<1>2. CASE Consider
  <2> DEFINE h == Head(pairs)
             entry == [type |-> h[1], anime |-> h[2], distance |-> Distance + 1]
  <2>1. pairs # <<>> /\ pairs' = Tail(pairs) /\ links' = links
    BY <1>2 DEF Consider
  <2>2. \A pair, b \in Anime : IsEdge(b, pair)' <=> IsEdge(b, pair)
    BY <2>1 DEF IsEdge
  <2>3. h = pairs[1] /\ 1 \in DOMAIN pairs
    BY <2>1 DEF TypeOK
  <2>4. \A j \in DOMAIN pairs' : j + 1 \in DOMAIN pairs /\ pairs'[j] = pairs[j + 1]
    BY <2>1 DEF TypeOK
  <2>5. \A j \in DOMAIN pairs' : \E b \in Anime : IsEdge(b, pairs[j])'
    BY <2>1, <2>4 DEF LedTo, IsEdge
  <2>6. CASE queue' = queue
    BY <2>1, <2>5, <2>6 DEF LedTo, IsEdge, PairOf
  <2>7. CASE queue' = Append(queue, entry)
    <3>1. /\ DOMAIN queue' = DOMAIN queue \cup {Len(queue) + 1}
          /\ \A i \in DOMAIN queue : queue'[i] = queue[i]
          /\ queue'[Len(queue) + 1] = entry
      BY <2>7 DEF TypeOK
    <3>2. h \in Pairs
      BY <2>1, HeadType
    <3>3. PairOf(entry) = h
      BY <3>2 DEF Pairs, PairOf
    <3>4. \E b \in Anime : IsEdge(b, PairOf(entry))
      BY <2>3, <3>3 DEF LedTo
    <3> HIDE DEF h, entry
    <3>5. ASSUME NEW i \in DOMAIN queue'
          PROVE  \E b \in Anime : IsEdge(b, PairOf(queue'[i]))
      <4>1. CASE i \in DOMAIN queue
        BY <3>1, <4>1 DEF LedTo
      <4>2. CASE i = Len(queue) + 1
        BY <3>1, <3>4, <4>2
      <4>3. QED
        BY <3>1, <4>1, <4>2
    <3>6. \A i \in DOMAIN queue' : \E b \in Anime : IsEdge(b, PairOf(queue[i]))'
      BY <2>1, <3>5 DEF IsEdge, PairOf
    <3>7. QED
      BY <2>5, <3>6 DEF LedTo
  <2>8. QED
    BY <1>2, <2>6, <2>7 DEF Consider
<1>3. CASE Quiet
  BY <1>3 DEF Quiet, LedTo, IsEdge, PairOf
<1>4. QED
  BY <1>1, <1>2, <1>3, Steps

\* Nothing that was led to is forgotten.
LEMMA CoveredStep == ASSUME IInv, [Next]_vars PROVE Covered'
<1> USE DEF IInv
<1>1. ASSUME NEW a \in Anime, NEW list \in RelationLists, ReadsAnew(a, list)
      PROVE  Covered'
  <2>1. /\ Pending = {} /\ Pending' = Successors(a)' /\ Queued' = Queued
        /\ \A b \in Anime : b # a => Successors(b)' = Successors(b)
    BY <1>1, ReadEffect
  <2>2. CASE pc = "ready"
    <3>1. \A b \in Anime : Successors(b) = {}
      BY <2>2 DEF Ended, Successors
    <3>2. QED
      BY <2>1, <3>1 DEF Covered
  <2>3. CASE IsNext
    BY <2>1, <2>3 DEF Covered, Open, IsNext
  <2>4. QED
    BY <1>1, <2>2, <2>3 DEF ReadsAnew
<1>2. CASE Consider
  <2>1. Queued' \cup Pending' = Queued \cup Pending
    BY <1>2, NothingLost
  <2>2. \A a \in Anime : Successors(a)' = Successors(a)
    BY <1>2 DEF Consider, Successors, Follows
  <2>3. Open' => Open
    BY <1>2 DEF Consider, Open
  <2>4. QED
    BY <2>1, <2>2, <2>3 DEF Covered
<1>3. CASE Quiet
  BY <1>3, QuietEffect DEF Covered
<1>4. QED
  BY <1>1, <1>2, <1>3, Steps

\* Whatever was reached is in every closed set the start is in.
LEMMA LeastStep == ASSUME IInv, [Next]_vars PROVE Least'
<1> USE DEF IInv
<1> SUFFICES ASSUME NEW S \in SUBSET Anime, Root \in S, IsClosed(S)'
             PROVE  Queued' \cup Pending' \subseteq S
  BY DEF Least
<1>0. \A a \in S : Successors(a)' \subseteq S
  BY DEF IsClosed
<1>1. ASSUME NEW a \in Anime, NEW list \in RelationLists, ReadsAnew(a, list)
      PROVE  Queued' \cup Pending' \subseteq S
  <2>1. /\ Pending' = Successors(a)' /\ Queued' = Queued /\ Successors(a) = {}
        /\ \A b \in Anime : b # a => Successors(b)' = Successors(b)
    BY <1>1, ReadEffect
  <2>2. IsClosed(S)
    BY <1>0, <2>1 DEF IsClosed
  <2>3. Queued \subseteq S
    BY <2>2 DEF Least
  <2>4. a \in S
    <3>1. CASE a = Root
      BY <3>1
    <3>2. CASE IsNext /\ a = Following.anime
      <4>1. Following.anime \in Queued
        BY <3>2, FollowingType DEF Queued, Following, TypeOK
      <4>2. QED
        BY <3>2, <4>1, <2>3
    <3>3. QED
      BY <1>1, <3>1, <3>2 DEF ReadsAnew
  <2>5. QED
    BY <1>0, <2>1, <2>3, <2>4
<1>2. CASE Consider
  <2>1. Queued' \cup Pending' = Queued \cup Pending
    BY <1>2, NothingLost
  <2>2. \A a \in Anime : Successors(a)' = Successors(a)
    BY <1>2 DEF Consider, Successors, Follows
  <2>3. IsClosed(S)
    BY <1>0, <2>2 DEF IsClosed
  <2>4. QED
    BY <2>1, <2>3 DEF Least
<1>3. CASE Quiet
  <2>1. IsClosed(S)
    BY <1>0, <1>3, QuietEffect DEF IsClosed
  <2>2. QED
    BY <1>3, <2>1, QuietEffect DEF Least
<1>4. QED
  BY <1>1, <1>2, <1>3, Steps

\* The end of the queue and of the budget.
LEMMA EndedStep == ASSUME IInv, [Next]_vars PROVE Ended'
<1> USE DEF IInv
<1>1. CASE Begin
  BY <1>1, WalkAssumption DEF Begin, Reads, Ends, Ended, Complete
<1>2. CASE Consider
  BY <1>2 DEF Consider, Ended, Complete
<1>3. CASE Stop
  <2>1. Len(found) = index
    BY <1>3 DEF Stop, IsNext, Prefix, Open
  <2>2. QED
    BY <1>3, <2>1 DEF Stop, Ends, IsNext, Spent, Ended, Complete
<1>4. ASSUME Boundary \/ Visit, NEW grown, grown = Append(found, PairOf(Following))
      PROVE  Len(grown) <= asked.budget
  <2>1. Len(found) < asked.budget
    <3>1. ~Spent /\ asked.budget \in Nat
      BY <1>4, WalkAssumption DEF Boundary, Visit, TypeOK, Asked
    <3>2. QED
      BY <3>1 DEF Spent, TypeOK
  <2>2. IsNext /\ asked.budget \in Nat
    BY <1>4, WalkAssumption DEF Boundary, Visit, TypeOK, Asked
  <2>3. QED
    BY <1>4, <2>1, <2>2, FollowingType DEF TypeOK
<1>5. CASE Boundary
  BY <1>4, <1>5 DEF Boundary, IsNext, Ended, Complete
<1>6. CASE Visit
  <2>1. Len(found') <= asked.budget /\ asked' = asked
    BY <1>4, <1>6 DEF Visit, Reads, Ended
  <2>2. QED
    BY <1>6, <2>1 DEF Visit, Reads, Ends, IsNext, Ended, Complete
<1>7. CASE Finish
  BY <1>7 DEF Finish, Ended, Complete
<1>8. CASE UNCHANGED vars
  BY <1>8 DEF vars, Ended, Complete
<1>9. QED
  BY <1>1, <1>2, <1>3, <1>5, <1>6, <1>7, <1>8 DEF Next
-----------------------------------------------------------------------------
(* The theorems *)

\* A walk that has not begun has answered nothing.
LEMMA InitHolds == Init => IInv
<1> SUFFICES ASSUME Init PROVE IInv
  OBVIOUS
<1>1. TypeOK
  BY DEF Init, TypeOK, Stops
<1>2. Found = {} /\ Queued = {} /\ Pending = {}
  BY DEF Init, Found, Queued, Pending
<1>3. \A a \in Anime : links[a] = Unread
  BY DEF Init
<1>4. Prefix /\ Distinct /\ LedTo
  BY DEF Init, Prefix, Distinct, LedTo, Open, Complete
<1>5. ReadOnly /\ ReadAll /\ Covered /\ Least
  BY <1>2, <1>3 DEF Init, ReadOnly, ReadAll, Covered, Least, Open, Complete
<1>6. asked.budget \in Nat
  BY WalkAssumption DEF Init, Asked
<1>7. Ended
  BY <1>3, <1>6 DEF Init, Ended, Complete
<1>8. QED
  BY <1>1, <1>4, <1>5, <1>7 DEF IInv

\* The invariant is inductive.
THEOREM Invariance == Spec => []IInv
<1>1. IInv /\ [Next]_vars => IInv'
  BY TypeStep, PrefixStep, DistinctStep, ReadStep, LedToStep, CoveredStep, LeastStep, EndedStep
  DEF IInv
<1>2. QED
  BY <1>1, InitHolds, PTL DEF Spec

\* Every variable keeps its type.
THEOREM TypeCorrect == Spec => []TypeOK
BY Invariance, PTL DEF IInv

\* A walk that reports no bound has the whole of what the start leads to by the
\* edges the caller follows, on every graph.
THEOREM CompleteAnswerIsWhole == Spec => []CompleteIsAll
<1>1. IInv => CompleteIsAll
  <2> SUFFICES ASSUME IInv, Complete
               PROVE  /\ \A a \in Found \cup {Root} : links[a] # Unread
                      /\ IsClosed(Found \cup {Root})
    BY DEF CompleteIsAll
  <2> USE DEF IInv
  <2>1. Open /\ stoppedBy = "none" /\ pairs = <<>> /\ Len(found) = Len(queue)
    BY DEF Open, Complete, Ended, Prefix
  <2>2. Pending = {}
    BY <2>1 DEF Pending
  <2>3. Queued \subseteq Found
    <3>1. \A i \in DOMAIN queue : i \in DOMAIN found /\ found[i][2] = queue[i].anime
      BY <2>1 DEF Prefix, PairOf, TypeOK
    <3>2. QED
      BY <3>1 DEF Queued, Found
  <2>4. Found \cup {Root} \subseteq Anime
    BY WalkAssumption DEF Found, TypeOK, Pairs
  <2>5. QED
    BY <2>1, <2>2, <2>3, <2>4 DEF ReadAll, Covered, IsClosed
<1>2. QED
  BY <1>1, Invariance, PTL

\* No answer holds an anime the start does not lead to.
THEOREM AnswerIsReachable == Spec => []NothingElse
<1>1. IInv => NothingElse
  BY FoundIsQueued DEF IInv, Least, NothingElse
<1>2. QED
  BY <1>1, Invariance, PTL

\* Each anime is reported once, with an edge it was reached by.
THEOREM AnswerIsReported == Spec => []Reported
<1>1. IInv => Reported
  <2> SUFFICES ASSUME IInv
               PROVE  Reported
    OBVIOUS
  <2> USE DEF IInv
  <2>1. \A i \in DOMAIN found : i \in DOMAIN queue /\ found[i] = PairOf(queue[i])
    BY DEF Prefix, TypeOK
  <2>2. \A i, j \in DOMAIN found : found[i][2] = found[j][2] => i = j
    BY <2>1 DEF Distinct, PairOf
  <2>3. \A i \in DOMAIN found : Follows(found[i])
    BY <2>1 DEF Distinct
  <2>4. ASSUME NEW i \in DOMAIN found
        PROVE  \E a \in Found \cup {Root} :
                 links[a] # Unread /\ \E k \in DOMAIN links[a] : links[a][k] = found[i]
    <3>1. PICK a \in Anime : IsEdge(a, found[i])
      BY <2>1 DEF LedTo
    <3>2. a \in Found \cup {Root}
      BY <3>1 DEF IsEdge, ReadOnly
    <3>3. QED
      BY <3>1, <3>2 DEF IsEdge
  <2>5. QED
    BY <2>2, <2>3, <2>4 DEF Reported
<1>2. QED
  BY <1>1, Invariance, PTL

\* A budget is never exceeded, and one that is reported was spent and cut the answer
\* short.
THEOREM BudgetIsHonest == Spec => []BudgetIsExact
<1>1. IInv => BudgetIsExact
  <2> SUFFICES ASSUME IInv
               PROVE  BudgetIsExact
    OBVIOUS
  <2> USE DEF IInv
  <2>1. Len(found) <= asked.budget
    BY DEF Ended
  <2>2. ASSUME pc = "returned", stoppedBy = "budget"
        PROVE  Len(found) = asked.budget /\ ~IsClosed(Found \cup {Root})
    <3> DEFINE n == Len(found) + 1
    <3>1. Len(found) >= asked.budget /\ n \in DOMAIN queue
      BY <2>2 DEF Ended, TypeOK
    <3>2. Len(found) = asked.budget
      <4>1. asked.budget \in Nat
        BY WalkAssumption DEF TypeOK, Asked
      <4>2. QED
        BY <2>1, <3>1, <4>1 DEF TypeOK
    <3>3. PICK a \in Anime : IsEdge(a, PairOf(queue[n]))
      BY <3>1 DEF LedTo
    <3>4. a \in Found \cup {Root}
      BY <3>3 DEF IsEdge, ReadOnly
    <3>5. queue[n].anime \in Successors(a)
      <4>1. Follows(PairOf(queue[n]))
        BY <3>1 DEF Distinct
      <4>2. PICK k \in DOMAIN links[a] : links[a][k] = PairOf(queue[n])
        BY <3>3 DEF IsEdge
      <4>3. links[a][k][2] \in Successors(a)
        BY <3>3, <4>1, <4>2 DEF IsEdge, Successors
      <4>4. QED
        BY <4>2, <4>3 DEF PairOf
    <3>6. queue[n].anime # Root
      BY <3>1 DEF Distinct, Follows, PairOf
    <3>7. ASSUME NEW i \in DOMAIN found
          PROVE  found[i][2] # queue[n].anime
      <4>1. i \in DOMAIN queue /\ i # n /\ found[i][2] = queue[i].anime
        BY DEF Prefix, PairOf, TypeOK
      <4>2. QED
        BY <3>1, <4>1 DEF Distinct
    <3> HIDE DEF n
    <3>8. queue[n].anime \notin Found \cup {Root}
      BY <3>6, <3>7 DEF Found
    <3>9. QED
      BY <3>2, <3>4, <3>5, <3>8 DEF IsClosed
  <2>3. QED
    BY <2>1, <2>2 DEF BudgetIsExact
<1>2. QED
  BY <1>1, Invariance, PTL

-----------------------------------------------------------------------------
(* How far a walk limited by its depth goes *)

\* Every set of numbers has a smallest one.
LEMMA Smallest ==
  ASSUME NEW T \in SUBSET Nat, T # {}
  PROVE  \E n \in T : \A m \in T : n <= m
<1> DEFINE R == OpToRel(<, Nat)
<1>1. IsWellFoundedOn(R, Nat)
  BY NatLessThanWellFounded
<1>2. \A n, m \in Nat : <<m, n>> \in R <=> m < n
  BY DEF OpToRel
<1> HIDE DEF R
<1>3. PICK n \in T : \A m \in T : <<m, n>> \notin R
  BY <1>1, WFMin
<1>4. ASSUME NEW m \in T PROVE n <= m
  <2>1. n \in Nat /\ m \in Nat
    OBVIOUS
  <2>2. ~(m < n)
    BY <1>2, <1>3, <2>1
  <2>3. QED
    BY <2>1, <2>2
<1>5. QED
  BY <1>4

\* What is within one step more.
Spread(S) == S \cup UNION {Successors(a) : a \in S}

\* W is what is within each number of steps up to n.
IsWithin(W, n) ==
  /\ W \in [0 .. n -> SUBSET Anime] /\ W[0] = {Root}
  /\ \A m \in 1 .. n : W[m] = Spread(W[m - 1])

\* It is a set of anime.
LEMMA SpreadType ==
  ASSUME links \in [Anime -> Seq(Pairs) \cup {Unread}], NEW S \in SUBSET Anime
  PROVE  Spread(S) \in SUBSET Anime
<1>1. \A a \in Anime : Successors(a) \subseteq Anime
  BY DEF Successors, Pairs
<1>2. QED
  BY <1>1 DEF Spread

\* There is such a W for every number.
LEMMA WithinExists ==
  ASSUME links \in [Anime -> Seq(Pairs) \cup {Unread}], NEW n \in Nat
  PROVE  \E W : IsWithin(W, n)
<1> DEFINE T == {m \in Nat : ~\E W : IsWithin(W, m)}
<1> SUFFICES ASSUME T # {} PROVE FALSE
  OBVIOUS
<1>1. PICK m \in T : \A k \in T : m <= k
  BY Smallest
<1>2. m \in Nat /\ ~\E W : IsWithin(W, m)
  OBVIOUS
<1>3. m # 0
  <2> DEFINE W == [k \in 0 .. 0 |-> {Root}]
  <2>1. IsWithin(W, 0)
    BY WalkAssumption DEF IsWithin
  <2>2. QED
    BY <1>2, <2>1
<1>4. m - 1 \in Nat /\ m - 1 \notin T
  BY <1>1, <1>2, <1>3
<1>5. PICK V : IsWithin(V, m - 1)
  BY <1>4
<1> DEFINE W == [k \in 0 .. m |-> IF k = m THEN Spread(V[m - 1]) ELSE V[k]]
<1>6. Spread(V[m - 1]) \in SUBSET Anime
  BY <1>4, <1>5, SpreadType DEF IsWithin
<1>7. IsWithin(W, m)
  <2>1. W \in [0 .. m -> SUBSET Anime]
    BY <1>2, <1>5, <1>6 DEF IsWithin
  <2>2. W[0] = {Root}
    BY <1>2, <1>3, <1>5 DEF IsWithin
  <2>3. ASSUME NEW k \in 1 .. m PROVE W[k] = Spread(W[k - 1])
    <3>1. k - 1 \in 0 .. m /\ k - 1 # m /\ k \in 0 .. m
      BY <1>2
    <3>2. W[k - 1] = V[k - 1]
      BY <3>1
    <3>3. CASE k = m
      BY <3>1, <3>2, <3>3
    <3>4. CASE k # m
      <4>1. k \in 1 .. m - 1
        BY <1>2, <3>4
      <4>2. V[k] = Spread(V[k - 1])
        BY <1>5, <4>1 DEF IsWithin
      <4>3. QED
        BY <3>1, <3>2, <3>4, <4>2
    <3>5. QED
      BY <3>3, <3>4
  <2>4. QED
    BY <2>1, <2>2, <2>3 DEF IsWithin
<1>8. QED
  BY <1>2, <1>7

\* And they agree as far as both go.
LEMMA WithinAgrees ==
  ASSUME NEW n \in Nat, NEW V, NEW W, IsWithin(V, n), IsWithin(W, n + 1)
  PROVE  \A m \in 0 .. n : V[m] = W[m]
<1> DEFINE T == {m \in 0 .. n : V[m] # W[m]}
<1> SUFFICES ASSUME T # {} PROVE FALSE
  OBVIOUS
<1>1. T \in SUBSET Nat
  OBVIOUS
<1>2. PICK m \in T : \A k \in T : m <= k
  BY <1>1, Smallest
<1>3. m \in 0 .. n /\ V[m] # W[m]
  OBVIOUS
<1>4. m # 0
  BY <1>3 DEF IsWithin
<1>5. m - 1 \in 0 .. n /\ m - 1 \notin T
  BY <1>2, <1>3, <1>4
<1>6. V[m - 1] = W[m - 1]
  BY <1>5
<1>7. V[m] = Spread(V[m - 1]) /\ W[m] = Spread(W[m - 1])
  BY <1>3, <1>4 DEF IsWithin
<1>8. QED
  BY <1>3, <1>6, <1>7

\* The recursive definition defines what it says.
LEMMA WithinDoes ==
  ASSUME links \in [Anime -> Seq(Pairs) \cup {Unread}]
  PROVE  /\ Within[0] = {Root}
         /\ \A n \in Nat : Within[n + 1] = Spread(Within[n])
<1> DEFINE Def(W) == [n \in Nat |-> IF n = 0 THEN {Root}
                                    ELSE W[n - 1] \cup UNION {Successors(a) : a \in W[n - 1]}]
           U(n) == CHOOSE W : IsWithin(W, n)
           D == [n \in Nat |-> U(n)[n]]
<1>1. \A n \in Nat : IsWithin(U(n), n)
  BY WithinExists
<1> HIDE DEF U
<1>2. D[0] = {Root}
  BY <1>1 DEF IsWithin
<1>3. ASSUME NEW n \in Nat PROVE D[n + 1] = Spread(D[n])
  <2>1. IsWithin(U(n), n) /\ IsWithin(U(n + 1), n + 1)
    BY <1>1
  <2>2. U(n)[n] = U(n + 1)[n]
    BY <2>1, WithinAgrees
  <2>3. U(n + 1)[n + 1] = Spread(U(n + 1)[n])
    BY <2>1 DEF IsWithin
  <2>4. QED
    BY <2>2, <2>3
<1>4. D = Def(D)
  <2>1. ASSUME NEW n \in Nat, n # 0 PROVE D[n] = Spread(D[n - 1])
    <3>1. n - 1 \in Nat /\ n = (n - 1) + 1
      BY <2>1
    <3>2. QED
      BY <1>3, <3>1
  <2>2. \A n \in Nat : D[n] = Def(D)[n]
    BY <1>2, <2>1 DEF Spread
  <2>3. QED
    BY <2>2
<1> HIDE DEF D
<1>5. Within = CHOOSE W : W = Def(W)
  BY DEF Within
<1>6. Within = Def(Within)
  BY <1>4, <1>5
<1>7. QED
  BY <1>6 DEF Spread

\* How far from the start an anime was reached, and the depth the walk goes to.
Reached(a, d) ==
  (a = Root /\ d = 0) \/ \E i \in DOMAIN queue : queue[i].anime = a /\ queue[i].distance = d

Limit == IF asked.depth = 0 THEN 1 ELSE asked.depth

\* The queue goes outward, by one step at a time.
Outward ==
  /\ \A i \in DOMAIN queue : queue[i].distance >= 1 /\ queue[i].distance <= Distance + 1
  /\ \A i, j \in DOMAIN queue : i < j => queue[i].distance <= queue[j].distance

\* Each entry was led to from one step nearer, as is what is still to be looked at ...
FromNearer ==
  /\ \A i \in DOMAIN queue : \E a \in Anime : /\ IsEdge(a, PairOf(queue[i]))
                                              /\ Reached(a, queue[i].distance - 1)
  /\ \A j \in DOMAIN pairs : \E a \in Anime : IsEdge(a, pairs[j]) /\ Reached(a, Distance)

\* ... and whatever an anime leads to was reached within a step of it, or will be.
StepsBeyond ==
  \A a \in Anime : \A d \in Nat : Reached(a, d) =>
    \A b \in Successors(a) : \/ \E e \in Nat : e <= d + 1 /\ Reached(b, e)
                             \/ b \in Pending /\ d = Distance

\* Nothing is queued beyond the depth.
InDepth ==
  asked.depth # NoBound =>
    /\ \A i \in DOMAIN queue : queue[i].distance <= Limit
    /\ pairs # <<>> => Distance < Limit

\* All that was taken nearer than the depth has been read.
Walked == pc = "walking" \/ (pc = "returned" /\ stoppedBy \in {"none", "depth"})

ReadNearer ==
  /\ Walked =>
       /\ Len(found) = index
       /\ links[Root] # Unread
       /\ \A i \in 1 .. index : \/ links[queue[i].anime] # Unread
                                \/ asked.depth # NoBound /\ queue[i].distance >= asked.depth
  /\ Walked /\ pc = "returned" => pairs = <<>> /\ index = Len(queue)

DInv == Outward /\ FromNearer /\ StepsBeyond /\ InDepth /\ ReadNearer

\* How far the anime being read is, is a number.
LEMMA DistanceType ==
  ASSUME TypeOK
  PROVE  /\ Distance \in Nat /\ (index # 0 => index \in DOMAIN queue)
         /\ \A i \in DOMAIN queue : queue[i] \in Entries /\ queue[i].distance \in Nat
<1>1. ASSUME NEW i \in DOMAIN queue PROVE queue[i] \in Entries /\ queue[i].distance \in Nat
  <2>1. queue[i] \in Entries
    BY DEF TypeOK
  <2>2. QED
    BY <2>1 DEF Entries
<1>2. index # 0 => index \in DOMAIN queue
  BY DEF TypeOK
<1>3. QED
  BY <1>1, <1>2 DEF Distance

\* Nothing queued is moved, and nothing read is forgotten.
LEMMA Grows ==
  ASSUME IInv, [Next]_vars
  PROVE  /\ \A i \in DOMAIN queue : i \in DOMAIN queue' /\ queue'[i] = queue[i]
         /\ \A a \in Anime : links[a] # Unread => links'[a] = links[a]
         /\ \A a, d : Reached(a, d) => Reached(a, d)'
         /\ \A a \in Anime : \A pair : IsEdge(a, pair) => IsEdge(a, pair)'
<1> USE DEF IInv
<1>1. \A i \in DOMAIN queue : i \in DOMAIN queue' /\ queue'[i] = queue[i]
  <2>1. CASE queue' = queue
    BY <2>1
  <2>2. CASE Consider /\ queue' # queue
    BY <2>2 DEF Consider, TypeOK
  <2>3. QED
    BY <2>1, <2>2 DEF Next, Begin, Stop, Boundary, Visit, Finish, vars
<1>2. \A a \in Anime : links[a] # Unread => links'[a] = links[a]
  <2>1. ASSUME NEW b \in Anime, NEW list \in RelationLists, ReadsAnew(b, list)
        PROVE  \A a \in Anime : links[a] # Unread => links'[a] = links[a]
    BY <2>1 DEF ReadsAnew, TypeOK
  <2>2. CASE Consider \/ Quiet
    BY <2>2 DEF Consider, Quiet
  <2>3. QED
    BY <2>1, <2>2, Steps
<1>3. \A a, d : Reached(a, d) => Reached(a, d)'
  BY <1>1 DEF Reached
<1>4. \A a \in Anime : \A pair : IsEdge(a, pair) => IsEdge(a, pair)'
  BY <1>2 DEF IsEdge
<1>5. QED
  BY <1>1, <1>2, <1>3, <1>4

\* The next entry is taken, or how far the walk is stays as it is.
LEMMA Takes ==
  ASSUME IInv, [Next]_vars
  PROVE  \/ index' = index /\ found' = found /\ Distance' = Distance
         \/ /\ IsNext /\ index' = index + 1 /\ queue' = queue /\ Distance' = Following.distance
            /\ Distance <= Distance' \/ ~Outward
<1> USE DEF IInv
<1>1. CASE Boundary \/ Visit
  <2>1. IsNext /\ index' = index + 1 /\ queue' = queue
    BY <1>1 DEF Boundary, Visit
  <2>2. index \in Nat /\ index + 1 \in DOMAIN queue
    BY <2>1, FollowingType DEF TypeOK
  <2>3. Distance' = Following.distance
    BY <2>1, <2>2 DEF Distance, Following
  <2>4. Outward => Distance <= Following.distance
    BY <2>2, DistanceType DEF Outward, Distance, Following
  <2>5. QED
    BY <2>1, <2>3, <2>4
<1>2. CASE Begin \/ Consider \/ Stop \/ Finish \/ UNCHANGED vars
  <2>1. index' = index /\ found' = found
    BY <1>2, ReadShape DEF Begin, Consider, Stop, Finish, vars
  <2>2. Distance' = Distance
    BY <2>1, DistanceType, Grows DEF Distance
  <2>3. QED
    BY <2>1, <2>2
<1>3. QED
  BY <1>1, <1>2 DEF Next

\* What a look at a pair puts into the queue.
LEMMA ConsiderDoes ==
  ASSUME IInv, Consider
  PROVE  /\ pairs # <<>> /\ asked' = asked /\ links' = links /\ Distance' = Distance
         /\ pairs' = Tail(pairs)
         /\ \A j \in DOMAIN pairs' : j + 1 \in DOMAIN pairs /\ pairs'[j] = pairs[j + 1]
         /\ \/ queue' = queue
            \/ /\ Followable(pairs[1]) /\ pairs[1] \in Pairs /\ 1 \in DOMAIN pairs
               /\ DOMAIN queue' = DOMAIN queue \cup {Len(queue) + 1}
               /\ \A i \in DOMAIN queue : queue'[i] = queue[i] /\ i < Len(queue) + 1
               /\ PairOf(queue'[Len(queue) + 1]) = pairs[1]
               /\ queue'[Len(queue) + 1].anime = pairs[1][2]
               /\ queue'[Len(queue) + 1].distance = Distance + 1
<1> USE DEF IInv
<1> DEFINE h == Head(pairs)
           entry == [type |-> h[1], anime |-> h[2], distance |-> Distance + 1]
<1>1. pairs # <<>> /\ asked' = asked /\ links' = links /\ pairs' = Tail(pairs) /\ index' = index
  BY DEF Consider
<1>2. Distance' = Distance
  <2>1. [Next]_vars
    BY DEF Next
  <2>2. index # 0 => queue'[index] = queue[index]
    BY <2>1, DistanceType, Grows
  <2>3. QED
    BY <1>1, <2>2 DEF Distance
<1>3. \A j \in DOMAIN pairs' : j + 1 \in DOMAIN pairs /\ pairs'[j] = pairs[j + 1]
  BY <1>1 DEF TypeOK
<1>4. h = pairs[1] /\ h \in Pairs /\ 1 \in DOMAIN pairs
  BY <1>1, HeadType DEF TypeOK
<1>5. CASE queue' = Append(queue, entry) /\ Followable(h)
  <2>1. /\ DOMAIN queue' = DOMAIN queue \cup {Len(queue) + 1}
        /\ \A i \in DOMAIN queue : queue'[i] = queue[i] /\ i < Len(queue) + 1
        /\ queue'[Len(queue) + 1] = entry
    BY <1>5 DEF TypeOK
  <2>2. PairOf(entry) = h /\ entry.anime = h[2] /\ entry.distance = Distance + 1
    BY <1>4 DEF Pairs, PairOf
  <2> HIDE DEF entry, h
  <2>3. QED
    BY <1>1, <1>2, <1>3, <1>4, <1>5, <2>1, <2>2
<1>6. QED
  BY <1>1, <1>2, <1>3, <1>5 DEF Consider

\* The queue goes on outward.
LEMMA OutwardStep == ASSUME IInv, DInv, [Next]_vars PROVE Outward'
<1> USE DEF IInv, DInv
<1>1. Distance \in Nat /\ \A i \in DOMAIN queue : queue[i].distance \in Nat
  BY DistanceType
<1>2. CASE queue' = queue
  <2>1. Distance <= Distance'
    BY <1>1, Takes
  <2>2. Distance' \in Nat
    BY <1>1, Takes, FollowingType DEF Following, TypeOK
  <2>3. QED
    BY <1>1, <1>2, <2>1, <2>2 DEF Outward
<1>3. CASE Consider /\ queue' # queue
  <2> DEFINE n == Len(queue) + 1
  <2>1. /\ Distance' = Distance /\ DOMAIN queue' = DOMAIN queue \cup {n}
        /\ \A i \in DOMAIN queue : queue'[i] = queue[i] /\ i < n
        /\ queue'[n].distance = Distance + 1
    BY <1>3, ConsiderDoes
  <2>2. n \in Nat /\ DOMAIN queue \subseteq Nat
    BY DEF TypeOK
  <2> HIDE DEF n
  <2>3. QED
    BY <1>1, <2>1, <2>2 DEF Outward
<1>4. QED
  BY <1>2, <1>3 DEF Next, Begin, Stop, Boundary, Visit, Finish, vars

\* An anime whose relations begin to be looked at is as far as the walk is.
LEMMA ReadsHere ==
  ASSUME IInv, [Next]_vars, NEW a \in Anime, NEW list \in RelationLists, ReadsAnew(a, list)
  PROVE  Reached(a, Distance)'
<1> USE DEF IInv
<1>1. CASE a = Root /\ pc = "ready" /\ UNCHANGED <<index, found>>
  <2>1. index = 0
    BY <1>1 DEF Ended, TypeOK
  <2>2. Distance' = 0
    BY <1>1, <2>1 DEF Distance
  <2>3. QED
    BY <1>1, <2>2 DEF Reached
<1>2. CASE IsNext /\ a = Following.anime /\ found' = Append(found, PairOf(Following))
  <2>1. found' # found
    BY <1>2, FollowingType DEF TypeOK
  <2>2. queue' = queue /\ Distance' = Following.distance
    BY <2>1, Takes
  <2>3. index + 1 \in DOMAIN queue
    BY <1>2, FollowingType DEF TypeOK
  <2>4. QED
    BY <1>2, <2>2, <2>3 DEF Reached, Following
<1>3. QED
  BY <1>1, <1>2 DEF ReadsAnew

\* What is queued or still to be looked at was led to from where it says.
LEMMA FromNearerStep == ASSUME IInv, DInv, [Next]_vars PROVE FromNearer'
<1> USE DEF IInv, DInv
<1>1. ASSUME NEW i \in DOMAIN queue
      PROVE  \E a \in Anime : IsEdge(a, PairOf(queue[i]))' /\ Reached(a, queue[i].distance - 1)'
  <2>1. PICK a \in Anime : IsEdge(a, PairOf(queue[i])) /\ Reached(a, queue[i].distance - 1)
    BY DEF FromNearer
  <2>2. queue'[i] = queue[i]
    BY Grows
  <2>3. links[a] # Unread /\ links'[a] = links[a]
    BY <2>1, Grows DEF IsEdge
  <2>4. IsEdge(a, PairOf(queue[i]))'
    BY <2>1, <2>2, <2>3 DEF IsEdge, PairOf
  <2>5. Reached(a, queue[i].distance - 1)'
    <3>1. \A k \in DOMAIN queue : k \in DOMAIN queue' /\ queue'[k] = queue[k]
      BY Grows
    <3>2. QED
      BY <2>1, <2>2, <3>1 DEF Reached
  <2>6. QED
    BY <2>4, <2>5
<1>2. ASSUME NEW a \in Anime, NEW list \in RelationLists, ReadsAnew(a, list)
      PROVE  FromNearer'
  <2>1. queue' = queue /\ pairs' = list /\ links'[a] = list /\ list # Unread
    BY <1>2, WalkAssumption DEF ReadsAnew, TypeOK
  <2>2. \A j \in DOMAIN pairs' : IsEdge(a, pairs[j])'
    BY <2>1 DEF IsEdge
  <2>3. Reached(a, Distance)'
    BY <1>2, ReadsHere
  <2>4. QED
    BY <1>1, <2>1, <2>2, <2>3 DEF FromNearer
<1>3. CASE Consider
  <2>1. ASSUME NEW j \in DOMAIN pairs'
        PROVE  \E a \in Anime : IsEdge(a, pairs[j])' /\ Reached(a, Distance)'
    <3>1. j + 1 \in DOMAIN pairs /\ pairs'[j] = pairs[j + 1] /\ Distance' = Distance
      BY <1>3, ConsiderDoes
    <3>2. PICK a \in Anime : IsEdge(a, pairs[j + 1]) /\ Reached(a, Distance)
      BY <3>1 DEF FromNearer
    <3>3. links' = links /\ \A k \in DOMAIN queue : k \in DOMAIN queue' /\ queue'[k] = queue[k]
      BY <1>3, ConsiderDoes, Grows
    <3>4. IsEdge(a, pairs[j])'
      BY <3>1, <3>2, <3>3 DEF IsEdge
    <3>5. Reached(a, Distance)'
      BY <3>1, <3>2, <3>3 DEF Reached
    <3>6. QED
      BY <3>4, <3>5
  <2>2. CASE queue' = queue
    BY <1>1, <2>1, <2>2 DEF FromNearer
  <2>3. CASE queue' # queue
    <3>0. PICK n : n = Len(queue) + 1
      OBVIOUS
    <3>1. /\ 1 \in DOMAIN pairs /\ DOMAIN queue' = DOMAIN queue \cup {n}
          /\ PairOf(queue'[n]) = pairs[1] /\ queue'[n].distance = Distance + 1
      BY <1>3, <2>3, <3>0, ConsiderDoes
    <3>2. PICK a \in Anime : IsEdge(a, pairs[1]) /\ Reached(a, Distance)
      BY <3>1 DEF FromNearer
    <3>3. queue'[n].distance - 1 = Distance
      BY <3>1, DistanceType
    <3>4. IsEdge(a, PairOf(queue[n]))'
      <4>1. links' = links /\ links[a] # Unread
        BY <1>3, <3>2, ConsiderDoes DEF IsEdge
      <4>2. QED
        BY <3>1, <3>2, <4>1 DEF IsEdge, PairOf
    <3>5. Reached(a, queue[n].distance - 1)'
      <4>1. \A k \in DOMAIN queue : k \in DOMAIN queue' /\ queue'[k] = queue[k]
        BY Grows
      <4>2. QED
        BY <3>2, <3>3, <4>1 DEF Reached
    <3>6. ASSUME NEW i \in DOMAIN queue'
          PROVE  \E b \in Anime : IsEdge(b, PairOf(queue[i]))' /\ Reached(b, queue[i].distance - 1)'
      <4>1. i \in DOMAIN queue \/ i = n
        BY <3>1
      <4>2. QED
        BY <1>1, <3>4, <3>5, <4>1
    <3>7. QED
      BY <2>1, <3>6 DEF FromNearer
  <2>4. QED
    BY <2>2, <2>3
<1>4. CASE Quiet
  <2>1. queue' = queue /\ pairs' = pairs /\ links' = links
    BY <1>4 DEF Quiet
  <2>2. pairs = <<>> \/ Distance' = Distance
    BY Takes DEF IsNext
  <2>3. ASSUME NEW j \in DOMAIN pairs
        PROVE  \E a \in Anime : IsEdge(a, pairs[j])' /\ Reached(a, Distance)'
    <3>1. PICK a \in Anime : IsEdge(a, pairs[j]) /\ Reached(a, Distance)
      BY DEF FromNearer
    <3>2. Distance' = Distance
      BY <2>2
    <3>3. QED
      BY <2>1, <3>1, <3>2 DEF IsEdge, Reached
  <2>4. QED
    BY <1>1, <2>1, <2>3 DEF FromNearer
<1>5. QED
  BY <1>2, <1>3, <1>4, Steps

\* An anime is reached at one distance.
LEMMA ReachedOnce ==
  ASSUME TypeOK, Distinct, NEW a, NEW d, NEW e, Reached(a, d), Reached(a, e)
  PROVE  d = e
<1>1. \A i \in DOMAIN queue : queue[i].anime # Root
  BY DEF Distinct, Follows, PairOf
<1>2. QED
  BY <1>1 DEF Distinct, Reached

\* What an anime leads to is a step further at most, or is still to be looked at.
LEMMA StepsBeyondStep == ASSUME IInv, DInv, [Next]_vars PROVE StepsBeyond'
<1> USE DEF IInv, DInv
<1>1. TypeOK' /\ Distinct' /\ Outward'
  BY TypeStep, DistinctStep, OutwardStep
<1>2. Distance \in Nat
  BY DistanceType
<1>3. \A a, d : Reached(a, d) => Reached(a, d)'
  BY Grows
<1>4. ASSUME NEW c \in Anime, NEW list \in RelationLists, ReadsAnew(c, list)
      PROVE  StepsBeyond'
  <2>1. /\ Pending = {} /\ Pending' = Successors(c)' /\ queue' = queue
        /\ \A b \in Anime : b # c => Successors(b)' = Successors(b)
    BY <1>4, ReadEffect DEF ReadsAnew
  <2>2. Reached(c, Distance)'
    BY <1>4, ReadsHere
  <2>3. \A a, d : Reached(a, d)' <=> Reached(a, d)
    BY <2>1 DEF Reached
  <2>4. ASSUME NEW a \in Anime, NEW d \in Nat, Reached(a, d)', NEW b \in Successors(a)'
        PROVE  \/ \E e \in Nat : e <= d + 1 /\ Reached(b, e)'
               \/ b \in Pending' /\ d = Distance'
    <3>1. CASE a # c
      BY <2>1, <2>3, <2>4, <3>1 DEF StepsBeyond
    <3>2. CASE a = c
      <4>1. PICK f : f = Distance'
        OBVIOUS
      <4>2. Reached(c, f)'
        BY <2>2, <4>1 DEF Reached
      <4>3. Reached(c, f) /\ Reached(c, d)
        BY <2>3, <2>4, <3>2, <4>2
      <4>4. d = f
        BY <4>3, ReachedOnce
      <4>5. QED
        BY <2>1, <2>4, <3>2, <4>1, <4>4
    <3>3. QED
      BY <3>1, <3>2
  <2>5. QED
    BY <2>4 DEF StepsBeyond
<1>5. CASE Consider
  <2>1. Distance' = Distance /\ pairs # <<>> /\ [Next]_vars
    BY <1>5, ConsiderDoes
  <2>2. \A a \in Anime : Successors(a)' = Successors(a)
    BY <1>5 DEF Consider, Successors, Follows
  <2>3. Queued' \cup Pending' = Queued \cup Pending
    BY <1>5, NothingLost
  <2>4. \A a \in Anime, d \in Nat : Reached(a, d)' => Reached(a, d) \/ Successors(a) = {}
    <3>1. CASE queue' = queue
      BY <3>1 DEF Reached
    <3>2. CASE queue' # queue
      <4>0. PICK n : n = Len(queue) + 1
        OBVIOUS
      <4>1. /\ Followable(pairs[1]) /\ pairs[1] \in Pairs /\ DOMAIN queue' = DOMAIN queue \cup {n}
            /\ \A i \in DOMAIN queue : queue'[i] = queue[i]
            /\ queue'[n].anime = pairs[1][2]
        BY <1>5, <3>2, <4>0, ConsiderDoes
      <4>2. pairs[1][2] \in Anime \ (Found \cup {Root})
        BY <4>1 DEF Followable, Follows, Pairs
      <4>3. links[pairs[1][2]] = Unread
        BY <4>2 DEF ReadOnly
      <4>4. Successors(pairs[1][2]) = {}
        BY <4>3 DEF Successors
      <4>5. QED
        BY <4>1, <4>4 DEF Reached
    <3>3. QED
      BY <3>1, <3>2
  <2>5. ASSUME NEW b \in Pending, b \notin Pending'
        PROVE  \E e \in Nat : e <= Distance + 1 /\ Reached(b, e)'
    <3>1. b \in Queued'
      BY <2>3, <2>5
    <3>2. PICK i \in DOMAIN queue' : queue'[i].anime = b
      BY <3>1 DEF Queued
    <3>3. PICK e : e = queue'[i].distance
      OBVIOUS
    <3>4. queue'[i] \in Entries
      BY <1>1 DEF TypeOK
    <3>5. e \in Nat /\ e <= Distance + 1
      BY <1>1, <2>1, <3>3, <3>4 DEF Outward, Entries
    <3>6. Reached(b, e)'
      BY <3>2, <3>3 DEF Reached
    <3>7. QED
      BY <3>5, <3>6
  <2>6. ASSUME NEW a \in Anime, NEW d \in Nat, Reached(a, d)', NEW b \in Successors(a)'
        PROVE  \/ \E e \in Nat : e <= d + 1 /\ Reached(b, e)'
               \/ b \in Pending' /\ d = Distance'
    <3>1. b \in Successors(a) /\ Reached(a, d)
      BY <2>2, <2>4, <2>6
    <3>2. CASE \E e \in Nat : e <= d + 1 /\ Reached(b, e)
      BY <1>3, <3>2
    <3>3. CASE b \in Pending /\ d = Distance
      BY <2>1, <2>5, <3>3
    <3>4. QED
      BY <3>1, <3>2, <3>3 DEF StepsBeyond
  <2>7. QED
    BY <2>6 DEF StepsBeyond
<1>6. CASE Quiet
  <2>1. queue' = queue /\ pairs' = pairs /\ Pending' = Pending
    BY <1>6, QuietEffect DEF Quiet
  <2>2. \A a \in Anime : Successors(a)' = Successors(a)
    BY <1>6, QuietEffect
  <2>3. pairs = <<>> \/ Distance' = Distance
    BY Takes DEF IsNext
  <2>4. Pending = {} \/ Distance' = Distance
    BY <2>3 DEF Pending
  <2>5. \A a, d : Reached(a, d)' <=> Reached(a, d)
    BY <2>1 DEF Reached
  <2>6. QED
    BY <2>1, <2>2, <2>4, <2>5 DEF StepsBeyond
<1>7. QED
  BY <1>4, <1>5, <1>6, Steps

\* A depth the caller gives is a number, and so is the one walked.
LEMMA LimitType ==
  ASSUME TypeOK, asked.depth # NoBound
  PROVE  asked.depth \in Nat /\ Limit \in Nat \ {0} /\ asked.depth <= Limit
<1>1. asked.depth \in Nat
  BY WalkAssumption DEF TypeOK, Asked
<1>2. QED
  BY <1>1 DEF Limit

\* Nothing beyond the depth is ever queued.
LEMMA InDepthStep == ASSUME IInv, DInv, [Next]_vars PROVE InDepth'
<1> USE DEF IInv, DInv
<1>1. asked' = asked /\ Limit' = Limit
  BY AskedKept DEF Limit
<1> SUFFICES ASSUME asked.depth # NoBound
             PROVE  /\ \A i \in DOMAIN queue' : queue'[i].distance <= Limit
                    /\ pairs' # <<>> => Distance' < Limit
  BY <1>1 DEF InDepth
<1>2. asked.depth \in Nat /\ Limit \in Nat \ {0} /\ asked.depth <= Limit /\ Distance \in Nat
  BY LimitType, DistanceType
<1>3. CASE Begin
  <2>1. queue' = queue /\ index' = 0
    BY <1>3 DEF Begin, Ended, TypeOK
  <2>2. Distance' = 0
    BY <2>1 DEF Distance
  <2>3. QED
    BY <1>2, <2>1, <2>2 DEF InDepth
<1>4. CASE Consider
  <2>1. Distance' = Distance /\ Distance < Limit
    BY <1>4, ConsiderDoes DEF InDepth
  <2>2. \A i \in DOMAIN queue' : queue'[i].distance <= Limit
    <3>1. CASE queue' = queue
      BY <3>1 DEF InDepth
    <3>2. CASE queue' # queue
      <4>0. PICK n : n = Len(queue) + 1
        OBVIOUS
      <4>1. /\ DOMAIN queue' = DOMAIN queue \cup {n}
            /\ \A i \in DOMAIN queue : queue'[i] = queue[i]
            /\ queue'[n].distance = Distance + 1
        BY <1>4, <3>2, <4>0, ConsiderDoes
      <4>2. QED
        BY <1>2, <2>1, <4>1 DEF InDepth
    <3>3. QED
      BY <3>1, <3>2
  <2>3. QED
    BY <2>1, <2>2
<1>5. CASE Visit
  <2>1. queue' = queue /\ IsNext /\ ~TooFar /\ index' = index + 1 /\ index \in Nat
    BY <1>5 DEF Visit, TypeOK
  <2>2. Following.distance \in Nat
    BY <2>1, FollowingType DEF Entries
  <2>3. Following.distance < Limit
    BY <1>2, <2>1, <2>2 DEF TooFar
  <2>4. Distance' = Following.distance
    BY <2>1 DEF Distance, Following
  <2>5. QED
    BY <2>1, <2>3, <2>4 DEF InDepth
<1>6. CASE Boundary
  BY <1>6 DEF Boundary, IsNext, InDepth
<1>7. CASE Stop \/ Finish \/ UNCHANGED vars
  BY <1>7 DEF Stop, Finish, vars, InDepth, Distance
<1>8. QED
  BY <1>3, <1>4, <1>5, <1>6, <1>7 DEF Next

\* What has been taken is in the answer, and read unless it is at the depth.
LEMMA ReadNearerStep == ASSUME IInv, DInv, [Next]_vars PROVE ReadNearer'
<1> USE DEF IInv, DInv
<1>1. asked' = asked
  BY AskedKept
<1>2. \A a \in Anime : links[a] # Unread => links'[a] # Unread
  BY Grows
<1>3. \A i \in DOMAIN queue : queue'[i] = queue[i] /\ queue[i].anime \in Anime
  <2>1. ASSUME NEW i \in DOMAIN queue PROVE queue[i].anime \in Anime
    BY DistanceType DEF Entries
  <2>2. QED
    BY <2>1, Grows
<1>4. 1 .. index \subseteq DOMAIN queue
  BY DEF TypeOK
<1> DEFINE Done(i) == \/ links[queue[i].anime] # Unread
                      \/ asked.depth # NoBound /\ queue[i].distance >= asked.depth
<1>5. ASSUME NEW i \in DOMAIN queue, Done(i)
      PROVE  Done(i)'
  BY <1>1, <1>2, <1>3, <1>5
<1>6. Walked /\ links[Root] # Unread => links'[Root] # Unread
  BY <1>2, WalkAssumption
<1>7. CASE Begin
  <2>1. pc = "ready" /\ index' = index /\ index = 0 /\ Len(found) = 0
    BY <1>7 DEF Begin, Ended, TypeOK, Prefix
  <2>2. CASE Walked'
    <3>1. \E list \in RelationLists :
            links' = [links EXCEPT ![Root] = list] /\ pc' = "walking" /\ found' = found
      BY <1>7, <2>1, <2>2 DEF Begin, Reads, Ends, Walked
    <3>2. links'[Root] # Unread
      BY <3>1, WalkAssumption DEF TypeOK
    <3>3. QED
      BY <2>1, <3>1, <3>2 DEF ReadNearer
  <2>3. QED
    BY <2>2 DEF ReadNearer
<1>8. CASE Consider
  <2>1. UNCHANGED <<asked, links, index, found, stoppedBy, pc>> /\ Walked
    BY <1>8 DEF Consider, Walked
  <2>2. pc' # "returned"
    BY <1>8 DEF Consider
  <2>3. \A i \in 1 .. index : Done(i)'
    BY <1>4, <1>5, <2>1 DEF ReadNearer
  <2>4. QED
    BY <2>1, <2>2, <2>3 DEF ReadNearer
<1>9. ASSUME IsNext, UNCHANGED <<asked, queue>>, index' = index + 1, pc' = "walking",
             found' = Append(found, PairOf(Following)), NEW n, n = index + 1, Done(n)'
      PROVE  ReadNearer'
  <2>1. Walked /\ Len(found') = Len(found) + 1
    BY <1>9, FollowingType DEF Walked, IsNext, TypeOK
  <2>2. \A i \in 1 .. index + 1 : Done(i)'
    <3>1. \A i \in 1 .. index : Done(i)'
      BY <1>4, <1>5, <2>1 DEF ReadNearer
    <3>2. \A i \in 1 .. index + 1 : i \in 1 .. index \/ i = index + 1
      BY DEF TypeOK
    <3> HIDE DEF Done
    <3>3. QED
      BY <1>9, <3>1, <3>2
  <2>3. QED
    BY <1>6, <1>9, <2>1, <2>2 DEF ReadNearer
<1>10. CASE Boundary
  <2>1. PICK n : n = index + 1
    OBVIOUS
  <2>2. Done(n)'
    BY <1>10, <2>1 DEF Boundary, TooFar, Following
  <2>3. QED
    BY <1>9, <1>10, <2>1, <2>2 DEF Boundary, IsNext
<1>11. CASE Visit
  <2>1. CASE Walked'
    <3>1. PICK list \in RelationLists :
            links' = [links EXCEPT ![Following.anime] = list] /\ pc' = "walking"
            /\ found' = Append(found, PairOf(Following))
      BY <1>11, <2>1 DEF Visit, Reads, Ends, Walked
    <3>2. Following.anime \in Anime /\ IsNext
      BY <1>11, FollowingType DEF Visit, Entries
    <3>3. links'[Following.anime] # Unread /\ queue' = queue
      BY <1>11, <3>1, <3>2, WalkAssumption DEF Visit, TypeOK
    <3>4. PICK n : n = index + 1
      OBVIOUS
    <3>5. Done(n)'
      BY <1>11, <3>3, <3>4 DEF Visit, Following
    <3>6. QED
      BY <1>9, <1>11, <3>1, <3>2, <3>4, <3>5 DEF Visit
  <2>2. QED
    BY <2>1 DEF ReadNearer
<1>12. CASE Stop
  BY <1>12 DEF Stop, Ends, ReadNearer, Walked
<1>13. CASE Finish
  BY <1>13 DEF Finish, ReadNearer, Walked
<1>14. CASE UNCHANGED vars
  BY <1>14 DEF vars, ReadNearer, Walked
<1>15. QED
  BY <1>7, <1>8, <1>10, <1>11, <1>12, <1>13, <1>14 DEF Next

\* A walk that has not begun is at the start.
LEMMA InitDepth == Init => DInv
<1> SUFFICES ASSUME Init PROVE DInv
  OBVIOUS
<1>1. queue = <<>> /\ pairs = <<>> /\ \A a \in Anime : links[a] = Unread
  BY DEF Init
<1>2. \A a \in Anime : Successors(a) = {}
  BY <1>1 DEF Successors
<1>3. StepsBeyond
  BY <1>2 DEF StepsBeyond
<1>4. Outward /\ FromNearer /\ InDepth
  BY <1>1 DEF Outward, FromNearer, InDepth
<1>5. ReadNearer
  BY DEF Init, ReadNearer, Walked
<1>6. QED
  BY <1>3, <1>4, <1>5 DEF DInv

\* What was led to from the distance before is within the next one.
LEMMA WithinGrows ==
  ASSUME TypeOK, NEW n \in Nat, NEW a \in Within[n]
  PROVE  a \in Within[n + 1] /\ Successors(a) \subseteq Within[n + 1]
<1>1. Within[n + 1] = Spread(Within[n])
  BY WithinDoes DEF TypeOK
<1>2. QED
  BY <1>1 DEF Spread

\* What is within a distance is within every greater one.
LEMMA WithinFurther ==
  ASSUME TypeOK, NEW n \in Nat
  PROVE  \A m \in Nat : n <= m => Within[n] \subseteq Within[m]
<1> DEFINE T == {m \in Nat : n <= m /\ ~(Within[n] \subseteq Within[m])}
<1> SUFFICES ASSUME T # {} PROVE FALSE
  OBVIOUS
<1>1. PICK m \in T : \A k \in T : m <= k
  BY Smallest
<1>2. m \in Nat /\ n <= m /\ m # n
  OBVIOUS
<1>3. m - 1 \in Nat /\ m - 1 \notin T /\ n <= m - 1
  BY <1>1, <1>2
<1>4. Within[n] \subseteq Within[m - 1]
  BY <1>3
<1>5. Within[m - 1] \subseteq Within[(m - 1) + 1] /\ (m - 1) + 1 = m
  BY <1>2, <1>3, WithinGrows
<1>6. QED
  BY <1>4, <1>5

\* Whatever the walk reached at some distance is within it.
LEMMA ReachedIsWithin ==
  ASSUME IInv, DInv
  PROVE  \A d \in Nat : \A a \in Anime : Reached(a, d) => a \in Within[d]
<1> USE DEF IInv, DInv
<1> DEFINE T == {d \in Nat : \E a \in Anime : Reached(a, d) /\ a \notin Within[d]}
<1> SUFFICES ASSUME T # {} PROVE FALSE
  OBVIOUS
<1>1. PICK d \in T : \A k \in T : d <= k
  BY Smallest
<1>2. PICK a \in Anime : Reached(a, d) /\ a \notin Within[d]
  OBVIOUS
<1>3. Within[0] = {Root} /\ d \in Nat
  BY WithinDoes DEF TypeOK
<1>4. CASE a = Root /\ d = 0
  BY <1>2, <1>3, <1>4
<1>5. CASE \E i \in DOMAIN queue : queue[i].anime = a /\ queue[i].distance = d
  <2>1. PICK i \in DOMAIN queue : queue[i].anime = a /\ queue[i].distance = d
    BY <1>5
  <2>2. d >= 1
    BY <2>1 DEF Outward
  <2>3. PICK b \in Anime : IsEdge(b, PairOf(queue[i])) /\ Reached(b, d - 1)
    BY <2>1 DEF FromNearer
  <2>4. d - 1 \in Nat /\ d - 1 \notin T /\ (d - 1) + 1 = d
    BY <1>1, <1>3, <2>2
  <2>5. b \in Within[d - 1]
    BY <2>3, <2>4
  <2>6. Successors(b) \subseteq Within[d]
    BY <2>4, <2>5, WithinGrows
  <2>7. a \in Successors(b)
    <3>1. PICK k \in DOMAIN links[b] : links[b][k] = PairOf(queue[i])
      BY <2>3 DEF IsEdge
    <3>2. Follows(links[b][k]) /\ links[b] # Unread
      BY <2>3, <3>1 DEF Distinct, IsEdge
    <3>3. links[b][k][2] = a
      BY <2>1, <3>1 DEF PairOf
    <3>4. QED
      BY <3>2, <3>3 DEF Successors
  <2>8. QED
    BY <1>2, <2>6, <2>7
<1>6. QED
  BY <1>2, <1>4, <1>5 DEF Reached

\* With nothing left to look at, whatever is within a distance was reached within it.
LEMMA WithinIsReached ==
  ASSUME IInv, DInv, Pending = {}
  PROVE  \A d \in Nat : \A a \in Within[d] : \E e \in Nat : e <= d /\ Reached(a, e)
<1> USE DEF IInv, DInv
<1> DEFINE Near(a, d) == \E e \in Nat : e <= d /\ Reached(a, e)
           T == {d \in Nat : \E a \in Within[d] : ~Near(a, d)}
<1> SUFFICES ASSUME T # {} PROVE FALSE
  OBVIOUS
<1>1. PICK d \in T : \A k \in T : d <= k
  BY Smallest
<1>2. PICK a \in Within[d] : ~Near(a, d)
  OBVIOUS
<1>3. Within[0] = {Root} /\ d \in Nat
  BY WithinDoes DEF TypeOK
<1>4. d # 0
  BY <1>2, <1>3 DEF Reached
<1>5. d - 1 \in Nat /\ d - 1 \notin T /\ (d - 1) + 1 = d
  BY <1>1, <1>3, <1>4
<1>6. Within[d] = Spread(Within[d - 1])
  <2>1. \A n \in Nat : Within[n + 1] = Spread(Within[n])
    BY WithinDoes DEF TypeOK
  <2>2. QED
    BY <1>5, <2>1
<1>7. \A b \in Within[d - 1] : Near(b, d - 1)
  BY <1>5
<1>8. CASE a \in Within[d - 1]
  BY <1>2, <1>3, <1>7, <1>8
<1>9. CASE \E b \in Within[d - 1] : a \in Successors(b)
  <2>1. PICK b \in Within[d - 1] : a \in Successors(b)
    BY <1>9
  <2>2. PICK e \in Nat : e <= d - 1 /\ Reached(b, e)
    BY <1>7
  <2>3. b \in Anime
    BY <2>2, WalkAssumption, DistanceType DEF Reached, Entries
  <2>4. PICK f \in Nat : f <= e + 1 /\ Reached(a, f)
    BY <2>1, <2>2, <2>3 DEF StepsBeyond
  <2>5. f <= d
    BY <1>3, <2>2, <2>4
  <2>6. QED
    BY <1>2, <2>4, <2>5
<1>10. QED
  BY <1>2, <1>6, <1>8, <1>9 DEF Spread

\* How far a walk goes is inductive, beside the invariant.
THEOREM DepthInvariance == Spec => [](IInv /\ DInv)
<1>1. Init => IInv /\ DInv
  BY InitHolds, InitDepth
<1>2. IInv /\ DInv /\ [Next]_vars => (IInv /\ DInv)'
  <2> SUFFICES ASSUME IInv, DInv, [Next]_vars
               PROVE  IInv' /\ DInv'
    OBVIOUS
  <2>1. IInv'
    BY TypeStep, PrefixStep, DistinctStep, ReadStep, LedToStep, CoveredStep, LeastStep, EndedStep
    DEF IInv
  <2>2. Outward' /\ FromNearer' /\ StepsBeyond' /\ InDepth' /\ ReadNearer'
    BY OutwardStep, FromNearerStep, StepsBeyondStep, InDepthStep, ReadNearerStep
  <2>3. QED
    BY <2>1, <2>2 DEF DInv
<1>3. QED
  BY <1>1, <1>2, PTL DEF Spec

\* A walk that only its depth limited names all that is that near, on every graph, and
\* nothing further; and it read all that is nearer.
THEOREM DepthIsHonest == Spec => []DepthIsExact
<1>1. IInv /\ DInv => DepthIsExact
  <2> SUFFICES ASSUME IInv, DInv, pc = "returned", stoppedBy \in {"none", "depth"},
                      asked.depth # NoBound
               PROVE  /\ Found = Within[Limit] \ {Root}
                      /\ \A a \in Within[Limit - 1] : links[a] # Unread
    BY DEF DepthIsExact, Limit
  <2> USE DEF IInv, DInv
  <2>1. /\ pairs = <<>> /\ index = Len(queue) /\ Len(found) = index /\ links[Root] # Unread
        /\ \A i \in 1 .. index : links[queue[i].anime] # Unread \/ queue[i].distance >= asked.depth
    BY DEF ReadNearer, Walked
  <2>2. asked.depth \in Nat /\ Limit \in Nat \ {0} /\ asked.depth <= Limit
    BY LimitType
  <2>3. Pending = {}
    BY <2>1 DEF Pending
  <2>4. /\ DOMAIN queue = 1 .. index
        /\ \A i \in DOMAIN queue : i \in DOMAIN found /\ found[i][2] = queue[i].anime
    BY <2>1 DEF Prefix, PairOf, TypeOK
  <2>5. Found = Queued
    <3>1. Queued \subseteq Found
      BY <2>4 DEF Queued, Found
    <3>2. QED
      BY <3>1, FoundIsQueued
  <2>6. ASSUME NEW a \in Found
        PROVE  a \in Within[Limit] \ {Root}
    <3>1. PICK i \in DOMAIN queue : queue[i].anime = a
      BY <2>5 DEF Queued
    <3>2. queue[i] \in Entries /\ queue[i].distance \in Nat
      BY DistanceType
    <3>3. Reached(a, queue[i].distance) /\ a \in Anime
      BY <3>1, <3>2 DEF Reached, Entries
    <3>4. a \in Within[queue[i].distance]
      BY <3>2, <3>3, ReachedIsWithin
    <3>5. queue[i].distance <= Limit
      BY DEF InDepth
    <3>6. Within[queue[i].distance] \subseteq Within[Limit]
      BY <2>2, <3>2, <3>5, WithinFurther
    <3>7. a # Root
      BY <3>1 DEF Distinct, Follows, PairOf
    <3>8. QED
      BY <3>4, <3>6, <3>7
  <2>7. ASSUME NEW a \in Within[Limit], a # Root
        PROVE  a \in Found
    <3>1. PICK e \in Nat : e <= Limit /\ Reached(a, e)
      BY <2>2, <2>3, WithinIsReached
    <3>2. a \in Queued
      BY <2>7, <3>1 DEF Reached, Queued
    <3>3. QED
      BY <2>5, <3>2
  <2>8. ASSUME NEW a \in Within[Limit - 1]
        PROVE  links[a] # Unread
    <3>1. Limit - 1 \in Nat
      BY <2>2
    <3>2. PICK e \in Nat : e <= Limit - 1 /\ Reached(a, e)
      BY <2>3, <3>1, WithinIsReached
    <3>3. CASE a = Root
      BY <2>1, <3>3
    <3>4. CASE a # Root
      <4>1. PICK i \in DOMAIN queue : queue[i].anime = a /\ queue[i].distance = e
        BY <3>2, <3>4 DEF Reached
      <4>2. e >= 1
        BY <4>1 DEF Outward
      <4>3. e < asked.depth
        BY <2>2, <3>2, <4>2 DEF Limit
      <4>4. QED
        BY <2>1, <2>2, <2>4, <4>1, <4>3
    <3>5. QED
      BY <3>3, <3>4
  <2>9. QED
    BY <2>6, <2>7, <2>8
<1>2. QED
  BY <1>1, DepthInvariance, PTL
=============================================================================
