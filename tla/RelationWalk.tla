---------------------------- MODULE RelationWalk ----------------------------
(* Anime.related_anime(): the walk of AniDB's relation graph from one anime.  *)
(*                                                                            *)
(* The graph is not known beforehand: what an anime is related to is learnt   *)
(* when the walk reads its relations, and the read may find that AniDB does   *)
(* not have it (IllegalAnimeObject), or fail (any other AniDBError).  The     *)
(* caller's exclude and only_in_mylist come to one set here, the anime the    *)
(* walk may not enter.                                                        *)
EXTENDS Integers, Sequences

CONSTANTS
  Anime,      \* aids
  Types,      \* relation types
  Root,       \* the anime the walk starts from
  RelationLists, \* what reading the relations of an anime may answer
  Budgets,    \* the budgets a caller may give
  Depths,     \* the depths it may give
  NoBound,    \* depth=None
  Unread      \* relations that have not been read

Pairs == Types \X Anime

ASSUME WalkAssumption ==
  /\ Root \in Anime
  /\ RelationLists \subseteq Seq(Pairs)
  /\ Budgets \subseteq Nat /\ Depths \subseteq Nat
  /\ NoBound \notin Nat
  /\ Unread \notin Seq(Pairs)

VARIABLES
  asked,      \* the caller's bounds and filters
  links,      \* anime -> its relations, once the walk has read them
  queue,      \* the anime reached, in the order they were
  index,      \* how many of them have been taken
  pairs,      \* of the relations being read, those not looked at yet
  found,      \* the answer
  stoppedBy,  \* the bound that cut it short
  pc          \* "ready", "walking", "returned" or "raised"

vars == <<asked, links, queue, index, pairs, found, stoppedBy, pc>>

Entries == [type: Types, anime: Anime, distance: Nat]
Stops   == {"none", "budget", "depth", "unknown anime"}
Asked   == [walls: SUBSET Anime, follow: SUBSET Types, budget: Budgets,
            depth: Depths \cup {NoBound}]

\* The type invariant.
TypeOK ==
  /\ asked \in Asked
  /\ links \in [Anime -> Seq(Pairs) \cup {Unread}]
  /\ queue \in Seq(Entries)
  /\ index \in 0 .. Len(queue)
  /\ pairs \in Seq(Pairs)
  /\ found \in Seq(Pairs)
  /\ stoppedBy \in Stops
  /\ pc \in {"ready", "walking", "returned", "raised"}

-----------------------------------------------------------------------------
Queued  == {queue[i].anime : i \in DOMAIN queue}
Found   == {found[i][2] : i \in DOMAIN found}

\* The caller's own filters: which edges it follows, and what it enters.
Follows(pair) == pair[1] \in asked.follow /\ pair[2] \notin asked.walls \cup {Root}

\* A bug: the caller's filters are only looked at for the start's own relations.
FollowableFreely(pair) ==
  IF index = 0 THEN Follows(pair) /\ pair[2] \notin Queued
  ELSE pair[2] \notin Found \cup Queued \cup {Root}

\* A bug: an anime is only compared with the answer so far.
FollowableUnseen(pair) == Follows(pair) /\ pair[2] \notin Found

\* _followable: an anime reached already is not reached again.
Followable(pair) == Follows(pair) /\ pair[2] \notin Found \cup Queued

\* How far from the start the anime being read is.
Distance == IF index = 0 THEN 0 ELSE queue[index].distance

Ends(how, why) == pc' = how /\ stoppedBy' = why

\* Reading an anime's relations: it answers, AniDB does not have it, or the
\* question could not be put.  In the last two nothing is recorded of it.
Reads(anime, answer) ==
  \/ \E list \in RelationLists :
       /\ links' = [links EXCEPT ![anime] = list]
       /\ pairs' = list
       /\ found' = answer
       /\ pc' = "walking"
       /\ UNCHANGED stoppedBy
  \/ /\ Ends("returned", "unknown anime")
     /\ UNCHANGED <<links, pairs, found>>
  \/ /\ pc' = "raised"
     /\ UNCHANGED <<links, pairs, found, stoppedBy>>

\* The walk begins with the relations of the anime it was called on.
Begin ==
  /\ pc = "ready"
  /\ Reads(Root, found)
  /\ UNCHANGED <<asked, queue, index>>

\* One pair of the relations being read; the walk goes on with the next.
Consider ==
  /\ pc = "walking" /\ pairs # <<>>
  /\ queue' = IF Followable(Head(pairs))
              THEN Append(queue, [type |-> Head(pairs)[1], anime |-> Head(pairs)[2],
                                  distance |-> Distance + 1])
              ELSE queue
  /\ pairs' = Tail(pairs)
  /\ UNCHANGED <<asked, links, index, found, stoppedBy, pc>>

IsNext == pc = "walking" /\ pairs = <<>> /\ index < Len(queue)
Following == queue[index + 1]
PairOf(entry) == <<entry.type, entry.anime>>

\* A bug: one anime more than the budget.
SpentLate == Len(found) > asked.budget
Spent == Len(found) >= asked.budget

\* A bug: one step further than the depth.
TooFarLate == asked.depth # NoBound /\ Following.distance > asked.depth
TooFar == asked.depth # NoBound /\ Following.distance >= asked.depth

\* The budget is spent, and an entry is left.
Stop ==
  /\ IsNext /\ Spent
  /\ Ends("returned", "budget")
  /\ UNCHANGED <<asked, links, queue, index, pairs, found>>

\* A bug: reaching the depth limit is not reported.
BoundarySilent ==
  /\ IsNext /\ ~Spent /\ TooFar
  /\ index' = index + 1
  /\ found' = Append(found, PairOf(Following))
  /\ UNCHANGED <<asked, links, queue, pairs, stoppedBy, pc>>

\* At the depth limit an anime is reported and not read.
Boundary ==
  /\ IsNext /\ ~Spent /\ TooFar
  /\ index' = index + 1
  /\ found' = Append(found, PairOf(Following))
  /\ stoppedBy' = "depth"
  /\ UNCHANGED <<asked, links, queue, pairs, pc>>

\* A bug: the read of an anime takes the entry after it as well.
VisitSkipping ==
  /\ IsNext /\ ~Spent /\ ~TooFar
  /\ index' = index + 2
  /\ Reads(Following.anime, Append(found, PairOf(Following)))
  /\ UNCHANGED <<asked, queue>>

\* Anything else is read, and then recorded.
Visit ==
  /\ IsNext /\ ~Spent /\ ~TooFar
  /\ index' = index + 1
  /\ Reads(Following.anime, Append(found, PairOf(Following)))
  /\ UNCHANGED <<asked, queue>>

\* The walk ran out of graph.
Finish ==
  /\ pc = "walking" /\ pairs = <<>> /\ index = Len(queue)
  /\ pc' = "returned"
  /\ UNCHANGED <<asked, links, queue, index, pairs, found, stoppedBy>>

Init ==
  /\ asked \in Asked
  /\ links = [a \in Anime |-> Unread]
  /\ queue = <<>> /\ index = 0 /\ pairs = <<>> /\ found = <<>>
  /\ stoppedBy = "none"
  /\ pc = "ready"

Next == Begin \/ Consider \/ Stop \/ Boundary \/ Visit \/ Finish

Spec == Init /\ [][Next]_vars

-----------------------------------------------------------------------------
(* Properties *)

\* What an anime leads to: the ends of the edges the caller follows.  Nothing is
\* known of an anime that was not read.
Successors(a) ==
  IF links[a] = Unread THEN {}
  ELSE {links[a][i][2] : i \in {j \in DOMAIN links[a] : Follows(links[a][j])}}

IsClosed(anime) == \A a \in anime : Successors(a) \subseteq anime

Complete == pc = "returned" /\ stoppedBy = "none"

\* A complete answer is one: whatever the anime it names, or the start, lead to by
\* the edges the caller follows is in it as well, and each of them was read.
CompleteIsAll ==
  Complete =>
    /\ \A a \in Found \cup {Root} : links[a] # Unread
    /\ IsClosed(Found \cup {Root})

\* And it holds nothing else, whether complete or not: every set that holds the
\* start and what its members lead to holds the answer.
NothingElse ==
  \A S \in SUBSET Anime : Root \in S /\ IsClosed(S) => Found \subseteq S

\* No anime is reported twice, nor one the walk may not enter, and each with the
\* type of an edge that led to it from the start or from another anime reported.
Reported ==
  /\ \A i, j \in DOMAIN found : found[i][2] = found[j][2] => i = j
  /\ \A i \in DOMAIN found :
       /\ Follows(found[i])
       /\ \E a \in Found \cup {Root} :
            links[a] # Unread /\ \E k \in DOMAIN links[a] : links[a][k] = found[i]

\* What is within n steps of the start, by what the walk has read.
Within ==
  LET W[n \in Nat] == IF n = 0 THEN {Root}
                      ELSE W[n - 1] \cup UNION {Successors(a) : a \in W[n - 1]}
  IN  W

\* A walk that only its depth limited has everything up to there, having read all
\* that is nearer, and nothing beyond: an anime is never reached by a detour before
\* it is reached directly.  (A depth of 0 is walked as 1.)
DepthIsExact ==
  pc = "returned" /\ stoppedBy \in {"none", "depth"} /\ asked.depth # NoBound =>
    LET limit == IF asked.depth = 0 THEN 1 ELSE asked.depth
    IN  /\ Found = Within[limit] \ {Root}
        /\ \A a \in Within[limit - 1] : links[a] # Unread

\* A walk ended by its budget has spent exactly that, and is short of an anime it
\* reached; a longer answer is never given.
BudgetIsExact ==
  /\ Len(found) <= asked.budget
  /\ pc = "returned" /\ stoppedBy = "budget" =>
       Len(found) = asked.budget /\ ~IsClosed(Found \cup {Root})
=============================================================================
