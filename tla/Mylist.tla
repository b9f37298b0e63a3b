------------------------------- MODULE Mylist -------------------------------
(* Files, their cached rows and the user's mylist: File and                   *)
(* Episode.add_to_mylist of animeobjs.py, against the list AniDB keeps.       *)
(*                                                                            *)
(* The application makes one call at a time, on a File built for it from its  *)
(* path, and every call is a conversation of several requests: identify the   *)
(* file, clear what covers its episode, add, read back.  Between two of them  *)
(* the process may crash, the transport may give the caller an error, and a   *)
(* command nobody waits for any more may still reach AniDB.                   *)
(*                                                                            *)
(* An AniDB file id (fid) names a file of the disk, a file of somebody else,  *)
(* or the generic file AniDB keeps of an episode, which the episode itself    *)
(* stands for here.  Every other file has a group.                            *)
EXTENDS Naturals, Sequences, FiniteSets

CONSTANTS
  Files,        \* the files on disk
  Others,       \* files of AniDB that are not on this disk
  Episodes,
  Span,         \* file -> the episodes its name says it covers, first one first
  Asked,        \* what a caller may ask of the watched flag: "yes", "no", "keep"
  GivenUp,      \* bound: the kinds of command callers give up on, one at a time
  None          \* no row, no call, no request, no fid

ASSUME MylistAssumption ==
  /\ Span \in [Files \cup Others -> Seq(Episodes) \ {<<>>}]
  /\ IsFiniteSet(Files \cup Others)
  /\ Files \cap Others = {} /\ (Files \cup Others) \cap Episodes = {}
  /\ Asked \subseteq {"yes", "no", "keep"}
  /\ GivenUp \subseteq {"add", "add generic", "edit", "del"}
  /\ None \notin Files \cup Others \cup Episodes

VARIABLES
  list,      \* the mylist, as AniDB holds it
  known,     \* the files AniDB has indexed
  row,       \* file -> its cached row
  loose,     \* cached rows of mylist entries, with no path of their own
  call,      \* the call under way
  request,   \* the request it waits for
  adrift,    \* commands the transport still holds for callers that gave up
  told,      \* what the last call told its caller
  astray     \* ghost: episodes whose entries changed behind the cache's back

vars == <<list, known, row, loose, call, request, adrift, told, astray>>

Fids == Files \cup Others \cup Episodes

EpisodeOf(fid) == IF fid \in Episodes THEN fid ELSE Head(Span[fid])

\* An entry of the list: lid names it, and a lid of 0 is no entry.
Entries == [lid: Nat \ {0}, fid: Fids, watched: BOOLEAN]
Rows    == [generic: BOOLEAN, fid: Fids \cup {None}, lid: Nat, watched: BOOLEAN]
Loose   == [fid: Fids, lid: Nat \ {0}]

Covering(e) == {x \in list : EpisodeOf(x.fid) = e}

IsGenericRow(f) == row[f] # None /\ row[f].generic
HasEntry(f)     == row[f] # None /\ row[f].lid # 0

\* What a call may be doing: at a step of its own, or waiting for a reply.
Steps == {"decide", "clear", "add", "remove", "retire", "stalled"}
Waits == {"identify", "lookup", "clearing", "ask", "adding", "read back",
          "editing", "removing", "retiring", "creating"}

\* "eps" are the episodes a per-episode loop has still to send, "todo" the rows
\* of other entries still to be removed, "spanned" that the episode set came
\* from the name in this very call (_multiep), "byFid" that AniDB identified the
\* file in it (_fid), "promoted" that the call found a generic file indexed, and
\* "carried" a watched flag cache and list agreed on when it did (a ghost).
Calls == [op: {"update", "remove", "refresh", "create"},
          on: Files \cup Episodes, asked: {"yes", "no", "keep"},
          pc: Steps \cup Waits, eps: Seq(Episodes),
          todo: SUBSET (Files \cup Loose), spanned: BOOLEAN, byFid: BOOLEAN,
          promoted: BOOLEAN, carried: BOOLEAN]

\* A request is about a fid, an edit about a lid; what a caller gave up on is
\* remembered for the file it was to learn a lid for.
Kinds    == {"file", "list", "add", "add generic", "edit", "del"}
Codes    == {"210", "211", "220", "221", "310", "311", "312", "320", "321", "411"}
Replies  == [code: Codes, entry: Entries \cup {None}]
Requests == [kind: Kinds, on: Fids \cup Nat, watched: {"yes", "no", "keep"},
             reply: Replies \cup {None}]
Lates    == [kind: GivenUp, on: Fids \cup Nat, watched: {"yes", "no", "keep"},
             for: Files \cup {None}]

\* None is none of the things it stands in for, and a file is not a row.
ASSUME NoneAssumption ==
  /\ None \notin Entries \cup Rows \cup Calls \cup Replies \cup Requests
  /\ \A f \in Files : f \notin Loose

-----------------------------------------------------------------------------
(* AniDB *)

\* AniDB never gives a lid twice; one that nothing names any more is as good as
\* new.
Named == {x.lid : x \in list} \cup {x.lid : x \in loose}
           \cup {row[f].lid : f \in {g \in Files : row[g] # None}}
           \cup {a.on : a \in {b \in adrift : b.kind = "edit"}}

FreshLid == CHOOSE n \in 1 .. Cardinality(Named) + 1 : n \notin Named

\* An entry that is already there is not added again: the same file, or for a
\* generic add any entry of the episode.
Refused(q) ==
  IF q.kind = "add" THEN \E x \in list : x.fid = q.on ELSE Covering(q.on) # {}

\* The list once AniDB has served a request.
Served(q) ==
  CASE q.kind \in {"add", "add generic"} ->
         IF Refused(q) THEN list
         ELSE list \cup {[lid |-> FreshLid, fid |-> q.on, watched |-> q.watched = "yes"]}
    [] q.kind = "edit" ->
         {IF x.lid = q.on /\ q.watched # "keep"
            THEN [x EXCEPT !.watched = (q.watched = "yes")] ELSE x : x \in list}
    [] q.kind = "del" -> {x \in list : x.fid # q.on}
    [] OTHER -> list

\* The entries a MYLIST request asks for, by fid or by anime and episode.  (The
\* two are told apart by who asks: the fid of a generic file is its episode, and
\* no caller asks for one by fid.)
Matching(q) ==
  IF q.on \in Episodes THEN Covering(q.on) ELSE {x \in list : x.fid = q.on}

\* The reply: its code, and the entry it carries if any.
Reply(q) ==
  LET one(s) == CHOOSE x \in s : TRUE
      own    == {x \in list : x.fid = q.on}
      Says(code, entries) == [code |-> code,
                              entry |-> IF entries = {} THEN None ELSE one(entries)]
  IN CASE q.kind = "file" -> IF q.on \in known THEN Says("220", own) ELSE Says("320", {})
       [] q.kind = "list" -> IF Cardinality(Matching(q)) > 1 THEN Says("312", {})
                             ELSE IF Matching(q) = {} THEN Says("321", {})
                             ELSE Says("221", Matching(q))
       [] q.kind = "add" -> IF Refused(q) THEN Says("310", {})
                            ELSE Says("210", Served(q) \ list)
       [] q.kind = "add generic" -> Says(IF Refused(q) THEN "310" ELSE "210", {})
       [] q.kind = "edit" -> Says(IF Served(q) # list \/ \E x \in list : x.lid = q.on
                                    THEN "311" ELSE "411", {})
       [] q.kind = "del" -> Says(IF Served(q) # list THEN "211" ELSE "411", {})

-----------------------------------------------------------------------------
(* A call and its requests *)

Asks(op, x, asked, pc) ==
  [op |-> op, on |-> x, asked |-> asked, pc |-> pc, eps |-> <<>>, todo |-> {},
   spanned |-> FALSE, byFid |-> FALSE, promoted |-> FALSE, carried |-> FALSE]

At(pc) == call # None /\ call.pc = pc

\* The reply a waiting call has got, if it has one.
Answered(pc) == At(pc) /\ request # None /\ request.reply # None

\* link.request(): the call waits for the reply.
Sends(kind, on, watched) ==
  request' = [kind |-> kind, on |-> on, watched |-> watched, reply |-> None]

\* The call ends, and its caller is told how.  A caller that gave up on a
\* promotion already has its answer.
Returns(outcome) ==
  /\ call' = None
  /\ request' = None
  /\ told' = IF told = "waiting" THEN outcome ELSE told

\* A call goes on to its next step, with nothing outstanding.
GoesOn(c) == call' = c /\ request' = None /\ UNCHANGED told

\* A call goes on by sending a request.
GoesOnSending(c, kind, on, watched) ==
  call' = c /\ Sends(kind, on, watched) /\ UNCHANGED told

\* multiep: the episode set the name gives; and what remove_from_mylist takes in
\* its place, which does not read the name again.
EpisodesToAdd    == Span[call.on]
EpisodesToRemove == IF call.spanned THEN Span[call.on] ELSE <<EpisodeOf(call.on)>>

Cleared(r) == [r EXCEPT !.lid = 0, !.watched = FALSE]

Start(op, x, asked, pc) ==
  /\ call = None
  /\ call' = Asks(op, x, asked, pc)
  /\ told' = "waiting"

\* update_mylist() and remove_from_mylist() on a File built from its path, which
\* finds its row by the path; without one the first attribute read identifies
\* the file.
Acts(op, f, asked, pc) ==
  /\ IF row[f] = None
       THEN Start(op, f, asked, "identify") /\ Sends("file", f, "keep")
       ELSE Start(op, f, asked, pc) /\ UNCHANGED request
  /\ UNCHANGED <<list, known, row, loose, adrift, astray>>

Update(f, asked) == Acts("update", f, asked, "decide")
Remove(f)        == Acts("remove", f, "keep", "remove")

\* A fetch of the file's row: update(), or the roll of a stale one.
Refresh(f) ==
  /\ Start("refresh", f, "keep", "identify")
  /\ Sends("file", f, "keep")
  /\ UNCHANGED <<list, known, row, loose, adrift, astray>>

\* Episode.add_to_mylist().
AddToMylist(e, asked) ==
  /\ Start("create", e, asked, "creating")
  /\ Sends("add generic", e, asked)
  /\ UNCHANGED <<list, known, row, loose, adrift, astray>>

\* The row of the cache is not written.  (The third outcome, "rejected", is for
\* an episode AniDB does not have; these exist.)
ReportAddition ==
  /\ Answered("creating")
  /\ Returns(IF request.reply.code = "210" THEN "added" ELSE "already present")
  /\ UNCHANGED <<list, known, row, loose, adrift, astray>>

-----------------------------------------------------------------------------
(* Identifying a file *)

\* With the file identified, the call takes up what it was made for.
Resume(c) ==
  CASE c.op = "update"  -> GoesOn([c EXCEPT !.pc = "decide"])
    [] c.op = "remove"  -> GoesOn([c EXCEPT !.pc = "remove"])
    [] c.op = "refresh" -> Returns("done")

\* The mylist request that follows when there is no fid: by anime and episode.
LooksUp(c) ==
  GoesOnSending([c EXCEPT !.pc = "lookup"], "list", EpisodeOf(c.on), "keep")

\* AniDB does not know the file: a row is inferred from the name, once, or the
\* object is illegal.
Infer ==
  /\ Answered("identify") /\ request.reply.code = "320"
  /\ LET f == call.on
     IN \/ /\ row[f] = None
           /\ row' = [row EXCEPT ![f] = [generic |-> TRUE, fid |-> None, lid |-> 0,
                                         watched |-> FALSE]]
           /\ LooksUp([call EXCEPT !.spanned = TRUE])
        \/ /\ row[f] = None
           /\ Returns("raised")
           /\ UNCHANGED row
        \/ /\ row[f] # None
           /\ IF row[f].fid = None THEN LooksUp(call) ELSE Resume(call)
           /\ UNCHANGED row
  /\ UNCHANGED <<list, known, loose, adrift, astray>>

\* AniDB knows it: the reply carries the file's own entry, or none.
Identified(f, entry) ==
  [generic |-> FALSE, fid |-> f, lid |-> IF entry = None THEN 0 ELSE entry.lid,
   watched |-> entry # None /\ entry.watched]

Identify ==
  /\ Answered("identify") /\ request.reply.code = "220"
  /\ ~IsGenericRow(call.on)
  /\ row' = [row EXCEPT ![call.on] = Identified(call.on, request.reply.entry)]
  /\ Resume([call EXCEPT !.byFid = TRUE])
  /\ UNCHANGED <<list, known, loose, adrift, astray>>

\* A bug: the fields are read once the removal has cleared them.
PromoteTooLate ==
  /\ Answered("identify") /\ request.reply.code = "220"
  /\ IsGenericRow(call.on)
  /\ LET r == row[call.on]
     IN GoesOn([call EXCEPT !.pc = "retire", !.byFid = TRUE, !.promoted = TRUE,
                !.asked = "keep",
                !.carried = /\ r.watched
                            /\ \E x \in list : x.lid = r.lid /\ x.watched])
  /\ UNCHANGED <<list, known, row, loose, adrift, astray>>

\* A generic row of a file that AniDB has indexed since: its mylist fields are
\* set aside and its generic entry is removed, all in the reply's callback.
Promote ==
  /\ Answered("identify") /\ request.reply.code = "220"
  /\ IsGenericRow(call.on)
  /\ LET r == row[call.on]
     IN GoesOn([call EXCEPT !.pc = "retire", !.byFid = TRUE, !.promoted = TRUE,
                !.asked = IF r.watched THEN "yes" ELSE "keep",
                !.carried = /\ r.watched
                            /\ \E x \in list : x.lid = r.lid /\ x.watched])
  /\ UNCHANGED <<list, known, row, loose, adrift, astray>>

\* The mylist reply about a file.  An entry of somebody else's file is kept as a
\* row of its own, unless a row has its lid; otherwise it is ours.
NotUs(f, x) == IF row[f].generic THEN x.fid \notin Episodes ELSE x.fid # row[f].fid

Adopted(x) == [generic |-> x.fid \in Episodes, fid |-> x.fid, lid |-> x.lid,
               watched |-> x.watched]

KeepsEntry(f, x) ==
  LET owners == {g \in Files : row[g] # None /\ row[g].lid = x.lid}
  IN IF ~NotUs(f, x)
       THEN row' = [row EXCEPT ![f] = Adopted(x)] /\ UNCHANGED loose
       ELSE \/ /\ \E g \in owners : row' = [row EXCEPT ![g] = Adopted(x)]
               /\ UNCHANGED loose
            \/ /\ owners = {} \/ \E s \in loose : s.lid = x.lid
               /\ loose' = loose \cup {[fid |-> x.fid, lid |-> x.lid]}
               /\ UNCHANGED row

\* Several entries for one episode are refused with an exception.
TakeEntry(f, next) ==
  /\ \/ /\ request.reply.code = "312"
        /\ Returns("raised")
        /\ UNCHANGED <<row, loose>>
     \/ /\ request.reply.code = "321"
        /\ next
        /\ UNCHANGED <<row, loose>>
     \/ /\ request.reply.code = "221"
        /\ KeepsEntry(f, request.reply.entry)
        /\ next
  /\ UNCHANGED <<list, known, adrift, astray>>

LookUp == Answered("lookup") /\ TakeEntry(call.on, Resume(call))

-----------------------------------------------------------------------------
(* update_mylist *)

\* The cached rows of the episode that name an entry.
CachedFor(e) ==
  {g \in Files : HasEntry(g) /\ EpisodeOf(g) = e} \cup {s \in loose : EpisodeOf(s.fid) = e}

LidOf(h) == IF h \in Files THEN row[h].lid ELSE h.lid
FidOf(h) == IF h \in Files THEN row[h].fid ELSE h.fid

InList(h) == \E x \in list : x.lid = LidOf(h)

\* A bug: only the cache is asked what covers the episode.
DecideFromCache ==
  /\ At("decide")
  /\ LET f == call.on
         e == EpisodeOf(f)
     IN IF HasEntry(f)
          THEN GoesOnSending([call EXCEPT !.pc = "editing"], "edit", row[f].lid, call.asked)
          ELSE GoesOn([call EXCEPT !.pc = IF CachedFor(e) = {} THEN "add" ELSE "clear",
                                   !.todo = CachedFor(e)])
  /\ UNCHANGED <<list, known, row, loose, adrift, astray>>

\* An entry of its own is edited.  Otherwise whatever covers the episode goes
\* first: what the cache names, and only if it names nothing, what AniDB does.
Decide ==
  /\ At("decide")
  /\ LET f == call.on
         e == EpisodeOf(f)
     IN \/ /\ HasEntry(f)
           /\ GoesOnSending([call EXCEPT !.pc = "editing"], "edit", row[f].lid, call.asked)
           /\ UNCHANGED astray
        \/ /\ ~HasEntry(f) /\ CachedFor(e) # {}
           /\ GoesOn([call EXCEPT !.pc = "clear", !.todo = CachedFor(e)])
           /\ astray' = IF \A h \in CachedFor(e) : InList(h) THEN astray
                        ELSE astray \cup {e}
        \/ /\ ~HasEntry(f) /\ CachedFor(e) = {}
           /\ GoesOnSending([call EXCEPT !.pc = "ask"], "list", e, "keep")
           /\ UNCHANGED astray
  /\ UNCHANGED <<list, known, row, loose, adrift>>

\* File(anime, episode).lid: the entry AniDB names becomes a row, and is removed.
AskAnidb ==
  /\ Answered("ask")
  /\ CASE request.reply.code = "312" -> Returns("raised") /\ UNCHANGED loose
       [] request.reply.code = "321" -> GoesOn([call EXCEPT !.pc = "add"]) /\ UNCHANGED loose
       [] OTHER ->
            LET x == request.reply.entry
                s == [fid |-> x.fid, lid |-> x.lid]
            IN /\ loose' = loose \cup {s}
               /\ GoesOn([call EXCEPT !.pc = "clear", !.todo = {s}])
  /\ UNCHANGED <<list, known, row, adrift, astray>>

\* A bug: the row of an entry removed for another file keeps naming none.
ClearLeavingRow ==
  /\ At("clear")
  /\ \E h \in call.todo :
       /\ GoesOnSending([call EXCEPT !.pc = "clearing", !.todo = @ \ {h}],
                        "del", FidOf(h), "keep")
       /\ IF h \in Files
            THEN row' = [row EXCEPT ![h] = Cleared(@)] /\ UNCHANGED loose
            ELSE loose' = (loose \ {h}) \cup {[h EXCEPT !.lid = 0]} /\ UNCHANGED row
  /\ UNCHANGED <<list, known, adrift, astray>>

\* remove_from_mylist() on one of them: its row is cleared once the removal is
\* sent, whatever becomes of it.
Clear ==
  /\ At("clear")
  /\ \E h \in call.todo :
       /\ GoesOnSending([call EXCEPT !.pc = "clearing", !.todo = @ \ {h}],
                        "del", FidOf(h), "keep")
       /\ IF h \in Files
            THEN row' = [row EXCEPT ![h] = Cleared(@)] /\ UNCHANGED loose
            ELSE loose' = loose \ {h} /\ UNCHANGED row
  /\ UNCHANGED <<list, known, adrift, astray>>

ClearNext ==
  /\ Answered("clearing")
  /\ GoesOn([call EXCEPT !.pc = IF call.todo = {} THEN "add" ELSE "clear"])
  /\ UNCHANGED <<list, known, row, loose, adrift, astray>>

\* By fid where there is one; a generic file sends one add per episode.
Add ==
  /\ At("add")
  /\ IF row[call.on].fid # None
       THEN GoesOnSending([call EXCEPT !.pc = "adding"], "add", row[call.on].fid, call.asked)
       ELSE GoesOnSending([call EXCEPT !.pc = "adding", !.eps = Tail(EpisodesToAdd)],
                          "add generic", Head(EpisodesToAdd), call.asked)
  /\ UNCHANGED <<list, known, row, loose, adrift, astray>>

\* A reply with a number above one in it is a lid.
LearnsLid(f, entry) ==
  row' = IF entry = None \/ row[f] = None THEN row
         ELSE [row EXCEPT ![f].lid = entry.lid]

\* A bug: an add whose reply carries the lid is not read back.
AddTrustingReply ==
  /\ Answered("adding")
  /\ LearnsLid(call.on, request.reply.entry)
  /\ CASE call.eps # <<>> -> GoesOnSending([call EXCEPT !.eps = Tail(@)],
                                           "add generic", Head(call.eps), call.asked)
       [] call.eps = <<>> /\ request.reply.entry # None -> Returns("done")
       [] OTHER -> GoesOnSending([call EXCEPT !.pc = "read back"], "list",
                                 IF call.byFid THEN call.on ELSE EpisodeOf(call.on), "keep")
  /\ UNCHANGED <<list, known, loose, adrift, astray>>

AddNext ==
  /\ Answered("adding")
  /\ LearnsLid(call.on, request.reply.entry)
  /\ IF call.eps # <<>>
       THEN GoesOnSending([call EXCEPT !.eps = Tail(@)],
                          "add generic", Head(call.eps), call.asked)
       ELSE GoesOnSending([call EXCEPT !.pc = "read back"], "list",
                          IF call.byFid THEN call.on ELSE EpisodeOf(call.on), "keep")
  /\ UNCHANGED <<list, known, loose, adrift, astray>>

ReadBack == Answered("read back") /\ TakeEntry(call.on, Returns("done"))

\* Whatever AniDB answered, the row takes what was asked.
Edit ==
  /\ Answered("editing")
  /\ row' = [row EXCEPT ![call.on].watched = (call.asked = "yes")]
  /\ Returns("done")
  /\ UNCHANGED <<list, known, loose, adrift, astray>>

-----------------------------------------------------------------------------
(* remove_from_mylist, by itself and in a promotion *)

\* A row with a fid is removed by it and cleared as the removal is sent; a
\* generic one by its episodes, one after the other, and cleared at the end.
ByIdentity == row[call.on].fid # None /\ ~call.spanned

\* A bug: only a generic row is cleared.
SendRemovalOnly(pc, waiting) ==
  /\ At(pc)
  /\ IF ByIdentity
       THEN GoesOnSending([call EXCEPT !.pc = waiting], "del", row[call.on].fid, "keep")
       ELSE GoesOnSending([call EXCEPT !.pc = waiting, !.eps = Tail(EpisodesToRemove)],
                          "del", Head(EpisodesToRemove), "keep")
  /\ UNCHANGED <<list, known, row, loose, adrift, astray>>

SendRemoval(pc, waiting) ==
  /\ At(pc)
  /\ IF ByIdentity
       THEN /\ GoesOnSending([call EXCEPT !.pc = waiting], "del", row[call.on].fid, "keep")
            /\ row' = [row EXCEPT ![call.on] = Cleared(@)]
       ELSE /\ GoesOnSending([call EXCEPT !.pc = waiting, !.eps = Tail(EpisodesToRemove)],
                             "del", Head(EpisodesToRemove), "keep")
            /\ UNCHANGED row
  /\ UNCHANGED <<list, known, loose, adrift, astray>>

RemoveNext(waiting) ==
  /\ Answered(waiting) /\ call.eps # <<>>
  /\ GoesOnSending([call EXCEPT !.eps = Tail(@)], "del", Head(call.eps), "keep")
  /\ UNCHANGED <<list, known, row, loose, adrift, astray>>

SendRemove == SendRemoval("remove", "removing")

Removed ==
  /\ Answered("removing") /\ call.eps = <<>>
  /\ row' = IF ByIdentity THEN row ELSE [row EXCEPT ![call.on] = Cleared(@)]
  /\ Returns("done")
  /\ UNCHANGED <<list, known, loose, adrift, astray>>

Retire == SendRemoval("retire", "retiring")

\* The row becomes the real file's, with the fields set aside; then
\* update_mylist(), still in the callback, reads the lid and waits for the fetch
\* to end, which waits for this callback.
Retired ==
  /\ Answered("retiring") /\ call.eps = <<>>
  /\ row' = [row EXCEPT ![call.on] = [generic |-> FALSE, fid |-> call.on, lid |-> 0,
                                      watched |-> call.asked = "yes"]]
  /\ GoesOn([call EXCEPT !.pc = "stalled"])
  /\ UNCHANGED <<list, known, loose, adrift, astray>>

\* REQUEST_TIMEOUT ends the fetch, with an exception for its caller, and lets
\* the promotion go on.
Unstall ==
  /\ At("stalled")
  /\ call' = [call EXCEPT !.pc = "decide"]
  /\ told' = "raised"
  /\ UNCHANGED <<list, known, row, loose, request, adrift, astray>>

-----------------------------------------------------------------------------
(* The world *)

\* Two files of one episode share its generic entry: removed for one of them, it
\* is still named by the other's row.
TakenFromOthers ==
  {EpisodeOf(x.fid) : x \in {y \in list \ Served(request) :
     \E g \in Files \ (call.todo \cup {call.on}) : HasEntry(g) /\ row[g].lid = y.lid}}

\* AniDB serves the request and its reply arrives.
Serve ==
  /\ request # None /\ request.reply = None
  /\ list' = Served(request)
  /\ request' = [request EXCEPT !.reply = Reply(request)]
  /\ astray' = astray \cup TakenFromOthers
  /\ UNCHANGED <<known, row, loose, call, adrift, told>>

\* The reply is lost: the transport asks again.  (Its budget of attempts is
\* Transport's; here a reply may be lost any number of times.)
LoseReply ==
  /\ request # None /\ request.reply # None
  /\ request' = [request EXCEPT !.reply = None]
  /\ UNCHANGED <<list, known, row, loose, call, adrift, told, astray>>

\* A removal in several commands that stops half-way leaves rows that name what
\* is gone already.
HalfRemoved ==
  IF \/ At("removing") /\ ~ByIdentity
     \/ call # None /\ \E h \in call.todo : ~InList(h)
    THEN {EpisodeOf(call.on)} ELSE {}

\* The transport gives the request up (refused, banned, unanswered) and the
\* exception ends the call.
Fail ==
  /\ request # None /\ request.reply = None
  /\ Returns("raised")
  /\ astray' = astray \cup HalfRemoved
  /\ UNCHANGED <<list, known, row, loose, adrift>>

\* The caller gives up first; the transport holds the command still.
GiveUp ==
  /\ request # None /\ request.reply = None /\ request.kind \in GivenUp
  /\ adrift = {}
  /\ adrift' = {[kind |-> request.kind, on |-> request.on, watched |-> request.watched,
                 for |-> IF request.kind = "add" THEN call.on ELSE None]}
  /\ Returns("raised")
  /\ astray' = astray \cup HalfRemoved
  /\ UNCHANGED <<list, known, row, loose>>

\* A command given up is served after all, and its callback runs.
Drift ==
  /\ \E a \in adrift :
       /\ list' = Served(a)
       /\ adrift' = adrift \ {a}
       /\ astray' = astray \cup {EpisodeOf(x.fid) : x \in (list \ list') \cup (list' \ list)}
       /\ IF a.kind = "add" THEN LearnsLid(a.for, Reply(a).entry) ELSE UNCHANGED row
  /\ UNCHANGED <<known, loose, call, request, told>>

\* The process dies and starts again: AniDB's list and the cache remain.
Crash ==
  /\ call # None \/ adrift # {}
  /\ call' = None /\ request' = None /\ adrift' = {} /\ told' = "crashed"
  /\ astray' = astray \cup HalfRemoved
  /\ UNCHANGED <<list, known, row, loose>>

\* AniDB indexes a file.
Index(f) ==
  /\ f \notin known
  /\ known' = known \cup {f}
  /\ UNCHANGED <<list, row, loose, call, request, adrift, told, astray>>

\* The user's list starts with entries of other files, one to an episode at
\* most, and this cache with nothing.
Init ==
  /\ \E held \in SUBSET (Files \cup Others) :
       /\ \A f, g \in held : EpisodeOf(f) = EpisodeOf(g) => f = g
       /\ \E lid \in [held -> 1 .. Cardinality(held)] :
            /\ \A f, g \in held : lid[f] = lid[g] => f = g
            /\ list = {[lid |-> lid[f], fid |-> f, watched |-> FALSE] : f \in held}
       /\ known \in {k \in SUBSET Files : held \cap Files \subseteq k}
  /\ row = [f \in Files |-> None]
  /\ loose = {}
  /\ call = None /\ request = None
  /\ adrift = {}
  /\ told = "nothing"
  /\ astray = {}

AnyCall ==
  \/ \E f \in Files : Remove(f) \/ Refresh(f) \/ \E w \in Asked : Update(f, w)
  \/ \E e \in Episodes, w \in Asked : AddToMylist(e, w)

Step ==
  \/ ReportAddition \/ Infer \/ Identify \/ Promote \/ LookUp
  \/ Decide \/ AskAnidb \/ Clear \/ ClearNext \/ Add \/ AddNext \/ ReadBack \/ Edit
  \/ SendRemove \/ RemoveNext("removing") \/ Removed
  \/ Retire \/ RemoveNext("retiring") \/ Retired \/ Unstall

World ==
  \/ Serve \/ LoseReply \/ Fail \/ GiveUp \/ Drift \/ Crash
  \/ \E f \in Files : Index(f)

Next == AnyCall \/ Step \/ World

Spec == Init /\ [][Next]_vars
-----------------------------------------------------------------------------
(* Properties *)

\* The type invariant.
TypeOK ==
  /\ list \subseteq Entries /\ IsFiniteSet(list)
  /\ known \subseteq Files
  /\ row \in [Files -> Rows \cup {None}]
  /\ loose \subseteq Loose /\ IsFiniteSet(loose)
  /\ call \in Calls \cup {None}
  /\ request \in Requests \cup {None}
  /\ request # None <=> call # None /\ call.pc \in Waits
  /\ adrift \subseteq Lates /\ Cardinality(adrift) <= 1
  /\ told \in {"nothing", "waiting", "done", "raised", "crashed", "added", "already present"}
  /\ astray \subseteq Episodes

\* SPEC-004's rule: the library never leaves two entries for one episode,
\* whatever failed half-way, unless the list moved without the cache knowing.
OneEntryPerEpisode ==
  \A e \in Episodes : Cardinality(Covering(e)) > 1 => e \in astray

\* SPEC-004, without the exception: never "silently creating a second entry".
NeverASecondEntry == \A e \in Episodes : Cardinality(Covering(e)) <= 1

\* A file whose row says it is in the mylist is: the entry its row names is in the
\* list, for that file.  This is what in_mylist answers from, and what an edit is
\* sent to.
InMylistIsTrue ==
  call = None =>
    \A f \in Files : HasEntry(f) /\ EpisodeOf(f) \notin astray =>
      \E x \in list : x.lid = row[f].lid /\ x.fid = row[f].fid

\* update_mylist() that returns has done what it was asked: the file's episode
\* has one entry, the row names it, and both have the watched flag asked for.
Holds(f, asked) ==
  \E x \in list :
    /\ Covering(EpisodeOf(f)) = {x}
    /\ row'[f].lid = x.lid /\ row'[f].fid = x.fid
    /\ asked # "keep" => x.watched = (asked = "yes") /\ row'[f].watched = x.watched

UpdateDoesWhatItSays ==
  [][call # None /\ call.op = "update" /\ told = "waiting" /\ told' = "done"
       /\ EpisodeOf(call.on) \notin astray
     => Holds(call.on, call.asked)]_vars

\* A promotion that runs to its end carries the watched flag into the real
\* file's entry, when AniDB and the row agreed on it.
PromotionCarries ==
  [][Answered("read back") /\ call' = None /\ call.promoted /\ call.carried
       /\ request.reply.code = "221" /\ EpisodeOf(call.on) \notin astray
     => \E x \in list : x.fid = call.on /\ x.watched]_vars

\* _await_reply: "block until the reply has been handled, or say why it never will
\* be".  A caller gets an exception only for a request that was not answered, or
\* for an answer that is a refusal.
RaisesForAReason ==
  [][told = "waiting" /\ told' = "raised"
     => request # None /\ (request.reply = None \/ request.reply.code \in {"312", "320"})]_vars
=============================================================================
