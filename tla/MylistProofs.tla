---------------------------- MODULE MylistProofs ----------------------------
(* What the cache and the list promise each other, for any files, episodes and *)
(* spans, whoever gives up and whatever fails.                                 *)
EXTENDS Mylist, FiniteSetTheorems, TLAPS

\* The types, and the finiteness of what names lids.
Types ==
  /\ list \in SUBSET Entries /\ IsFiniteSet(list)
  /\ known \in SUBSET Files
  /\ row \in [Files -> Rows \cup {None}]
  /\ loose \in SUBSET Loose /\ IsFiniteSet(loose)
  /\ call \in Calls \cup {None}
  /\ request \in Requests \cup {None}
  /\ adrift \in SUBSET Lates /\ \A a, b \in adrift : a = b
  /\ told \in {"nothing", "waiting", "done", "raised", "crashed", "added", "already present"}
  /\ astray \in SUBSET Episodes

\* A row is the file's own, or one of its episode's generic file.
RowShape ==
  \A f \in Files : row[f] # None =>
    /\ row[f].fid \in {None, f, EpisodeOf(f)}
    /\ row[f].generic <=> row[f].fid # f
    /\ row[f].fid = None => row[f].lid = 0

\* An add given up was for a file that has a fid, or had its episode's.
LateShape ==
  \A a \in adrift :
    /\ a.kind = "add" => /\ a.for \in Files /\ row[a.for] # None /\ row[a.for].fid # None
                         /\ a.on \in {a.for, EpisodeOf(a.for)}
    /\ a.kind = "add generic" => a.on \in Episodes

\* The episode the call is about, and the fid it adds by.
Subject == EpisodeOf(call.on)
Target  == IF row[call.on].fid # None THEN row[call.on].fid ELSE Subject

\* Which requests a call waits for, and what it knows, by where it is.
CallShape ==
  call # None =>
    /\ call.pc \in Waits <=> request # None
    /\ call.op = "create" <=> call.pc = "creating"
    /\ call.op = "create" <=> call.on \in Episodes
    /\ call.pc \notin {"creating", "identify"} => row[call.on] # None
    /\ call.pc \in {"remove", "removing"} => call.op = "remove"
    /\ call.pc \in {"identify", "retire", "retiring"} => ~call.spanned
    /\ call.byFid /\ call.pc \notin {"retire", "retiring"} => row[call.on].fid = call.on
    /\ call.promoted => call.byFid
    /\ call.carried => call.asked = "yes"
    /\ call.pc \in {"identify", "lookup", "creating"} => ~call.byFid
    /\ call.eps # <<>> => call.pc \in {"adding", "removing", "retiring"}

\* The rows a call has still to clear name entries of its episode.
TodoShape ==
  call # None =>
    /\ call.pc \notin {"clear", "clearing"} => call.todo = {}
    /\ \A h \in call.todo : IF h \in Files THEN HasEntry(h) /\ EpisodeOf(h) = Subject
                            ELSE h \in Loose /\ EpisodeOf(h.fid) = Subject

\* Which request a call waits for, and what it is about.
RequestShape ==
  request # None =>
    /\ call # None
    /\ call.pc = "identify" => request.kind = "file" /\ request.on = call.on
    /\ call.pc \in {"lookup", "ask"} => request.kind = "list" /\ request.on = Subject
    /\ call.pc \in {"clearing", "removing", "retiring"} => request.kind = "del"
    /\ call.pc = "adding" =>
         /\ request.watched = call.asked
         /\ \/ /\ request.kind = "add" /\ row[call.on].fid # None
               /\ request.on = row[call.on].fid /\ call.eps = <<>>
            \/ /\ request.kind = "add generic" /\ row[call.on].fid = None
               /\ request.on \in Episodes
    /\ call.pc = "read back" => /\ request.kind = "list"
                                /\ request.on = IF call.byFid THEN call.on ELSE Subject
    /\ call.pc = "editing" => request.kind = "edit" /\ request.watched = call.asked
    /\ call.pc = "creating" => request.kind = "add generic" /\ request.on \in Episodes

\* The reply under way, if there is one, and the entry it carries.
HasReply == request # None /\ request.reply # None
ReplyEntry == HasReply /\ request.reply.entry # None

\* A reply answers what was asked.
ReplyShape ==
  HasReply =>
    LET r == request.reply
    IN /\ request.kind = "file" =>
            r.code \in {"220", "320"} /\ (r.entry # None => r.entry.fid = request.on)
       /\ request.kind = "list" =>
            /\ r.code \in {"312", "321", "221"}
            /\ r.code = "221" <=> r.entry # None
            /\ r.code = "221" => IF request.on \in Episodes
                                 THEN EpisodeOf(r.entry.fid) = request.on
                                 ELSE r.entry.fid = request.on
       /\ request.kind = "add" /\ r.entry # None => r.entry.fid = request.on
       /\ request.kind \in {"add generic", "edit", "del"} => r.entry = None

\* The entries anybody knows of: what the list, a cached row of its own and the
\* reply under way say a lid is of.
Seen(lid, fid) ==
  \/ \E x \in list : x.lid = lid /\ x.fid = fid
  \/ [fid |-> fid, lid |-> lid] \in loose
  \/ ReplyEntry /\ request.reply.entry.lid = lid /\ request.reply.entry.fid = fid

\* They never disagree about a lid ...
LidsAgree == \A n \in Nat, p, q \in Fids : Seen(n, p) /\ Seen(n, q) => p = q

\* ... and a file's row only where an add was given up for that file.
RowsAgree ==
  \A f \in Files, p \in Fids : HasEntry(f) /\ Seen(row[f].lid, p) =>
    /\ p \in {f, EpisodeOf(f)}
    /\ EpisodeOf(f) \notin astray => p = row[f].fid

\* The entry a reply carries is in the list, but for a command that drifted in.
ReplyIsCurrent ==
  ReplyEntry => \/ request.reply.entry \in list
                \/ adrift = {} /\ EpisodeOf(request.reply.entry.fid) \in astray

\* An episode whose entries only this cache changed has one entry ...
OneEntry ==
  \A x, y \in list : EpisodeOf(x.fid) = EpisodeOf(y.fid) /\ EpisodeOf(x.fid) \notin astray
    => x = y

\* ... which its rows name, but for one whose removal the call is in the middle of.
Excused(f) ==
  call # None /\ \/ f \in call.todo
                 \/ f = call.on /\ call.pc = "removing" /\ ~ByIdentity

\* An entry a row names: by its lid, and of its fid.
Names(f, x) == x.lid = row[f].lid /\ x.fid = row[f].fid

\* The row of a file names an entry of the list, but for an episode astray.
RowsAreTrue ==
  \A f \in Files :
    HasEntry(f) /\ EpisodeOf(f) \notin astray /\ ~Excused(f) => \E x \in list : Names(f, x)

\* The entry a call adds, as it was asked to.
AsAsked(x) == x.fid = Target /\ x.watched = (call.asked = "yes")

\* How far the call is with the entries of its episode.
Clearing ==
  /\ ~HasEntry(call.on)
  /\ \A x \in Covering(Subject) :
       \/ \E h \in call.todo : FidOf(h) = x.fid
       \/ call.pc = "clearing" /\ request.reply = None /\ request.on = x.fid

\* While it adds: what covers the episode is what was asked for, and something will.
Adding ==
  /\ \A x \in Covering(Subject) : AsAsked(x)
  /\ Covering(Subject) = {} =>
       request.reply = None /\ (request.kind = "add" \/ request.on = Subject)

\* What the call knows of its episode at each of its waits and steps.
Progress ==
  call # None /\ call.on \in Files /\ Subject \notin astray =>
    /\ call.pc \in {"clear", "clearing"} => Clearing
    /\ call.pc = "ask" =>
         /\ ~HasEntry(call.on)
         /\ (HasReply /\ request.reply.code = "321" => Covering(Subject) = {})
    /\ call.pc = "add" => ~HasEntry(call.on) /\ Covering(Subject) = {}
    /\ call.pc = "adding" => Adding
    /\ call.pc = "read back" =>
         /\ Covering(Subject) # {} /\ \A x \in Covering(Subject) : AsAsked(x)
         /\ HasReply => request.reply.code # "321"
    /\ call.pc = "editing" =>
         /\ HasEntry(call.on) /\ request.on = row[call.on].lid
         /\ HasReply /\ call.asked # "keep" =>
              \A x \in list : x.lid = request.on => x.watched = (call.asked = "yes")
    /\ (call.pc = "removing" /\ ByIdentity) \/ call.pc = "retiring" => ~HasEntry(call.on)

\* The inductive invariant.
IInv ==
  /\ Types /\ RowShape /\ LateShape /\ CallShape /\ TodoShape /\ RequestShape /\ ReplyShape
  /\ LidsAgree /\ RowsAgree /\ ReplyIsCurrent /\ OneEntry /\ RowsAreTrue /\ Progress

-----------------------------------------------------------------------------
(* The constants *)

\* A fid has an episode; that of a generic file is the episode itself.
LEMMA EpisodeOfType ==
  /\ \A p \in Fids : EpisodeOf(p) \in Episodes
  /\ \A e \in Episodes : EpisodeOf(e) = e
  /\ \A f \in Files : Span[f] \in Seq(Episodes) /\ Span[f] # <<>> /\ Head(Span[f]) = EpisodeOf(f)
<1>1. ASSUME NEW f \in Files \cup Others
      PROVE  Span[f] \in Seq(Episodes) /\ Span[f] # <<>> /\ Head(Span[f]) \in Episodes
  <2>1. Span[f] \in Seq(Episodes) /\ Span[f] # <<>>
    BY MylistAssumption
  <2>2. QED
    BY <2>1
<1>2. QED
  BY <1>1, MylistAssumption DEF Fids, EpisodeOf

\* What is a file, an episode, a row of its own or nothing is one thing only.
LEMMA Kept ==
  /\ Files \subseteq Fids /\ Episodes \subseteq Fids /\ Files \cap Episodes = {}
  /\ None \notin Fids /\ IsFiniteSet(Files)
  /\ None \notin Entries /\ None \notin Rows /\ None \notin Calls /\ None \notin Replies
  /\ None \notin Requests /\ \A f \in Files : f \notin Loose
<1>1. IsFiniteSet(Files)
  BY MylistAssumption, FS_Subset
<1>2. QED
  BY <1>1, MylistAssumption, NoneAssumption DEF Fids

-----------------------------------------------------------------------------
(* AniDB *)

\* The lids anything names are finitely many, so there is always a fresh one.
LEMMA NamedFinite ==
  ASSUME Types
  PROVE  IsFiniteSet(Named)
<1>1. IsFiniteSet({x.lid : x \in list})
  <2> DEFINE T == {x.lid : x \in list}
             f == [x \in list |-> x.lid]
  <2>1. f \in Surjection(list, T)
    BY DEF Surjection
  <2>2. QED
    BY <2>1, FS_Surjection DEF Types
<1>2. IsFiniteSet({x.lid : x \in loose})
  <2> DEFINE T == {x.lid : x \in loose}
             f == [x \in loose |-> x.lid]
  <2>1. f \in Surjection(loose, T)
    BY DEF Surjection
  <2>2. QED
    BY <2>1, FS_Surjection DEF Types
<1>3. IsFiniteSet({row[f].lid : f \in {g \in Files : row[g] # None}})
  <2> DEFINE S == {g \in Files : row[g] # None}
             T == {row[f].lid : f \in S}
             h == [f \in S |-> row[f].lid]
  <2>1. IsFiniteSet(S)
    BY Kept, FS_Subset
  <2>2. h \in Surjection(S, T)
    BY DEF Surjection
  <2>3. QED
    BY <2>1, <2>2, FS_Surjection
<1>4. IsFiniteSet({a.on : a \in {b \in adrift : b.kind = "edit"}})
  <2> DEFINE S == {b \in adrift : b.kind = "edit"}
             T == {a.on : a \in S}
             h == [a \in S |-> a.on]
  <2>1. IsFiniteSet(S)
    <3>1. CASE adrift = {}
      BY <3>1, FS_EmptySet
    <3>2. ASSUME NEW a \in adrift PROVE IsFiniteSet(S)
      <4>1. adrift = {a} /\ IsFiniteSet({a})
        BY FS_Singleton DEF Types
      <4>2. QED
        BY <4>1, FS_Subset
    <3>3. QED
      BY <3>1, <3>2
  <2>2. h \in Surjection(S, T)
    BY DEF Surjection
  <2>3. QED
    BY <2>1, <2>2, FS_Surjection
<1>5. QED
  BY <1>1, <1>2, <1>3, <1>4, FS_Union DEF Named

\* A fresh lid is a lid that nothing names.
LEMMA FreshLidIsFresh ==
  ASSUME Types
  PROVE  FreshLid \in Nat \ {0} /\ FreshLid \notin Named
<1> DEFINE c == Cardinality(Named)
<1>1. c \in Nat /\ IsFiniteSet(Named)
  BY NamedFinite, FS_CardinalityType
<1>2. IsFiniteSet(1 .. c + 1) /\ Cardinality(1 .. c + 1) = c + 1
  BY <1>1, FS_Interval
<1>3. \E n \in 1 .. c + 1 : n \notin Named
  <2> SUFFICES ASSUME 1 .. c + 1 \subseteq Named PROVE FALSE
    OBVIOUS
  <2>1. Cardinality(1 .. c + 1) <= c
    BY <1>1, FS_Subset
  <2>2. QED
    BY <1>1, <1>2, <2>1
<1> HIDE DEF c
<1>4. FreshLid \in 1 .. c + 1 /\ FreshLid \notin Named
  BY <1>3 DEF FreshLid, c
<1>5. QED
  BY <1>1, <1>4

\* What AniDB's list is after a command, by its kind.
LEMMA ServedDoes ==
  ASSUME Types, NEW q, q.kind \in Kinds, q.kind \in {"add", "add generic"} => q.on \in Fids
  PROVE  /\ Served(q) \subseteq Entries /\ IsFiniteSet(Served(q))
         /\ \/ Served(q) = list
            \/ /\ q.kind \in {"add", "add generic"} /\ ~Refused(q)
               /\ Served(q) = list \cup {[lid |-> FreshLid, fid |-> q.on,
                                          watched |-> q.watched = "yes"]}
            \/ q.kind = "edit"
            \/ q.kind = "del" /\ Served(q) = {x \in list : x.fid # q.on}
<1> DEFINE new == [lid |-> FreshLid, fid |-> q.on, watched |-> q.watched = "yes"]
           edited(x) == IF x.lid = q.on /\ q.watched # "keep"
                        THEN [x EXCEPT !.watched = (q.watched = "yes")] ELSE x
<1>1. CASE q.kind \in {"add", "add generic"}
  <2>1. new \in Entries
    BY <1>1, FreshLidIsFresh DEF Entries
  <2>2. list \cup {new} \subseteq Entries /\ IsFiniteSet(list \cup {new})
    BY <2>1, FS_AddElement DEF Types
  <2>3. Served(q) = IF Refused(q) THEN list ELSE list \cup {new}
    BY <1>1 DEF Served
  <2>4. QED
    BY <1>1, <2>2, <2>3 DEF Types
<1>2. CASE q.kind = "edit"
  <2>1. Served(q) = {edited(x) : x \in list}
    BY <1>2 DEF Served
  <2>2. \A x \in list : edited(x) \in Entries
    BY DEF Types, Entries
  <2>3. IsFiniteSet(Served(q))
    <3> DEFINE f == [x \in list |-> edited(x)]
    <3>1. f \in Surjection(list, Served(q))
      BY <2>1 DEF Surjection
    <3>2. QED
      BY <3>1, FS_Surjection DEF Types
  <2>4. QED
    BY <1>2, <2>1, <2>2, <2>3
<1>3. CASE q.kind = "del"
  <2>1. Served(q) = {x \in list : x.fid # q.on}
    BY <1>3 DEF Served
  <2>2. QED
    BY <1>3, <2>1, FS_Subset DEF Types
<1>4. CASE q.kind \in {"file", "list"}
  BY <1>4 DEF Served, Types
<1>5. QED
  BY <1>1, <1>2, <1>3, <1>4 DEF Kinds

-----------------------------------------------------------------------------
(* What a step of a call may do *)

\* The parts of the invariant, and the types of what is not None.
LEMMA Known ==
  ASSUME IInv
  PROVE  /\ Types /\ RowShape /\ LateShape /\ CallShape /\ TodoShape /\ RequestShape
         /\ ReplyShape /\ LidsAgree /\ RowsAgree /\ ReplyIsCurrent /\ OneEntry /\ RowsAreTrue
         /\ Progress
         /\ call # None => call \in Calls
         /\ request # None => request \in Requests
         /\ HasReply => request.reply \in Replies
         /\ ReplyEntry => request.reply.entry \in Entries
         /\ \A f \in Files : row[f] # None => row[f] \in Rows
         /\ \A x \in list : x \in Entries
<1>1. /\ call # None => call \in Calls
      /\ request # None => request \in Requests
      /\ \A f \in Files : row[f] # None => row[f] \in Rows
      /\ \A x \in list : x \in Entries
  BY DEF IInv, Types
<1>2. HasReply => request.reply \in Replies
  BY <1>1 DEF HasReply, Requests
<1>3. ReplyEntry => request.reply.entry \in Entries
  BY <1>2 DEF ReplyEntry, Replies
<1>4. QED
  BY <1>1, <1>2, <1>3 DEF IInv

\* A request as it leaves.
LEMMA SendsDoes ==
  ASSUME NEW kind \in Kinds, NEW on \in Fids \cup Nat, NEW watched \in {"yes", "no", "keep"},
         Sends(kind, on, watched)
  PROVE  /\ request' \in Requests /\ request' # None /\ request'.reply = None
         /\ request'.kind = kind /\ request'.on = on /\ request'.watched = watched
<1>1. request' = [kind |-> kind, on |-> on, watched |-> watched, reply |-> None]
  BY DEF Sends
<1>2. request' \in Requests
  BY <1>1 DEF Requests
<1>3. QED
  BY <1>1, <1>2, Kept

\* What a row may become in a step of a call: a row that names an entry named it
\* before, or it is the one in the reply.
RowFollows(f) ==
  /\ row[f] # None => row'[f] # None
  /\ row[f] # None /\ row[f].fid # None => row'[f].fid # None
  /\ row'[f] # None /\ row'[f].lid # 0 =>
       \/ /\ row[f] # None /\ row'[f].lid = row[f].lid /\ row'[f].fid = row[f].fid
          /\ Excused(f) /\ EpisodeOf(f) \notin astray' =>
               Excused(f)' \/ \E x \in list : Names(f, x)
       \/ /\ ReplyEntry /\ row'[f].lid = request.reply.entry.lid
          /\ row'[f].fid = request.reply.entry.fid

\* A step that leaves the list alone, and says of no lid what was not known.
LEMMA QuietStep ==
  ASSUME IInv, list' = list, astray \subseteq astray', ~HasReply',
         Types', RowShape', LateShape', CallShape', TodoShape', RequestShape', Progress',
         \A s \in loose' : s \in loose \/ Seen(s.lid, s.fid),
         \A f \in Files : RowFollows(f)
  PROVE  IInv'
<1>1. ~ReplyEntry'
  BY DEF ReplyEntry
<1>2. ASSUME NEW n \in Nat, NEW p \in Fids, Seen(n, p)' PROVE Seen(n, p)
  BY <1>1, <1>2 DEF Seen
<1>3. LidsAgree'
  BY <1>2, Known DEF LidsAgree
<1>4. RowsAgree'
  <2> SUFFICES ASSUME NEW f \in Files, NEW p \in Fids, HasEntry(f)', Seen(row[f].lid, p)'
               PROVE  /\ p \in {f, EpisodeOf(f)}
                      /\ EpisodeOf(f) \notin astray' => p = row'[f].fid
    BY DEF RowsAgree
  <2>1. row'[f] # None /\ row'[f].lid # 0 /\ row'[f].lid \in Nat
    BY DEF HasEntry, Types, Rows
  <2>2. Seen(row'[f].lid, p)
    BY <1>2, <2>1
  <2>3. CASE row[f] # None /\ row'[f].lid = row[f].lid /\ row'[f].fid = row[f].fid
    BY <2>1, <2>2, <2>3, Known DEF RowsAgree, HasEntry
  <2>4. CASE ReplyEntry /\ row'[f].lid = request.reply.entry.lid
             /\ row'[f].fid = request.reply.entry.fid
    <3>1. Seen(row'[f].lid, row'[f].fid) /\ row'[f].fid \in Fids
      BY <2>4, Known DEF Seen, Entries
    <3>2. p = row'[f].fid
      BY <2>1, <2>2, <3>1, Known DEF LidsAgree
    <3>3. row'[f].fid \in {f, EpisodeOf(f)}
      BY <2>1, <3>1, Kept DEF RowShape
    <3>4. QED
      BY <3>2, <3>3
  <2>5. QED
    BY <2>1, <2>3, <2>4 DEF RowFollows
<1>5. ReplyIsCurrent' /\ ReplyShape'
  BY <1>1 DEF ReplyIsCurrent, ReplyShape
<1>6. OneEntry'
  BY Known DEF OneEntry
<1>7. RowsAreTrue'
  <2> SUFFICES ASSUME NEW f \in Files, HasEntry(f)', EpisodeOf(f) \notin astray', ~Excused(f)'
               PROVE  \E x \in list : Names(f, x)'
    BY DEF RowsAreTrue
  <2>1. row'[f] # None /\ row'[f].lid # 0
    BY DEF HasEntry
  <2>2. CASE row[f] # None /\ row'[f].lid = row[f].lid /\ row'[f].fid = row[f].fid
             /\ (Excused(f) /\ EpisodeOf(f) \notin astray' =>
                   Excused(f)' \/ \E x \in list : Names(f, x))
    <3>1. HasEntry(f) /\ EpisodeOf(f) \notin astray
      BY <2>1, <2>2 DEF HasEntry
    <3>2. PICK x \in list : Names(f, x)
      BY <2>2, <3>1, Known DEF RowsAreTrue
    <3>3. QED
      BY <2>2, <3>2 DEF Names
  <2>3. CASE ReplyEntry /\ row'[f].lid = request.reply.entry.lid
             /\ row'[f].fid = request.reply.entry.fid
    <3>1. row'[f].fid \in {f, EpisodeOf(f)}
      BY <2>1, <2>3, Known, Kept DEF RowShape, Entries
    <3>2. EpisodeOf(request.reply.entry.fid) = EpisodeOf(f)
      BY <2>3, <3>1, EpisodeOfType, Kept
    <3>3. request.reply.entry \in list
      BY <2>3, <3>2, Known DEF ReplyIsCurrent
    <3>4. QED
      BY <2>3, <3>3 DEF Names
  <2>4. QED
    BY <2>1, <2>2, <2>3 DEF RowFollows
<1>8. QED
  BY <1>3, <1>4, <1>5, <1>6, <1>7 DEF IInv

\* A step of a call.
LEMMA CallStep ==
  ASSUME IInv, UNCHANGED <<list, adrift>>, astray \subseteq astray', ~HasReply',
         Types', RowShape', CallShape', TodoShape', RequestShape', Progress',
         \A s \in loose' : s \in loose \/ Seen(s.lid, s.fid),
         \A f \in Files : RowFollows(f)
  PROVE  IInv'
<1>1. LateShape'
  BY Known DEF LateShape, RowFollows
<1>2. QED
  BY <1>1, QuietStep

\* With no call there is nothing to say of one.
LEMMA NoCall ==
  ASSUME call' = None, request' = None
  PROVE  ~HasReply' /\ CallShape' /\ TodoShape' /\ RequestShape' /\ Progress'
BY DEF HasReply, CallShape, TodoShape, RequestShape, Progress

\* Rows that stay as they are follow, as long as the call still has its excuses.
LEMMA SameRows ==
  ASSUME row' = row,
         \A f \in Files : HasEntry(f) /\ Excused(f) /\ EpisodeOf(f) \notin astray' => Excused(f)'
  PROVE  (RowShape => RowShape') /\ \A f \in Files : RowFollows(f)
BY DEF RowShape, RowFollows, HasEntry

-----------------------------------------------------------------------------
(* Calls *)

\* A call as it begins.
LEMMA AsksDoes ==
  ASSUME NEW op \in {"update", "remove", "refresh", "create"}, NEW x \in Files \cup Episodes,
         NEW asked \in {"yes", "no", "keep"}, NEW pc \in Steps \cup Waits, call = None,
         Start(op, x, asked, pc)
  PROVE  /\ call' \in Calls /\ call' # None /\ call'.op = op /\ call'.on = x /\ call'.pc = pc
         /\ call'.asked = asked /\ call'.todo = {} /\ call'.eps = <<>>
         /\ ~call'.spanned /\ ~call'.byFid
         /\ ~call'.promoted /\ ~call'.carried /\ told' = "waiting"
         /\ \A f : ~Excused(f)
<1>1. call' = [op |-> op, on |-> x, asked |-> asked, pc |-> pc, eps |-> <<>>, todo |-> {},
               spanned |-> FALSE, byFid |-> FALSE, promoted |-> FALSE, carried |-> FALSE]
  BY DEF Start, Asks
<1>2. call' \in Calls
  BY <1>1 DEF Calls
<1>3. call' # None /\ told' = "waiting" /\ \A f : ~Excused(f)
  BY <1>2, Kept DEF Start, Excused
<1>4. QED
  BY <1>1, <1>2, <1>3

\* update_mylist(), remove_from_mylist() and a fetch begin.
LEMMA ActsKeeps ==
  ASSUME IInv, NEW f \in Files, NEW asked \in {"yes", "no", "keep"},
         Update(f, asked) \/ Remove(f) \/ Refresh(f)
  PROVE  IInv'
<1>1. call = None /\ request = None
  BY Known DEF Update, Remove, Refresh, Acts, Start, RequestShape
<1>2. UNCHANGED <<list, known, row, loose, adrift, astray>>
  BY DEF Update, Remove, Refresh, Acts
<1>3. PICK op \in {"update", "remove", "refresh"}, w \in {"yes", "no", "keep"},
           pc \in {"identify", "decide", "remove"} :
        /\ Start(op, f, w, pc)
        /\ \/ pc = "identify" /\ Sends("file", f, "keep")
           \/ request' = request /\ row[f] # None
              /\ ((pc = "decide" /\ op = "update") \/ (pc = "remove" /\ op = "remove"))
  <2>1. ASSUME NEW o \in {"update", "remove"}, NEW v \in {"yes", "no", "keep"},
               NEW p \in {"decide", "remove"}, Acts(o, f, v, p)
        PROVE  \/ Start(o, f, v, "identify") /\ Sends("file", f, "keep")
               \/ Start(o, f, v, p) /\ request' = request /\ row[f] # None
    BY <2>1 DEF Acts
  <2>2. CASE Update(f, asked)
    <3>1. Acts("update", f, asked, "decide")
      BY <2>2 DEF Update
    <3>2. \/ Start("update", f, asked, "identify") /\ Sends("file", f, "keep")
          \/ Start("update", f, asked, "decide") /\ request' = request /\ row[f] # None
      BY <2>1, <3>1
    <3>3. QED
      BY <3>2
  <2>3. CASE Remove(f)
    BY <2>1, <2>3 DEF Remove
  <2>4. CASE Refresh(f)
    BY <2>4 DEF Refresh
  <2>5. QED
    BY <2>2, <2>3, <2>4
<1>4. /\ call' \in Calls /\ call' # None /\ call'.op = op /\ call'.on = f
      /\ call'.todo = {} /\ call'.eps = <<>>
      /\ call'.pc = pc
      /\ ~call'.spanned /\ ~call'.byFid /\ ~call'.promoted /\ ~call'.carried
      /\ told' = "waiting" /\ \A g : ~Excused(g)
  <2>1. pc \in Steps \cup Waits /\ Start(op, f, w, pc)
    BY <1>3 DEF Steps, Waits
  <2>2. QED
    BY <1>1, <2>1, AsksDoes
<1>5. \/ /\ call'.pc = "identify" /\ request' \in Requests /\ request' # None
         /\ request'.reply = None /\ request'.kind = "file" /\ request'.on = f
      \/ /\ call'.pc = "decide" /\ request' = None /\ row[f] # None /\ op = "update"
      \/ /\ call'.pc = "remove" /\ request' = None /\ row[f] # None /\ op = "remove"
  <2>1. CASE Sends("file", f, "keep") /\ pc = "identify"
    BY <2>1, <1>4, SendsDoes, Kept DEF Kinds
  <2>2. CASE request' = request /\ row[f] # None
             /\ ((pc = "decide" /\ op = "update") \/ (pc = "remove" /\ op = "remove"))
    BY <2>2, <1>1, <1>4
  <2>3. QED
    BY <1>3, <2>1, <2>2
<1>6. Types'
  BY <1>2, <1>4, <1>5, Known DEF Types
<1>7. CallShape' /\ TodoShape'
  BY <1>2, <1>4, <1>5, Kept DEF CallShape, TodoShape, Waits
<1>8. RequestShape' /\ Progress' /\ ~HasReply'
  BY <1>4, <1>5 DEF RequestShape, Progress, HasReply
<1>9. RowShape' /\ \A g \in Files : RowFollows(g)
  BY <1>2, <1>4, SameRows, Known
<1>10. QED
  BY <1>2, <1>6, <1>7, <1>8, <1>9, CallStep

\* Episode.add_to_mylist() begins.
LEMMA AddToMylistKeeps ==
  ASSUME IInv, NEW e \in Episodes, NEW asked \in {"yes", "no", "keep"}, AddToMylist(e, asked)
  PROVE  IInv'
<1>1. call = None /\ UNCHANGED <<list, known, row, loose, adrift, astray>>
  BY DEF AddToMylist, Start
<1>2. /\ call' \in Calls /\ call' # None /\ call'.op = "create" /\ call'.on = e
      /\ call'.pc = "creating" /\ call'.todo = {} /\ call'.eps = <<>>
      /\ ~call'.spanned /\ ~call'.byFid /\ ~call'.promoted /\ ~call'.carried
      /\ told' = "waiting" /\ \A g : ~Excused(g)
  <2>1. Start("create", e, asked, "creating") /\ "creating" \in Steps \cup Waits
    BY DEF AddToMylist, Waits
  <2>2. QED
    BY <1>1, <2>1, AsksDoes
<1>3. /\ request' \in Requests /\ request' # None /\ request'.reply = None
      /\ request'.kind = "add generic" /\ request'.on = e
  <2>1. Sends("add generic", e, asked)
    BY DEF AddToMylist
  <2>2. QED
    BY <2>1, SendsDoes, Kept DEF Kinds
<1>4. Types'
  BY <1>1, <1>2, <1>3, Known DEF Types
<1>5. CallShape' /\ TodoShape'
  BY <1>1, <1>2, <1>3, Kept DEF CallShape, TodoShape, Waits
<1>6. RequestShape' /\ Progress' /\ ~HasReply'
  BY <1>2, <1>3, Kept DEF RequestShape, Progress, HasReply
<1>7. RowShape' /\ \A g \in Files : RowFollows(g)
  BY <1>1, <1>2, SameRows, Known
<1>8. QED
  BY <1>1, <1>4, <1>5, <1>6, <1>7, CallStep

\* Only a call that clears, or removes by episodes, leaves rows unsure.
LEMMA NoExcuse ==
  ASSUME IInv, call # None => call.pc \notin {"clear", "clearing", "removing"}
  PROVE  \A f : ~Excused(f)
BY Known DEF Excused, TodoShape

\* A call ends.
LEMMA ReturnsKeeps ==
  ASSUME IInv, NEW o \in {"done", "raised", "added", "already present"}, Returns(o),
         UNCHANGED <<list, known, adrift, astray>>,
         row' \in [Files -> Rows \cup {None}], RowShape',
         loose' \in SUBSET Loose, IsFiniteSet(loose'),
         \A s \in loose' : s \in loose \/ Seen(s.lid, s.fid),
         \A f \in Files : RowFollows(f)
  PROVE  IInv'
<1>1. call' = None /\ request' = None /\ told' \in {told, o}
  BY DEF Returns
<1>2. Types'
  BY <1>1, Known DEF Types
<1>3. QED
  BY <1>1, <1>2, NoCall, CallStep

\* A call with its file identified goes on, or is done.
LEMMA ResumeKeeps ==
  ASSUME IInv, NEW c \in Calls, Resume(c), c.op \in {"update", "remove", "refresh"},
         c.on \in Files, c.todo = {}, c.eps = <<>>, c.byFid => row'[c.on].fid = c.on,
         c.promoted => c.byFid, c.carried => c.asked = "yes", row'[c.on] # None,
         UNCHANGED <<list, known, adrift, astray>>,
         row' \in [Files -> Rows \cup {None}], RowShape',
         loose' \in SUBSET Loose, IsFiniteSet(loose'),
         \A s \in loose' : s \in loose \/ Seen(s.lid, s.fid),
         \A f \in Files : RowFollows(f)
  PROVE  IInv'
<1>1. CASE c.op = "refresh"
  <2>1. Returns("done")
    BY <1>1 DEF Resume
  <2>2. QED
    BY <2>1, ReturnsKeeps
<1>2. CASE c.op # "refresh"
  <2>1. PICK pc \in {"decide", "remove"} :
          GoesOn([c EXCEPT !.pc = pc]) /\ (pc = "remove" => c.op = "remove")
    BY <1>2 DEF Resume
  <2>2. /\ call' \in Calls /\ call' # None /\ call'.pc = pc /\ call'.op = c.op
        /\ call'.on = c.on /\ call'.todo = {} /\ call'.eps = <<>> /\ call'.byFid = c.byFid
        /\ call'.promoted = c.promoted /\ call'.carried = c.carried /\ call'.asked = c.asked
        /\ request' = None /\ told' = told
    <3>1. call' = [c EXCEPT !.pc = pc] /\ request' = None /\ told' = told
      BY <2>1 DEF GoesOn
    <3>2. call' \in Calls
      BY <3>1 DEF Calls, Steps
    <3>3. QED
      BY <3>1, <3>2, Kept DEF Calls
  <2>3. Types'
    BY <2>2, Known DEF Types
  <2>4. CallShape' /\ TodoShape'
    BY <1>2, <2>1, <2>2, Kept DEF CallShape, TodoShape, Waits
  <2>5. RequestShape' /\ Progress' /\ ~HasReply'
    BY <2>1, <2>2 DEF RequestShape, Progress, HasReply
  <2>6. QED
    BY <2>3, <2>4, <2>5, CallStep
<1>3. QED
  BY <1>1, <1>2

\* Episode.add_to_mylist() ends.
LEMMA ReportAdditionKeeps ==
  ASSUME IInv, ReportAddition
  PROVE  IInv'
<1>1. UNCHANGED <<list, known, row, loose, adrift, astray>> /\ call.pc = "creating"
  BY DEF ReportAddition, Answered, At
<1>2. \A f : ~Excused(f)
  BY <1>1, NoExcuse
<1>3. RowShape' /\ \A f \in Files : RowFollows(f)
  BY <1>1, <1>2, SameRows, Known
<1>4. PICK o \in {"added", "already present"} : Returns(o)
  BY DEF ReportAddition
<1>5. row' \in [Files -> Rows \cup {None}] /\ loose' \in SUBSET Loose /\ IsFiniteSet(loose')
  BY <1>1, Known DEF Types
<1>6. QED
  BY <1>1, <1>3, <1>4, <1>5, ReturnsKeeps

-----------------------------------------------------------------------------
(* Identifying the file *)

\* A call as it waits for its file's identity.
LEMMA Identifying ==
  ASSUME IInv, Answered("identify")
  PROVE  /\ call \in Calls /\ call # None /\ call.pc = "identify"
         /\ call.op \in {"update", "remove", "refresh"} /\ call.on \in Files
         /\ call.todo = {} /\ call.eps = <<>>
         /\ ~call.byFid /\ ~call.promoted /\ ~call.spanned
         /\ call.carried => call.asked = "yes"
         /\ HasReply /\ request.kind = "file" /\ request.on = call.on
         /\ ReplyEntry => request.reply.entry.fid = call.on
         /\ \A f : ~Excused(f)
<1>1. call \in Calls /\ call # None /\ call.pc = "identify" /\ HasReply
  BY Known DEF Answered, At, HasReply
<1>2. /\ call.op # "create" /\ call.on \notin Episodes /\ call.todo = {} /\ call.eps = <<>>
      /\ ~call.byFid
      /\ ~call.promoted /\ ~call.spanned /\ (call.carried => call.asked = "yes")
  BY <1>1, Known DEF CallShape, TodoShape
<1>3. call.op \in {"update", "remove", "refresh"} /\ call.on \in Files
  BY <1>1, <1>2 DEF Calls
<1>4. request.kind = "file" /\ request.on = call.on
  BY <1>1, Known DEF RequestShape, HasReply
<1>5. ReplyEntry => request.reply.entry.fid = call.on
  BY <1>1, <1>4, Known DEF ReplyShape, ReplyEntry
<1>6. \A f : ~Excused(f)
  BY <1>1, NoExcuse
<1>7. QED
  BY <1>1, <1>2, <1>3, <1>4, <1>5, <1>6

\* A call sends the request for its file's mylist entry.
LEMMA LooksUpKeeps ==
  ASSUME IInv, NEW c \in Calls, LooksUp(c), c.op \in {"update", "remove", "refresh"},
         c.on \in Files, c.todo = {}, c.eps = <<>>, ~c.byFid, ~c.promoted,
         c.carried => c.asked = "yes", row'[c.on] # None,
         UNCHANGED <<list, known, loose, adrift, astray>>,
         row' \in [Files -> Rows \cup {None}], RowShape',
         \A f \in Files : RowFollows(f)
  PROVE  IInv'
<1>1. call' = [c EXCEPT !.pc = "lookup"] /\ Sends("list", EpisodeOf(c.on), "keep")
      /\ told' = told
  BY DEF LooksUp, GoesOnSending
<1>2. /\ call' \in Calls /\ call' # None /\ call'.pc = "lookup" /\ call'.op = c.op
      /\ call'.on = c.on /\ call'.todo = {} /\ call'.eps = <<>> /\ ~call'.byFid
      /\ ~call'.promoted /\ call'.carried = c.carried /\ call'.asked = c.asked
  <2>1. call' \in Calls
    BY <1>1 DEF Calls, Waits
  <2>2. QED
    BY <1>1, <2>1, Kept DEF Calls
<1>3. EpisodeOf(c.on) \in Episodes
  BY EpisodeOfType, Kept
<1>4. /\ request' \in Requests /\ request' # None /\ request'.reply = None
      /\ request'.kind = "list" /\ request'.on = EpisodeOf(c.on)
  <2>1. "list" \in Kinds /\ EpisodeOf(c.on) \in Fids \cup Nat
    BY <1>3, Kept DEF Kinds
  <2>2. QED
    BY <1>1, <2>1, SendsDoes
<1>5. Types'
  BY <1>1, <1>2, <1>4, Known DEF Types
<1>6. CallShape' /\ TodoShape'
  BY <1>2, <1>4, Kept DEF CallShape, TodoShape, Waits
<1>7. RequestShape' /\ Progress' /\ ~HasReply'
  BY <1>2, <1>4 DEF RequestShape, Progress, HasReply, Subject
<1>8. QED
  BY <1>5, <1>6, <1>7, CallStep

\* A file AniDB does not know gets a row from its name, or goes on with the one it has.
LEMMA InferKeeps ==
  ASSUME IInv, Infer
  PROVE  IInv'
<1>1. Answered("identify") /\ UNCHANGED <<list, known, loose, adrift, astray>>
  BY DEF Infer
<1>2. row \in [Files -> Rows \cup {None}] /\ loose \in SUBSET Loose /\ IsFiniteSet(loose)
  BY Known DEF Types
<1>3. ASSUME row' = row PROVE RowShape' /\ \A f \in Files : RowFollows(f)
  BY <1>1, <1>3, SameRows, Identifying, Known
<1>4. CASE Returns("raised") /\ row' = row
  BY <1>1, <1>2, <1>3, <1>4, ReturnsKeeps
<1>5. CASE LooksUp(call) /\ row[call.on] # None /\ row' = row
  BY <1>1, <1>2, <1>3, <1>5, Identifying, LooksUpKeeps
<1>6. CASE Resume(call) /\ row[call.on] # None /\ row' = row
  BY <1>1, <1>2, <1>3, <1>6, Identifying, ResumeKeeps
<1>7. CASE row[call.on] = None /\ LooksUp([call EXCEPT !.spanned = TRUE])
           /\ row' = [row EXCEPT ![call.on] = [generic |-> TRUE, fid |-> None, lid |-> 0,
                                               watched |-> FALSE]]
  <2> DEFINE new == [generic |-> TRUE, fid |-> None, lid |-> 0, watched |-> FALSE]
             c == [call EXCEPT !.spanned = TRUE]
  <2>1. new \in Rows
    BY DEF Rows
  <2>2. row' \in [Files -> Rows \cup {None}] /\ row'[call.on] = new
        /\ \A f \in Files : f # call.on => row'[f] = row[f]
    BY <1>1, <1>2, <1>7, <2>1, Identifying
  <2>3. new # None /\ new.fid = None /\ new.lid = 0 /\ new.generic
    BY <2>1, Kept
  <2> HIDE DEF new
  <2>4. RowShape'
    <3>1. call.on # None
      BY <1>1, Identifying, Kept
    <3>2. QED
      BY <2>2, <2>3, <3>1, Known DEF RowShape
  <2>5. \A f \in Files : RowFollows(f)
    BY <1>1, <1>7, <2>2, <2>3, Identifying DEF RowFollows
  <2>6. /\ c \in Calls /\ c.op = call.op /\ c.on = call.on /\ c.todo = call.todo /\ c.eps = call.eps
        /\ c.byFid = call.byFid /\ c.promoted = call.promoted
        /\ c.carried = call.carried /\ c.asked = call.asked
    BY <1>1, Identifying DEF Calls
  <2>7. LooksUp(c)
    BY <1>7
  <2> HIDE DEF c
  <2>8. QED
    BY <1>1, <2>2, <2>3, <2>4, <2>5, <2>6, <2>7, Identifying, LooksUpKeeps
<1>8. QED
  BY <1>4, <1>5, <1>6, <1>7 DEF Infer

\* A file AniDB knows gets its own row, with the entry the reply carries.
LEMMA IdentifyKeeps ==
  ASSUME IInv, Identify
  PROVE  IInv'
<1> DEFINE new == Identified(call.on, request.reply.entry)
           c == [call EXCEPT !.byFid = TRUE]
<1>1. /\ Answered("identify") /\ UNCHANGED <<list, known, loose, adrift, astray>>
      /\ row' = [row EXCEPT ![call.on] = new] /\ Resume(c)
  BY DEF Identify
<1>2. row \in [Files -> Rows \cup {None}] /\ loose \in SUBSET Loose /\ IsFiniteSet(loose)
  BY Known DEF Types
<1>3. /\ new \in Rows /\ new.fid = call.on /\ ~new.generic
      /\ new.lid # 0 => /\ ReplyEntry /\ new.lid = request.reply.entry.lid
                        /\ new.fid = request.reply.entry.fid
  <2>1. CASE request.reply.entry = None
    BY <1>1, <2>1, Identifying, Kept DEF Identified, Rows
  <2>2. CASE request.reply.entry # None
    <3>1. ReplyEntry
      BY <1>1, <2>2, Identifying DEF ReplyEntry
    <3>2. request.reply.entry \in Entries
      BY <3>1, Known
    <3>3. QED
      BY <1>1, <2>2, <3>1, <3>2, Identifying, Kept DEF Identified, Rows, Entries
  <2>3. QED
    BY <2>1, <2>2
<1> HIDE DEF new
<1>4. row' \in [Files -> Rows \cup {None}] /\ row'[call.on] = new
      /\ \A f \in Files : f # call.on => row'[f] = row[f]
  BY <1>1, <1>2, <1>3, Identifying
<1>5. RowShape'
  BY <1>3, <1>4, <1>1, Identifying, Kept, Known DEF RowShape
<1>6. \A f \in Files : RowFollows(f)
  <2> TAKE f \in Files
  <2>1. CASE f = call.on
    BY <2>1, <1>1, <1>3, <1>4, Identifying, Kept DEF RowFollows
  <2>2. CASE f # call.on
    BY <2>2, <1>1, <1>4, Identifying DEF RowFollows
  <2>3. QED
    BY <2>1, <2>2
<1>7. /\ c \in Calls /\ c.op = call.op /\ c.on = call.on /\ c.todo = call.todo /\ c.eps = call.eps
      /\ c.byFid /\ c.promoted = call.promoted
      /\ c.carried = call.carried /\ c.asked = call.asked
  BY <1>1, Identifying DEF Calls
<1> HIDE DEF c
<1>8. new # None
  BY <1>3, Kept
<1>9. QED
  BY <1>1, <1>2, <1>3, <1>4, <1>5, <1>6, <1>7, <1>8, Identifying, ResumeKeeps

\* A generic row that AniDB has indexed since starts its promotion.
LEMMA PromoteKeeps ==
  ASSUME IInv, Promote
  PROVE  IInv'
<1> DEFINE asked == IF row[call.on].watched THEN "yes" ELSE "keep"
           carried == row[call.on].watched
                        /\ \E x \in list : x.lid = row[call.on].lid /\ x.watched
<1>1. /\ Answered("identify") /\ UNCHANGED <<list, known, row, loose, adrift, astray>>
      /\ row[call.on] # None
      /\ GoesOn([call EXCEPT !.pc = "retire", !.byFid = TRUE, !.promoted = TRUE,
                 !.asked = asked, !.carried = carried])
  BY DEF Promote, IsGenericRow
<1>2. asked \in {"yes", "no", "keep"} /\ carried \in BOOLEAN /\ (carried => asked = "yes")
  <2>1. row[call.on] \in Rows
    BY <1>1, Identifying, Known
  <2>2. row[call.on].watched \in BOOLEAN
    BY <2>1 DEF Rows
  <2>3. QED
    BY <2>2
<1> HIDE DEF asked, carried
<1>3. /\ call' = [call EXCEPT !.pc = "retire", !.byFid = TRUE, !.promoted = TRUE,
                              !.asked = asked, !.carried = carried]
      /\ request' = None /\ told' = told
  BY <1>1 DEF GoesOn
<1>4. /\ call' \in Calls /\ call' # None /\ call'.pc = "retire" /\ call'.op = call.op
      /\ call'.on = call.on /\ call'.todo = {} /\ call'.eps = <<>> /\ ~call'.spanned
      /\ call'.byFid /\ (call'.carried => call'.asked = "yes")
  <2>1. call' \in Calls
    BY <1>1, <1>2, <1>3, Identifying DEF Calls, Steps
  <2>2. QED
    BY <1>1, <1>2, <1>3, <2>1, Identifying, Kept DEF Calls
<1>5. Types'
  BY <1>1, <1>3, <1>4, Known DEF Types
<1>6. CallShape' /\ TodoShape'
  BY <1>1, <1>3, <1>4, Identifying, Kept DEF CallShape, TodoShape, Waits
<1>7. RequestShape' /\ Progress' /\ ~HasReply'
  BY <1>3, <1>4 DEF RequestShape, Progress, HasReply
<1>8. RowShape' /\ \A f \in Files : RowFollows(f)
  BY <1>1, Identifying, SameRows, Known
<1>9. QED
  BY <1>1, <1>5, <1>6, <1>7, <1>8, CallStep

\* A call as it waits for a mylist reply about its file.
LEMMA Listing ==
  ASSUME IInv, Answered("lookup") \/ Answered("read back")
  PROVE  /\ call \in Calls /\ call # None /\ call.pc \in {"lookup", "read back"}
         /\ call.op \in {"update", "remove", "refresh"} /\ call.on \in Files
         /\ call.todo = {} /\ call.eps = <<>>
         /\ row[call.on] # None /\ (call.promoted => call.byFid)
         /\ (call.carried => call.asked = "yes")
         /\ (call.pc = "lookup" => ~call.byFid)
         /\ (call.byFid => row[call.on].fid = call.on)
         /\ HasReply /\ request.kind = "list"
         /\ request.on = (IF call.byFid THEN call.on ELSE Subject)
         /\ \A f : ~Excused(f)
<1>1. call \in Calls /\ call # None /\ call.pc \in {"lookup", "read back"} /\ HasReply
  BY Known DEF Answered, At, HasReply
<1>2. /\ call.op # "create" /\ call.on \notin Episodes /\ call.todo = {} /\ call.eps = <<>>
      /\ row[call.on] # None /\ (call.promoted => call.byFid)
      /\ (call.carried => call.asked = "yes")
      /\ (call.pc = "lookup" => ~call.byFid)
      /\ (call.byFid => row[call.on].fid = call.on)
  BY <1>1, Known DEF CallShape, TodoShape
<1>3. call.op \in {"update", "remove", "refresh"} /\ call.on \in Files
  BY <1>1, <1>2 DEF Calls
<1>4. request.kind = "list" /\ request.on = (IF call.byFid THEN call.on ELSE Subject)
  BY <1>1, <1>2, Known DEF RequestShape, HasReply
<1>5. \A f : ~Excused(f)
  BY <1>1, NoExcuse
<1>6. QED
  BY <1>1, <1>2, <1>3, <1>4, <1>5

\* The entry a mylist reply brings is of the file's episode.
LEMMA ListedEntry ==
  ASSUME IInv, Answered("lookup") \/ Answered("read back"), request.reply.code = "221"
  PROVE  /\ ReplyEntry /\ request.reply.entry \in Entries
         /\ EpisodeOf(request.reply.entry.fid) = Subject
         /\ call.byFid => request.reply.entry.fid = call.on
<1>1. request.reply.entry # None /\ ReplyEntry
  BY Listing, Known DEF ReplyShape, ReplyEntry
<1>2. request.reply.entry \in Entries
  BY <1>1, Known
<1>3. Subject \in Episodes /\ call.on \notin Episodes
  BY Listing, EpisodeOfType, Kept DEF Subject
<1>4. IF request.on \in Episodes THEN EpisodeOf(request.reply.entry.fid) = request.on
      ELSE request.reply.entry.fid = request.on
  BY Listing, Known DEF ReplyShape
<1>5. QED
  BY <1>1, <1>2, <1>3, <1>4, Listing DEF Subject

\* The row an entry becomes.
LEMMA AdoptedDoes ==
  ASSUME NEW x \in Entries
  PROVE  /\ Adopted(x) \in Rows /\ Adopted(x) # None
         /\ Adopted(x).fid = x.fid /\ Adopted(x).lid = x.lid
         /\ Adopted(x).generic <=> x.fid \in Episodes
<1>1. x.lid \in Nat /\ x.fid \in Fids /\ x.watched \in BOOLEAN
      /\ (x.fid \in Episodes) \in BOOLEAN
  BY DEF Entries
<1>2. Adopted(x) \in Rows
  BY <1>1 DEF Adopted, Rows
<1>3. QED
  BY <1>2, Kept DEF Adopted

\* An entry becomes the row of the file, of the file that had its lid, or its own.
LEMMA KeepsEntryDoes ==
  ASSUME IInv, Answered("lookup") \/ Answered("read back"), request.reply.code = "221",
         KeepsEntry(call.on, request.reply.entry), astray' = astray
  PROVE  /\ row' \in [Files -> Rows \cup {None}] /\ RowShape'
         /\ loose' \in SUBSET Loose /\ IsFiniteSet(loose')
         /\ \A s \in loose' : s \in loose \/ Seen(s.lid, s.fid)
         /\ \A f \in Files : RowFollows(f)
         /\ row'[call.on] # None
<1> DEFINE f == call.on
           x == request.reply.entry
           new == Adopted(x)
<1>1. x \in Entries /\ ReplyEntry /\ Seen(x.lid, x.fid) /\ EpisodeOf(x.fid) = EpisodeOf(f)
  BY ListedEntry DEF Seen, Subject
<1>2. x.lid \in Nat \ {0} /\ x.fid \in Fids /\ x.watched \in BOOLEAN
  BY <1>1 DEF Entries
<1>3. /\ new \in Rows /\ new # None /\ new.fid = x.fid /\ new.lid = x.lid
      /\ (new.generic <=> x.fid \in Episodes)
  BY <1>1, AdoptedDoes
<1>4. f \in Files /\ row[f] # None /\ row[f] \in Rows /\ \A g : ~Excused(g)
  BY Listing, Known
<1>5. row \in [Files -> Rows \cup {None}] /\ loose \in SUBSET Loose /\ IsFiniteSet(loose)
  BY Known DEF Types
<1> HIDE DEF x, new, f
<1>6. ASSUME NEW g \in Files, row[g] # None, x.fid \in {g, EpisodeOf(g)},
             row' = [row EXCEPT ![g] = new], loose' = loose
      PROVE  /\ row' \in [Files -> Rows \cup {None}] /\ RowShape'
             /\ \A h \in Files : RowFollows(h)
             /\ row'[f] # None
  <2>1. row' \in [Files -> Rows \cup {None}] /\ row'[g] = new
        /\ \A h \in Files : h # g => row'[h] = row[h]
    BY <1>3, <1>5, <1>6
  <2>2. EpisodeOf(g) \in Episodes /\ g \notin Episodes
    BY EpisodeOfType, Kept
  <2>3. RowShape'
    <3>1. ASSUME NEW h \in Files, row'[h] # None
          PROVE  /\ row'[h].fid \in {None, h, EpisodeOf(h)}
                 /\ row'[h].generic <=> row'[h].fid # h
                 /\ row'[h].fid = None => row'[h].lid = 0
      <4>1. CASE h = g
        <5>1. row'[h].fid = x.fid /\ row'[h].generic = new.generic
          BY <4>1, <1>3, <2>1
        <5>2. x.fid # h <=> x.fid \in Episodes
          BY <4>1, <1>6, <2>2
        <5>3. x.fid # None
          BY <1>2, Kept
        <5>4. QED
          BY <4>1, <1>3, <1>6, <5>1, <5>2, <5>3
      <4>2. CASE h # g
        BY <3>1, <4>2, <2>1, Known DEF RowShape
      <4>3. QED
        BY <4>1, <4>2
    <3>2. QED
      BY <3>1 DEF RowShape
  <2>4. \A h \in Files : RowFollows(h)
    <3> TAKE h \in Files
    <3>1. CASE h = g
      BY <3>1, <1>1, <1>2, <1>3, <2>1, Kept DEF RowFollows, x
    <3>2. CASE h # g
      BY <3>2, <1>4, <2>1 DEF RowFollows
    <3>3. QED
      BY <3>1, <3>2
  <2>5. QED
    BY <1>3, <1>4, <2>1, <2>3, <2>4
<1>7. CASE ~NotUs(f, x) /\ row' = [row EXCEPT ![f] = new] /\ loose' = loose
  <2>1. CASE row[f].generic
    <3>1. x.fid \in Episodes
      BY <1>7, <2>1 DEF NotUs
    <3>2. x.fid = EpisodeOf(f)
      BY <1>1, <3>1, EpisodeOfType
    <3>3. QED
      BY <1>4, <1>5, <1>6, <1>7, <3>2 DEF f
  <2>2. CASE ~row[f].generic
    <3>1. x.fid = row[f].fid
      BY <1>7, <2>2 DEF NotUs
    <3>2. row[f].fid = f
      BY <1>4, <2>2, Known DEF RowShape
    <3>3. QED
      BY <1>4, <1>5, <1>6, <1>7, <3>1, <3>2 DEF f
  <2>3. QED
    BY <2>1, <2>2
<1>8. ASSUME NEW g \in Files, row[g] # None, row[g].lid = x.lid,
             row' = [row EXCEPT ![g] = new], loose' = loose
      PROVE  x.fid \in {g, EpisodeOf(g)}
  BY <1>1, <1>2, <1>8, Known DEF RowsAgree, HasEntry
<1>9. CASE row' = row /\ loose' = loose \cup {[fid |-> x.fid, lid |-> x.lid]}
  <2> DEFINE s == [fid |-> x.fid, lid |-> x.lid]
  <2>1. s \in Loose /\ s.lid = x.lid /\ s.fid = x.fid
    BY <1>2 DEF Loose
  <2>2. loose' = loose \cup {s}
    BY <1>9
  <2> HIDE DEF s
  <2>3. loose' \in SUBSET Loose /\ IsFiniteSet(loose')
    BY <1>5, <2>1, <2>2, FS_AddElement
  <2>4. \A t \in loose' : t \in loose \/ Seen(t.lid, t.fid)
    BY <1>1, <2>1, <2>2
  <2>5. RowShape' /\ \A g \in Files : RowFollows(g)
    BY <1>4, <1>9, SameRows, Known
  <2>6. QED
    BY <1>4, <1>5, <1>9, <2>3, <2>4, <2>5 DEF f
<1>10. \/ ~NotUs(f, x) /\ row' = [row EXCEPT ![f] = new] /\ loose' = loose
       \/ \E g \in Files : /\ row[g] # None /\ row[g].lid = x.lid
                           /\ row' = [row EXCEPT ![g] = new] /\ loose' = loose
       \/ row' = row /\ loose' = loose \cup {[fid |-> x.fid, lid |-> x.lid]}
  BY DEF KeepsEntry, new, x, f
<1>11. CASE \E g \in Files : /\ row[g] # None /\ row[g].lid = x.lid
                             /\ row' = [row EXCEPT ![g] = new] /\ loose' = loose
  BY <1>5, <1>6, <1>8, <1>11 DEF f
<1>12. QED
  BY <1>7, <1>9, <1>10, <1>11

\* The mylist reply to a file without a fid.
LEMMA LookUpKeeps ==
  ASSUME IInv, LookUp
  PROVE  IInv'
<1>1. Answered("lookup") /\ UNCHANGED <<list, known, adrift, astray>>
  BY DEF LookUp, TakeEntry
<1>2. row \in [Files -> Rows \cup {None}] /\ loose \in SUBSET Loose /\ IsFiniteSet(loose)
  BY Known DEF Types
<1>3. ASSUME row' = row PROVE RowShape' /\ \A f \in Files : RowFollows(f)
  BY <1>1, <1>3, SameRows, Listing, Known
<1>4. call.pc = "lookup" /\ call.todo = {} /\ call.eps = <<>> /\ ~call.byFid /\ ~call.promoted
  BY <1>1, Listing DEF Answered, At
<1>5. CASE Returns("raised") /\ row' = row /\ loose' = loose
  BY <1>1, <1>2, <1>3, <1>5, ReturnsKeeps
<1>6. CASE Resume(call) /\ row' = row /\ loose' = loose
  BY <1>1, <1>2, <1>3, <1>4, <1>6, Listing, ResumeKeeps
<1>7. CASE Resume(call) /\ request.reply.code = "221"
           /\ KeepsEntry(call.on, request.reply.entry)
  <2>1. /\ row' \in [Files -> Rows \cup {None}] /\ RowShape'
        /\ loose' \in SUBSET Loose /\ IsFiniteSet(loose')
        /\ \A s \in loose' : s \in loose \/ Seen(s.lid, s.fid)
        /\ \A f \in Files : RowFollows(f)
        /\ row'[call.on] # None
    BY <1>1, <1>7, KeepsEntryDoes
  <2>2. QED
    BY <1>1, <1>4, <1>7, <2>1, Listing, ResumeKeeps
<1>8. QED
  BY <1>5, <1>6, <1>7 DEF LookUp, TakeEntry

\* The mylist reply that ends an update.
LEMMA ReadBackKeeps ==
  ASSUME IInv, ReadBack
  PROVE  IInv'
<1>1. Answered("read back") /\ UNCHANGED <<list, known, adrift, astray>>
  BY DEF ReadBack, TakeEntry
<1>2. row \in [Files -> Rows \cup {None}] /\ loose \in SUBSET Loose /\ IsFiniteSet(loose)
  BY Known DEF Types
<1>3. ASSUME row' = row PROVE RowShape' /\ \A f \in Files : RowFollows(f)
  BY <1>1, <1>3, SameRows, Listing, Known
<1>4. PICK o \in {"done", "raised"} : Returns(o)
  BY DEF ReadBack, TakeEntry
<1>5. CASE row' = row /\ loose' = loose
  BY <1>1, <1>2, <1>3, <1>4, <1>5, ReturnsKeeps
<1>6. CASE request.reply.code = "221" /\ KeepsEntry(call.on, request.reply.entry)
  BY <1>1, <1>4, <1>6, KeepsEntryDoes, ReturnsKeeps
<1>7. QED
  BY <1>5, <1>6 DEF ReadBack, TakeEntry

-----------------------------------------------------------------------------
(* update_mylist *)

\* A call past its file's identity.
LEMMA OnFile ==
  ASSUME IInv, call # None, call.pc \notin {"creating", "identify"}
  PROVE  /\ call \in Calls /\ call.op \in {"update", "remove", "refresh"} /\ call.on \in Files
         /\ row[call.on] # None /\ row[call.on] \in Rows
         /\ Subject \in Episodes /\ Subject = EpisodeOf(call.on)
         /\ row[call.on].fid \in {None, call.on, Subject}
<1>1. call \in Calls /\ call.op # "create" /\ call.on \notin Episodes /\ row[call.on] # None
  BY Known DEF CallShape
<1>2. call.op \in {"update", "remove", "refresh"} /\ call.on \in Files
  BY <1>1 DEF Calls
<1>3. row[call.on] \in Rows /\ row[call.on].fid \in {None, call.on, Subject}
  BY <1>1, <1>2, Known DEF RowShape, Subject
<1>4. QED
  BY <1>1, <1>2, <1>3, EpisodeOfType, Kept DEF Subject

\* What a call keeps from one step to the next.
SameCall(c) ==
  /\ c.op = call.op /\ c.on = call.on /\ c.asked = call.asked /\ c.spanned = call.spanned
  /\ c.byFid = call.byFid /\ c.promoted = call.promoted /\ c.carried = call.carried

\* The steps and the waits of update_mylist().
Updating == {"decide", "clear", "clearing", "ask", "add", "adding", "read back", "editing"}

\* update_mylist() goes on with what it knows.
LEMMA UpdateGoesOn ==
  ASSUME IInv, call # None, call.pc \in Updating, call' \in Calls, SameCall(call'),
         call'.pc \in Updating, call'.pc \in Waits <=> request' # None,
         call'.eps # <<>> => call'.pc = "adding",
         row'[call.on] # None, row'[call.on].fid = row[call.on].fid
  PROVE  CallShape'
<1>1. call.pc \notin {"creating", "identify", "remove", "removing", "retire", "retiring"}
      /\ call'.pc \notin {"creating", "identify", "remove", "removing", "retire", "retiring",
                          "lookup"}
  BY DEF Updating
<1>2. call.op # "create" /\ call.on \notin Episodes
  BY <1>1, OnFile, Kept
<1>3. (call.byFid => row[call.on].fid = call.on) /\ (call.promoted => call.byFid)
      /\ (call.carried => call.asked = "yes")
  BY <1>1, Known DEF CallShape
<1>4. QED
  BY <1>1, <1>2, <1>3, Kept DEF CallShape, SameCall

\* The entry a row of the cache names, if AniDB has it.
LEMMA CachedEntry ==
  ASSUME IInv, NEW e \in Episodes, e \notin astray, NEW h \in CachedFor(e), NEW y \in list,
         y.lid = LidOf(h)
  PROVE  y.fid = FidOf(h) /\ EpisodeOf(y.fid) = e
<1>1. y \in Entries /\ y.lid \in Nat /\ y.fid \in Fids /\ Seen(y.lid, y.fid)
  BY Known DEF Entries, Seen
<1>2. CASE h \in Files
  <2>1. HasEntry(h) /\ EpisodeOf(h) = e /\ y.lid = row[h].lid /\ FidOf(h) = row[h].fid
    BY <1>2, Kept, Known DEF CachedFor, LidOf, FidOf, Types
  <2>2. y.fid \in {h, EpisodeOf(h)} /\ y.fid = row[h].fid
    BY <1>1, <1>2, <2>1, Known DEF RowsAgree
  <2>3. QED
    BY <2>1, <2>2, EpisodeOfType
<1>3. CASE h \notin Files
  <2>1. h \in loose /\ EpisodeOf(h.fid) = e /\ y.lid = h.lid /\ FidOf(h) = h.fid
    BY <1>3 DEF CachedFor, LidOf, FidOf
  <2>2. h \in Loose
    BY <2>1, Known DEF Types
  <2>3. h.fid \in Fids /\ h = [fid |-> h.fid, lid |-> h.lid]
    BY <2>2 DEF Loose
  <2>4. Seen(y.lid, h.fid)
    BY <2>1, <2>3 DEF Seen
  <2>5. QED
    BY <1>1, <2>1, <2>3, <2>4, Known DEF LidsAgree
<1>4. QED
  BY <1>2, <1>3

\* An update edits, or finds what it has to clear, or asks AniDB.
LEMMA DecideKeeps ==
  ASSUME IInv, Decide
  PROVE  IInv'
<1> DEFINE f == call.on
           e == EpisodeOf(f)
<1>1. /\ UNCHANGED <<list, known, row, loose, adrift>> /\ astray \subseteq astray'
      /\ call # None /\ call.pc = "decide" /\ call.pc \in Updating
  BY DEF Decide, At, Updating
<1>2. /\ call \in Calls /\ f \in Files /\ row[f] # None /\ row[f] \in Rows /\ e \in Episodes
      /\ Subject = e
  BY <1>1, OnFile
<1>3. call.todo = {} /\ call.eps = <<>>
  BY <1>1, Known DEF TodoShape, CallShape
<1>4. RowShape' /\ \A g \in Files : RowFollows(g)
  BY <1>1, NoExcuse, SameRows, Known
<1>5. CASE /\ HasEntry(f) /\ astray' = astray
           /\ GoesOnSending([call EXCEPT !.pc = "editing"], "edit", row[f].lid, call.asked)
  <2>1. /\ call' = [call EXCEPT !.pc = "editing"] /\ told' = told
        /\ Sends("edit", row[f].lid, call.asked)
    BY <1>5 DEF GoesOnSending
  <2>2. /\ call' \in Calls /\ call' # None /\ SameCall(call') /\ call'.pc = "editing"
        /\ call'.todo = {} /\ call'.eps = <<>>
    <3>1. call' \in Calls
      BY <1>2, <2>1 DEF Calls, Waits
    <3>2. QED
      BY <1>2, <1>3, <2>1, <3>1, Kept DEF Calls, SameCall
  <2>3. /\ request' \in Requests /\ request' # None /\ request'.reply = None
        /\ request'.kind = "edit" /\ request'.on = row[f].lid /\ request'.watched = call.asked
    <3>1. "edit" \in Kinds /\ row[f].lid \in Fids \cup Nat /\ call.asked \in {"yes", "no", "keep"}
      BY <1>2 DEF Kinds, Rows, Calls
    <3>2. QED
      BY <2>1, <3>1, SendsDoes
  <2>4. Types'
    BY <1>1, <1>5, <2>1, <2>2, <2>3, Known DEF Types
  <2>5. CallShape'
    BY <1>1, <1>2, <2>2, <2>3, UpdateGoesOn DEF Updating, Waits
  <2>6. TodoShape' /\ RequestShape' /\ ~HasReply'
    BY <2>2, <2>3 DEF TodoShape, RequestShape, SameCall, HasReply
  <2>7. Progress'
    BY <1>1, <1>5, <2>2, <2>3 DEF Progress, SameCall, HasReply, HasEntry
  <2>8. QED
    BY <1>1, <1>4, <2>4, <2>5, <2>6, <2>7, CallStep
<1>6. CASE /\ ~HasEntry(f) /\ CachedFor(e) # {}
           /\ GoesOn([call EXCEPT !.pc = "clear", !.todo = CachedFor(e)])
           /\ astray' = IF \A h \in CachedFor(e) : InList(h) THEN astray
                        ELSE astray \cup {e}
  <2>1. /\ call' = [call EXCEPT !.pc = "clear", !.todo = CachedFor(e)]
        /\ request' = None /\ told' = told
    BY <1>6 DEF GoesOn
  <2>2. CachedFor(e) \in SUBSET (Files \cup Loose)
    BY Known DEF CachedFor, Types
  <2>3. /\ call' \in Calls /\ call' # None /\ SameCall(call') /\ call'.pc = "clear"
        /\ call'.todo = CachedFor(e) /\ call'.eps = <<>>
    <3>1. call' \in Calls
      BY <1>2, <2>1, <2>2 DEF Calls, Steps
    <3>2. QED
      BY <1>2, <1>3, <2>1, <3>1, Kept DEF Calls, SameCall
  <2>4. Types'
    BY <1>1, <1>2, <1>6, <2>1, <2>3, Known DEF Types
  <2>5. CallShape'
    BY <1>1, <1>2, <2>1, <2>3, UpdateGoesOn DEF Updating, Waits
  <2>6. RequestShape' /\ ~HasReply'
    BY <2>1 DEF RequestShape, HasReply
  <2>7. TodoShape'
    <3>1. call'.on = f /\ row' = row
      BY <1>1, <2>3 DEF SameCall
    <3>2. \A h \in CachedFor(e) : IF h \in Files THEN HasEntry(h) /\ EpisodeOf(h) = e
                                  ELSE h \in Loose /\ EpisodeOf(h.fid) = e
      BY Kept, Known DEF CachedFor, Types
    <3>3. QED
      BY <2>3, <3>1, <3>2 DEF TodoShape, Subject, HasEntry
  <2>8. ASSUME e \notin astray', NEW x \in list, EpisodeOf(x.fid) = e
        PROVE  \E h \in CachedFor(e) : FidOf(h) = x.fid
    <3>1. e \notin astray /\ \A h \in CachedFor(e) : InList(h)
      BY <1>6, <2>8
    <3>2. PICK h \in CachedFor(e) : \E y \in list : y.lid = LidOf(h)
      BY <1>6, <3>1 DEF InList
    <3>3. PICK y \in list : y.lid = LidOf(h)
      BY <3>2
    <3>4. y.fid = FidOf(h) /\ EpisodeOf(y.fid) = e
      BY <1>2, <3>1, <3>3, CachedEntry
    <3>5. x = y
      BY <2>8, <3>1, <3>4, Known DEF OneEntry
    <3>6. QED
      BY <3>4, <3>5
  <2>9. Progress'
    <3>1. call'.on = f /\ row' = row /\ list' = list
      BY <1>1, <2>3 DEF SameCall
    <3>2. e \notin astray' => Clearing'
      BY <1>6, <2>3, <2>8, <3>1 DEF Clearing, Covering, Subject, HasEntry, FidOf
    <3>3. QED
      BY <2>3, <3>1, <3>2 DEF Progress, Subject
  <2>10. QED
    BY <1>1, <1>4, <2>4, <2>5, <2>6, <2>7, <2>9, CallStep
<1>7. CASE /\ ~HasEntry(f) /\ astray' = astray
           /\ GoesOnSending([call EXCEPT !.pc = "ask"], "list", e, "keep")
  <2>1. call' = [call EXCEPT !.pc = "ask"] /\ told' = told /\ Sends("list", e, "keep")
    BY <1>7 DEF GoesOnSending
  <2>2. /\ call' \in Calls /\ call' # None /\ SameCall(call') /\ call'.pc = "ask"
        /\ call'.todo = {} /\ call'.eps = <<>>
    <3>1. call' \in Calls
      BY <1>2, <2>1 DEF Calls, Waits
    <3>2. QED
      BY <1>2, <1>3, <2>1, <3>1, Kept DEF Calls, SameCall
  <2>3. /\ request' \in Requests /\ request' # None /\ request'.reply = None
        /\ request'.kind = "list" /\ request'.on = e
    <3>1. "list" \in Kinds /\ e \in Fids \cup Nat
      BY <1>2, Kept DEF Kinds
    <3>2. QED
      BY <2>1, <3>1, SendsDoes
  <2>4. Types'
    BY <1>1, <1>7, <2>1, <2>2, <2>3, Known DEF Types
  <2>5. CallShape'
    BY <1>1, <1>2, <2>2, <2>3, UpdateGoesOn DEF Updating, Waits
  <2>6. TodoShape' /\ RequestShape' /\ ~HasReply'
    BY <1>2, <2>2, <2>3 DEF TodoShape, RequestShape, SameCall, HasReply, Subject
  <2>7. Progress'
    BY <1>1, <1>7, <2>2, <2>3 DEF Progress, SameCall, HasReply, HasEntry
  <2>8. QED
    BY <1>1, <1>4, <2>4, <2>5, <2>6, <2>7, CallStep
<1>8. QED
  BY <1>5, <1>6, <1>7 DEF Decide

\* A call in update_mylist() that goes on with nothing outstanding, rows alone.
LEMMA UpdateSteps ==
  ASSUME IInv, call # None, call.pc \in Updating, NEW pc \in {"clear", "add"}, NEW todo,
         todo \in SUBSET (Files \cup Loose), call.eps = <<>>,
         GoesOn([call EXCEPT !.pc = pc, !.todo = todo]), row' = row
  PROVE  /\ call' \in Calls /\ call' # None /\ SameCall(call') /\ call'.pc = pc
         /\ call'.todo = todo /\ call'.on = call.on /\ request' = None /\ told' = told
         /\ CallShape' /\ RequestShape' /\ ~HasReply'
<1>1. /\ call' = [call EXCEPT !.pc = pc, !.todo = todo]
      /\ request' = None /\ told' = told
  BY DEF GoesOn
<1>2. call \in Calls /\ row[call.on] # None
  BY OnFile DEF Updating
<1>3. call' \in Calls
  BY <1>1, <1>2 DEF Calls, Steps
<1>4. /\ call' # None /\ SameCall(call') /\ call'.pc = pc /\ call'.todo = todo
      /\ call'.on = call.on /\ call'.eps = <<>>
  BY <1>1, <1>2, <1>3, Kept DEF Calls, SameCall
<1>5. CallShape'
  BY <1>1, <1>2, <1>3, <1>4, UpdateGoesOn DEF Updating, Waits
<1>6. QED
  BY <1>1, <1>3, <1>4, <1>5 DEF RequestShape, HasReply

\* AniDB's answer to what covers the episode.
LEMMA AskAnidbKeeps ==
  ASSUME IInv, AskAnidb
  PROVE  IInv'
<1>1. /\ UNCHANGED <<list, known, row, adrift, astray>> /\ call # None /\ call.pc = "ask"
      /\ call.pc \in Updating /\ HasReply
  BY DEF AskAnidb, Answered, At, Updating, HasReply
<1>2. /\ call.todo = {} /\ call.eps = <<>> /\ call \in Calls /\ call.on \in Files
      /\ Subject \in Episodes
  BY <1>1, OnFile, Known DEF TodoShape, CallShape
<1>3. request.kind = "list" /\ request.on = Subject
  BY <1>1, Known DEF RequestShape, HasReply
<1>4. RowShape' /\ \A g \in Files : RowFollows(g)
  BY <1>1, NoExcuse, SameRows, Known
<1>5. row' \in [Files -> Rows \cup {None}] /\ loose \in SUBSET Loose /\ IsFiniteSet(loose)
  BY <1>1, Known DEF Types
<1>6. CASE Returns("raised") /\ loose' = loose
  BY <1>1, <1>4, <1>5, <1>6, ReturnsKeeps
<1>7. CASE /\ request.reply.code = "321" /\ GoesOn([call EXCEPT !.pc = "add"])
           /\ loose' = loose
  <2>1. GoesOn([call EXCEPT !.pc = "add", !.todo = {}])
    <3>1. [call EXCEPT !.pc = "add"] = [call EXCEPT !.pc = "add", !.todo = {}]
      BY <1>2 DEF Calls
    <3>2. QED
      BY <1>7, <3>1
  <2>2. /\ call' \in Calls /\ call' # None /\ SameCall(call') /\ call'.pc = "add"
        /\ call'.todo = {} /\ call'.on = call.on /\ request' = None /\ told' = told
        /\ CallShape' /\ RequestShape' /\ ~HasReply'
    BY <1>1, <1>2, <2>1, UpdateSteps
  <2>3. Types' /\ TodoShape'
    BY <1>1, <1>7, <2>2, Known DEF Types, TodoShape
  <2>4. Progress'
    BY <1>1, <1>2, <1>7, <2>2, Known DEF Progress, HasEntry, Covering, Subject
  <2>5. QED
    BY <1>1, <1>4, <1>7, <2>2, <2>3, <2>4, CallStep
<1>8. ASSUME NEW x, x = request.reply.entry, NEW s, s = [fid |-> x.fid, lid |-> x.lid],
             request.reply.code \notin {"312", "321"}, loose' = loose \cup {s},
             GoesOn([call EXCEPT !.pc = "clear", !.todo = {s}])
      PROVE  IInv'
  <2>1. ReplyEntry /\ x \in Entries /\ EpisodeOf(x.fid) = Subject /\ Seen(x.lid, x.fid)
    <3>1. request.reply.code = "221" /\ x # None /\ EpisodeOf(x.fid) = Subject
      BY <1>1, <1>2, <1>3, <1>8, Known DEF ReplyShape
    <3>2. ReplyEntry /\ x \in Entries
      BY <1>1, <1>8, <3>1, Known DEF ReplyEntry
    <3>3. QED
      BY <1>8, <3>1, <3>2 DEF Seen
  <2>2. s \in Loose /\ s \notin Files /\ s.fid = x.fid /\ s.lid = x.lid
    <3>1. s \in Loose
      BY <1>8, <2>1 DEF Entries, Loose
    <3>2. QED
      BY <1>8, <3>1, Kept
  <2>3. /\ call' \in Calls /\ call' # None /\ SameCall(call') /\ call'.pc = "clear"
        /\ call'.todo = {s} /\ call'.on = call.on /\ request' = None /\ told' = told
        /\ CallShape' /\ RequestShape' /\ ~HasReply'
    <3>1. {s} \in SUBSET (Files \cup Loose)
      BY <2>2
    <3>2. QED
      BY <1>1, <1>2, <1>8, <3>1, UpdateSteps
  <2>4. /\ loose' \in SUBSET Loose /\ IsFiniteSet(loose')
        /\ \A t \in loose' : t \in loose \/ Seen(t.lid, t.fid)
    BY <1>5, <1>8, <2>1, <2>2, FS_AddElement
  <2>5. Types'
    BY <1>1, <1>5, <2>3, <2>4, Known DEF Types
  <2>6. TodoShape'
    BY <2>1, <2>2, <2>3 DEF TodoShape, Subject
  <2>7. Progress'
    <3>1. ASSUME Subject \notin astray, NEW y \in list, EpisodeOf(y.fid) = Subject
          PROVE  FidOf(s) = y.fid
      <4>1. x \in list
        BY <1>8, <2>1, <3>1, Known DEF ReplyIsCurrent
      <4>2. x = y
        BY <2>1, <3>1, <4>1, Known DEF OneEntry
      <4>3. QED
        BY <2>2, <4>2 DEF FidOf
    <3>2. Subject \notin astray => ~HasEntry(call.on)
      BY <1>1, <1>2, Known DEF Progress
    <3>3. Subject \notin astray => Clearing'
      <4>1. HasEntry(call.on)' = HasEntry(call.on) /\ list' = list /\ FidOf(s)' = FidOf(s)
            /\ Subject' = Subject
        BY <1>1, <2>3 DEF HasEntry, FidOf, Subject
      <4>2. QED
        BY <2>3, <3>1, <3>2, <4>1 DEF Clearing, Covering
    <3>4. QED
      BY <1>1, <2>3, <3>3 DEF Progress, Subject
  <2>8. QED
    BY <1>1, <1>4, <2>3, <2>4, <2>5, <2>6, <2>7, CallStep
<1>9. QED
  BY <1>6, <1>7, <1>8 DEF AskAnidb

\* A removal of what covers the episode is sent, and its row cleared.
LEMMA ClearKeeps ==
  ASSUME IInv, Clear
  PROVE  IInv'
<1>1. /\ UNCHANGED <<list, known, adrift, astray>> /\ call # None /\ call.pc = "clear"
      /\ call.pc \in Updating
  BY DEF Clear, At, Updating
<1>2. /\ call \in Calls /\ call.on \in Files /\ row[call.on] # None /\ Subject \in Episodes
      /\ call.eps = <<>>
  BY <1>1, OnFile, Known DEF CallShape
<1>3. PICK h \in call.todo :
        /\ GoesOnSending([call EXCEPT !.pc = "clearing", !.todo = call.todo \ {h}],
                         "del", FidOf(h), "keep")
        /\ IF h \in Files
             THEN row' = [row EXCEPT ![h] = Cleared(row[h])] /\ loose' = loose
             ELSE loose' = loose \ {h} /\ row' = row
  BY DEF Clear
<1>4. /\ h \in Files => HasEntry(h) /\ EpisodeOf(h) = Subject /\ row[h] \in Rows
      /\ h \notin Files => h \in Loose
  BY <1>1, <1>3, Known DEF TodoShape, HasEntry
<1>5. FidOf(h) \in Fids
  <2>1. CASE h \in Files
    BY <1>4, <2>1, Known DEF FidOf, Rows, RowShape, HasEntry
  <2>2. CASE h \notin Files
    BY <1>4, <2>2 DEF FidOf, Loose
  <2>3. QED
    BY <2>1, <2>2
<1>6. /\ call' = [call EXCEPT !.pc = "clearing", !.todo = call.todo \ {h}] /\ told' = told
      /\ Sends("del", FidOf(h), "keep")
  BY <1>3 DEF GoesOnSending
<1>7. /\ call' \in Calls /\ call' # None /\ SameCall(call') /\ call'.pc = "clearing"
      /\ call'.todo = call.todo \ {h} /\ call'.on = call.on /\ call'.eps = <<>>
  <2>1. call.todo \ {h} \in SUBSET (Files \cup Loose)
    BY <1>2 DEF Calls
  <2>2. call' \in Calls
    BY <1>2, <1>6, <2>1 DEF Calls, Waits
  <2>3. QED
    BY <1>2, <1>6, <2>2, Kept DEF Calls, SameCall
<1>8. /\ request' \in Requests /\ request' # None /\ request'.reply = None
      /\ request'.kind = "del" /\ request'.on = FidOf(h)
  BY <1>5, <1>6, SendsDoes DEF Kinds
<1>9. /\ row' \in [Files -> Rows \cup {None}] /\ loose' \in SUBSET loose
      /\ \A g \in Files : /\ g # h => row'[g] = row[g]
                          /\ g = h => row'[g] # None /\ row'[g].lid = 0
                                      /\ row'[g].fid = row[g].fid
                                      /\ row'[g].generic = row[g].generic
  <2>1. row \in [Files -> Rows \cup {None}]
    BY Known DEF Types
  <2>2. CASE h \in Files
    <3>1. /\ Cleared(row[h]) \in Rows /\ Cleared(row[h]).lid = 0
          /\ Cleared(row[h]).fid = row[h].fid /\ Cleared(row[h]).generic = row[h].generic
      BY <1>4, <2>2 DEF Cleared, Rows
    <3>2. row' = [row EXCEPT ![h] = Cleared(row[h])] /\ loose' = loose
      BY <1>3, <2>2
    <3> HIDE DEF Cleared
    <3>3. QED
      BY <2>1, <2>2, <3>1, <3>2, Kept
  <2>3. CASE h \notin Files
    BY <1>3, <2>1, <2>3
  <2>4. QED
    BY <2>2, <2>3
<1>10. Types'
  <2>1. loose' \in SUBSET Loose /\ IsFiniteSet(loose')
    BY <1>9, FS_Subset, Known DEF Types
  <2>2. QED
    BY <1>1, <1>6, <1>7, <1>8, <1>9, <2>1, Known DEF Types
<1>11. RowShape'
  <2> SUFFICES ASSUME NEW g \in Files, row'[g] # None
               PROVE  /\ row'[g].fid \in {None, g, EpisodeOf(g)}
                      /\ row'[g].generic <=> row'[g].fid # g
                      /\ row'[g].fid = None => row'[g].lid = 0
    BY DEF RowShape
  <2>1. CASE g = h
    BY <1>4, <1>9, <2>1, Known DEF RowShape, HasEntry
  <2>2. CASE g # h
    BY <1>9, <2>2, Known DEF RowShape
  <2>3. QED
    BY <2>1, <2>2
<1>12. \A g \in Files : RowFollows(g)
  <2> TAKE g \in Files
  <2>1. CASE g = h
    BY <1>9, <2>1 DEF RowFollows
  <2>2. CASE g # h
    <3>1. Excused(g) => Excused(g)'
      BY <1>1, <1>7, <2>2 DEF Excused
    <3>2. QED
      BY <1>9, <2>2, <3>1 DEF RowFollows
  <2>3. QED
    BY <2>1, <2>2
<1>13. CallShape' /\ RequestShape' /\ ~HasReply'
  <2>1. row'[call.on] # None /\ row'[call.on].fid = row[call.on].fid
    BY <1>2, <1>9
  <2>2. CallShape'
    BY <1>1, <1>7, <1>8, <2>1, UpdateGoesOn DEF Updating, Waits
  <2>3. QED
    BY <1>7, <1>8, <2>2 DEF RequestShape, HasReply
<1>14. TodoShape'
  <2>1. \A g \in call.todo \ {h} : IF g \in Files THEN HasEntry(g) /\ EpisodeOf(g) = Subject
                                   ELSE g \in Loose /\ EpisodeOf(g.fid) = Subject
    BY <1>1, Known DEF TodoShape
  <2>2. \A g \in call.todo \ {h} : g \in Files => HasEntry(g)' = HasEntry(g)
    BY <1>9 DEF HasEntry
  <2>3. QED
    BY <1>7, <2>1, <2>2 DEF TodoShape, Subject
<1>15. Progress'
  <2>1. Subject' = Subject
    BY <1>7 DEF Subject
  <2>2. ASSUME Subject \notin astray PROVE Clearing'
    <3>1. ~HasEntry(call.on) /\ \A x \in Covering(Subject) : \E g \in call.todo : FidOf(g) = x.fid
      BY <1>1, <1>2, <2>2, Known DEF Progress, Clearing
    <3>2. ~HasEntry(call.on)'
      BY <1>2, <1>7, <1>9, <3>1 DEF HasEntry
    <3>3. \A g \in call.todo : FidOf(g)' = FidOf(g)
      BY <1>9 DEF FidOf
    <3>4. Covering(Subject)' = Covering(Subject)
      BY <1>1, <2>1 DEF Covering
    <3>5. ASSUME NEW x \in Covering(Subject)
          PROVE  (\E g \in call.todo \ {h} : FidOf(g)' = x.fid) \/ request'.on = x.fid
      BY <1>8, <3>1, <3>3
    <3>6. QED
      BY <1>7, <1>8, <3>2, <3>4, <3>5 DEF Clearing
  <2>3. QED
    BY <1>1, <1>7, <2>1, <2>2 DEF Progress
<1>16. QED
  BY <1>1, <1>9, <1>10, <1>11, <1>12, <1>13, <1>14, <1>15, CallStep

\* It is answered, and the next one or the add is taken up.
LEMMA ClearNextKeeps ==
  ASSUME IInv, ClearNext
  PROVE  IInv'
<1> DEFINE pc == IF call.todo = {} THEN "add" ELSE "clear"
<1>1. /\ UNCHANGED <<list, known, row, loose, adrift, astray>> /\ call # None
      /\ call.pc = "clearing" /\ call.pc \in Updating /\ HasReply
      /\ GoesOn([call EXCEPT !.pc = pc])
  BY DEF ClearNext, Answered, At, Updating, HasReply
<1>2. call \in Calls /\ call.on \in Files /\ call.eps = <<>>
  BY <1>1, OnFile, Known DEF CallShape
<1>3. /\ call' \in Calls /\ call' # None /\ SameCall(call') /\ call'.pc = pc
      /\ call'.todo = call.todo /\ call'.on = call.on /\ request' = None /\ told' = told
      /\ CallShape' /\ RequestShape' /\ ~HasReply'
  <2>1. GoesOn([call EXCEPT !.pc = pc, !.todo = call.todo])
    <3>1. [call EXCEPT !.pc = pc] = [call EXCEPT !.pc = pc, !.todo = call.todo]
      BY <1>2 DEF Calls
    <3>2. QED
      BY <1>1, <3>1
  <2>2. call.todo \in SUBSET (Files \cup Loose) /\ pc \in {"clear", "add"}
    BY <1>2 DEF Calls
  <2>3. QED
    BY <1>1, <1>2, <2>1, <2>2, UpdateSteps
<1>4. Types'
  BY <1>1, <1>3, Known DEF Types
<1>5. TodoShape'
  BY <1>1, <1>3, Known DEF TodoShape, HasEntry, Subject
<1>6. RowShape' /\ \A g \in Files : RowFollows(g)
  <2>1. \A g : Excused(g) => Excused(g)'
    BY <1>1, <1>3 DEF Excused
  <2>2. QED
    BY <1>1, <2>1, SameRows, Known
<1>7. Progress'
  <2>1. ASSUME Subject \notin astray
        PROVE  ~HasEntry(call.on)
               /\ \A x \in Covering(Subject) : \E h \in call.todo : FidOf(h) = x.fid
    BY <1>1, <1>2, <2>1, Known DEF Progress, Clearing, HasReply
  <2>2. /\ Covering(Subject)' = Covering(Subject) /\ HasEntry(call.on)' = HasEntry(call.on)
        /\ Subject' = Subject /\ \A h : FidOf(h)' = FidOf(h)
    BY <1>1, <1>3 DEF Covering, HasEntry, FidOf, Subject
  <2>3. QED
    BY <1>1, <1>3, <2>1, <2>2 DEF Progress, Clearing
<1>8. QED
  BY <1>1, <1>3, <1>4, <1>5, <1>6, <1>7, CallStep

\* A call that goes on by sending a request about its entry.
AsksFor(pc, eps, kind, on, watched) ==
  /\ call' = [call EXCEPT !.pc = pc, !.eps = eps] /\ told' = told
  /\ Sends(kind, on, watched)

\* A request an update sends, the call being where it says.
LEMMA UpdateSends ==
  ASSUME IInv, call # None, call.pc \in Updating, call.todo = {},
         NEW pc, NEW eps, NEW kind, NEW on, NEW watched, AsksFor(pc, eps, kind, on, watched),
         pc \in {"adding", "read back"}, eps \in Seq(Episodes), eps # <<>> => pc = "adding",
         kind \in Kinds, on \in Fids, watched \in {"yes", "no", "keep"},
         row'[call.on] # None, row'[call.on].fid = row[call.on].fid
  PROVE  /\ call' \in Calls /\ call' # None /\ SameCall(call') /\ call'.pc = pc
         /\ call'.todo = {} /\ call'.eps = eps /\ call'.on = call.on
         /\ request' \in Requests /\ request' # None /\ request'.reply = None
         /\ request'.kind = kind /\ request'.on = on /\ request'.watched = watched
         /\ told' = told /\ CallShape' /\ TodoShape' /\ ~HasReply'
<1>1. call \in Calls
  BY OnFile DEF Updating
<1>2. call' \in Calls
  BY <1>1 DEF Calls, Waits, AsksFor
<1>3. /\ call' # None /\ SameCall(call') /\ call'.pc = pc /\ call'.todo = {}
      /\ call'.eps = eps /\ call'.on = call.on
  BY <1>1, <1>2, Kept DEF Calls, SameCall, AsksFor
<1>4. /\ request' \in Requests /\ request' # None /\ request'.reply = None
      /\ request'.kind = kind /\ request'.on = on /\ request'.watched = watched
  BY SendsDoes DEF AsksFor
<1>5. CallShape'
  BY <1>2, <1>3, <1>4, UpdateGoesOn DEF Updating, Waits
<1>6. TodoShape' /\ ~HasReply' /\ told' = told
  BY <1>3, <1>4 DEF TodoShape, HasReply, AsksFor
<1>7. QED
  BY <1>2, <1>3, <1>4, <1>5, <1>6

\* What an add asks for is what the call was asked for, whatever the row learns.
LEMMA SameTarget ==
  ASSUME call'.on = call.on, call'.asked = call.asked, row'[call.on].fid = row[call.on].fid
  PROVE  Subject' = Subject /\ Target' = Target /\ \A x : AsAsked(x)' = AsAsked(x)
BY DEF Subject, Target, AsAsked

\* The add is sent, once or per episode.
LEMMA AddKeeps ==
  ASSUME IInv, Add
  PROVE  IInv'
<1>1. /\ UNCHANGED <<list, known, row, loose, adrift, astray>> /\ call # None
      /\ call.pc = "add" /\ call.pc \in Updating
  BY DEF Add, At, Updating
<1>2. /\ call \in Calls /\ call.on \in Files /\ row[call.on] # None /\ row[call.on] \in Rows
      /\ call.todo = {} /\ call.eps = <<>> /\ Subject \in Episodes
      /\ row[call.on].fid \in {None, call.on, Subject}
  BY <1>1, OnFile, Known DEF TodoShape, CallShape
<1>3. RowShape' /\ \A f \in Files : RowFollows(f)
  BY <1>1, NoExcuse, SameRows, Known
<1>4. PICK eps \in Seq(Episodes), kind \in {"add", "add generic"}, on \in Fids :
        /\ AsksFor("adding", eps, kind, on, call.asked)
        /\ \/ kind = "add" /\ row[call.on].fid # None /\ on = row[call.on].fid /\ eps = <<>>
           \/ kind = "add generic" /\ row[call.on].fid = None /\ on = Subject
  <2>1. CASE row[call.on].fid # None
    <3>1. [call EXCEPT !.pc = "adding"] = [call EXCEPT !.pc = "adding", !.eps = <<>>]
      BY <1>2 DEF Calls
    <3>2. <<>> \in Seq(Episodes) /\ row[call.on].fid \in Fids
      BY <1>2, <2>1, Kept DEF Rows
    <3>3. QED
      BY <2>1, <3>1, <3>2 DEF Add, GoesOnSending, AsksFor
  <2>2. CASE row[call.on].fid = None
    <3>1. /\ Tail(EpisodesToAdd) \in Seq(Episodes) /\ Head(EpisodesToAdd) = Subject
          /\ Subject \in Fids
      BY <1>2, EpisodeOfType, Kept DEF EpisodesToAdd, Subject
    <3>2. QED
      BY <2>2, <3>1 DEF Add, GoesOnSending, AsksFor
  <2>3. QED
    BY <2>1, <2>2
<1>5. /\ call' \in Calls /\ call' # None /\ SameCall(call') /\ call'.pc = "adding"
      /\ call'.todo = {} /\ call'.eps = eps /\ call'.on = call.on
      /\ request' \in Requests /\ request' # None /\ request'.reply = None
      /\ request'.kind = kind /\ request'.on = on /\ request'.watched = call.asked
      /\ told' = told /\ CallShape' /\ TodoShape' /\ ~HasReply'
  <2>1. call.asked \in {"yes", "no", "keep"}
    BY <1>2 DEF Calls
  <2>2. kind \in Kinds /\ row'[call.on] # None /\ row'[call.on].fid = row[call.on].fid
    BY <1>1, <1>2 DEF Kinds
  <2>3. AsksFor("adding", eps, kind, on, call.asked)
    BY <1>4
  <2>4. call # None /\ call.pc \in Updating /\ call.todo = {}
    BY <1>1, <1>2
  <2>5. QED
    BY <2>1, <2>2, <2>3, <2>4, UpdateSends
<1>6. Types'
  BY <1>1, <1>4, <1>5, Known DEF Types
<1>7. RequestShape'
  BY <1>1, <1>2, <1>4, <1>5 DEF RequestShape, SameCall
<1>8. Progress'
  <2>1. Subject \notin astray => Covering(Subject) = {}
    BY <1>1, <1>2, Known DEF Progress
  <2>2. Subject' = Subject /\ Covering(Subject)' = Covering(Subject)
    BY <1>1, <1>5 DEF Subject, Covering
  <2>3. QED
    BY <1>1, <1>4, <1>5, <2>1, <2>2 DEF Progress, Adding
<1>9. QED
  BY <1>1, <1>3, <1>5, <1>6, <1>7, <1>8, CallStep

\* A row that learns a lid from the reply to an add learns its own.
LEMMA LearnsLidDoes ==
  ASSUME NEW f \in Files, NEW x, row \in [Files -> Rows \cup {None}], LearnsLid(f, x),
         x # None => x \in Entries
  PROVE  /\ row' \in [Files -> Rows \cup {None}]
         /\ \A g \in Files : g # f \/ x = None \/ row[f] = None => row'[g] = row[g]
         /\ row[f] # None => /\ row'[f] # None /\ row'[f].fid = row[f].fid
                             /\ row'[f].generic = row[f].generic
                             /\ row'[f].watched = row[f].watched
                             /\ x # None => row'[f].lid = x.lid
<1>1. CASE x = None \/ row[f] = None
  BY <1>1 DEF LearnsLid
<1>2. CASE x # None /\ row[f] # None
  <2> DEFINE new == [row[f] EXCEPT !.lid = x.lid]
  <2>1. row' = [row EXCEPT ![f] = new]
    BY <1>2 DEF LearnsLid
  <2>2. row[f] \in Rows /\ x.lid \in Nat
    BY <1>2 DEF Entries
  <2>3. /\ new \in Rows /\ new.lid = x.lid /\ new.fid = row[f].fid
        /\ new.generic = row[f].generic /\ new.watched = row[f].watched
    BY <2>2 DEF Rows
  <2> HIDE DEF new
  <2>4. QED
    BY <1>2, <2>1, <2>3, Kept
<1>3. QED
  BY <1>1, <1>2

\* It is answered: the row learns the lid, and the next add or the reading back is sent.
LEMMA AddNextKeeps ==
  ASSUME IInv, AddNext
  PROVE  IInv'
<1> DEFINE f == call.on
           x == request.reply.entry
<1>1. /\ UNCHANGED <<list, known, loose, adrift, astray>> /\ call # None
      /\ call.pc = "adding" /\ call.pc \in Updating /\ HasReply /\ LearnsLid(f, x)
  BY DEF AddNext, Answered, At, Updating, HasReply
<1>2. /\ call \in Calls /\ f \in Files /\ row[f] # None /\ row[f] \in Rows
      /\ call.todo = {} /\ Subject \in Episodes
  BY <1>1, OnFile, Known DEF TodoShape
<1>3. /\ row \in [Files -> Rows \cup {None}] /\ (x # None => ReplyEntry /\ x \in Entries)
      /\ \A g : ~Excused(g)
  BY <1>1, NoExcuse, Known DEF Types, ReplyEntry
<1>4. /\ row' \in [Files -> Rows \cup {None}]
      /\ \A g \in Files : g # f \/ x = None => row'[g] = row[g]
      /\ row'[f] # None /\ row'[f].fid = row[f].fid /\ row'[f].generic = row[f].generic
      /\ x # None => row'[f].lid = x.lid
  BY <1>1, <1>2, <1>3, LearnsLidDoes
<1>5. x # None => request.kind = "add" /\ row[f].fid # None /\ x.fid = row[f].fid
  <2>1. \/ request.kind = "add" /\ row[f].fid # None /\ request.on = row[f].fid
        \/ request.kind = "add generic"
    BY <1>1, Known DEF RequestShape, HasReply
  <2>2. QED
    BY <1>1, <2>1, Known DEF ReplyShape
<1>6. RowShape'
  <2> SUFFICES ASSUME NEW g \in Files, row'[g] # None
               PROVE  /\ row'[g].fid \in {None, g, EpisodeOf(g)}
                      /\ row'[g].generic <=> row'[g].fid # g
                      /\ row'[g].fid = None => row'[g].lid = 0
    BY DEF RowShape
  <2>1. CASE g = f /\ x # None
    BY <1>2, <1>4, <1>5, <2>1, Known DEF RowShape
  <2>2. CASE g # f \/ x = None
    BY <1>4, <2>2, Known DEF RowShape
  <2>3. QED
    BY <2>1, <2>2
<1>7. \A g \in Files : RowFollows(g)
  <2> TAKE g \in Files
  <2>1. CASE g = f /\ x # None
    BY <1>2, <1>3, <1>4, <1>5, <2>1 DEF RowFollows
  <2>2. CASE g # f \/ x = None
    BY <1>3, <1>4, <2>2 DEF RowFollows
  <2>3. QED
    BY <2>1, <2>2
<1>8. ASSUME Subject \notin astray
      PROVE  Covering(Subject) # {} /\ \A y \in Covering(Subject) : AsAsked(y)
  BY <1>1, <1>2, <1>8, Known DEF Progress, Adding, HasReply
<1>9. call.eps \in Seq(Episodes) /\ call.asked \in {"yes", "no", "keep"}
  BY <1>2 DEF Calls
<1>10. PICK pc \in {"adding", "read back"}, eps \in Seq(Episodes),
            kind \in {"add generic", "list"}, on \in Fids, watched \in {"yes", "no", "keep"} :
         /\ AsksFor(pc, eps, kind, on, watched)
         /\ \/ /\ pc = "adding" /\ kind = "add generic" /\ on \in Episodes
               /\ watched = call.asked /\ row[f].fid = None
            \/ /\ pc = "read back" /\ eps = <<>> /\ kind = "list"
               /\ on = IF call.byFid THEN f ELSE Subject
  <2>1. CASE call.eps # <<>>
    <3>1. Tail(call.eps) \in Seq(Episodes) /\ Head(call.eps) \in Episodes
      BY <1>9, <2>1
    <3>2. [call EXCEPT !.eps = Tail(call.eps)]
            = [call EXCEPT !.pc = "adding", !.eps = Tail(call.eps)]
      BY <1>1, <1>2 DEF Calls
    <3>3. row[f].fid = None
      BY <1>1, <2>1, Known DEF RequestShape, HasReply
    <3>4. QED
      BY <1>9, <2>1, <3>1, <3>2, <3>3, Kept DEF AddNext, GoesOnSending, AsksFor
  <2>2. CASE call.eps = <<>>
    <3>1. [call EXCEPT !.pc = "read back"]
            = [call EXCEPT !.pc = "read back", !.eps = <<>>]
      BY <1>2, <2>2 DEF Calls
    <3>2. (IF call.byFid THEN f ELSE Subject) \in Fids /\ <<>> \in Seq(Episodes)
      BY <1>2, Kept
    <3>3. QED
      BY <2>2, <3>1, <3>2 DEF AddNext, GoesOnSending, AsksFor, Subject
  <2>3. QED
    BY <2>1, <2>2
<1>11. /\ call' \in Calls /\ call' # None /\ SameCall(call') /\ call'.pc = pc
       /\ call'.todo = {} /\ call'.eps = eps /\ call'.on = call.on
       /\ request' \in Requests /\ request' # None /\ request'.reply = None
       /\ request'.kind = kind /\ request'.on = on /\ request'.watched = watched
       /\ told' = told /\ CallShape' /\ TodoShape' /\ ~HasReply'
  <2>1. kind \in Kinds /\ row'[call.on] # None /\ row'[call.on].fid = row[call.on].fid
    BY <1>4 DEF Kinds
  <2>2. call # None /\ call.pc \in Updating /\ call.todo = {} /\ (eps # <<>> => pc = "adding")
    BY <1>1, <1>2, <1>10
  <2>3. AsksFor(pc, eps, kind, on, watched)
    BY <1>10
  <2>4. QED
    BY <2>1, <2>2, <2>3, UpdateSends
<1>12. Types'
  BY <1>1, <1>4, <1>10, <1>11, Known DEF Types
<1>13. RequestShape'
  BY <1>4, <1>10, <1>11, SameTarget DEF RequestShape, SameCall
<1>14. Progress'
  <2>1. Subject' = Subject /\ Covering(Subject)' = Covering(Subject)
        /\ \A y : AsAsked(y)' = AsAsked(y)
    BY <1>1, <1>4, <1>11, SameTarget DEF SameCall, Covering
  <2>2. QED
    BY <1>1, <1>8, <1>10, <1>11, <2>1 DEF Progress, Adding
<1>15. QED
  BY <1>1, <1>6, <1>7, <1>11, <1>12, <1>13, <1>14, CallStep

\* Whether a caller's "yes" is one.
LEMMA YesIsBoolean ==
  ASSUME NEW asked
  PROVE  (asked = "yes") \in BOOLEAN
OBVIOUS

\* An edit ends an update.
LEMMA EditKeeps ==
  ASSUME IInv, Edit
  PROVE  IInv'
<1> DEFINE f == call.on
           watched == call.asked = "yes"
           new == [row[f] EXCEPT !.watched = watched]
<1>1. /\ UNCHANGED <<list, known, loose, adrift, astray>> /\ call # None
      /\ call.pc = "editing" /\ Returns("done") /\ row' = [row EXCEPT ![f] = new]
  BY DEF Edit, Answered, At
<1>2. watched \in BOOLEAN
  BY YesIsBoolean
<1> HIDE DEF watched
<1>3. f \in Files /\ row[f] # None /\ row[f] \in Rows /\ \A g : ~Excused(g)
  BY <1>1, OnFile, NoExcuse
<1>4. /\ new \in Rows /\ new.lid = row[f].lid /\ new.fid = row[f].fid
      /\ new.generic = row[f].generic
  BY <1>2, <1>3 DEF Rows
<1>5. row \in [Files -> Rows \cup {None}] /\ loose \in SUBSET Loose /\ IsFiniteSet(loose)
  BY Known DEF Types
<1> HIDE DEF new
<1>6. /\ row' \in [Files -> Rows \cup {None}] /\ row'[f] = new
      /\ \A g \in Files : g # f => row'[g] = row[g]
  BY <1>1, <1>3, <1>4, <1>5
<1>7. RowShape'
  <2> SUFFICES ASSUME NEW g \in Files, row'[g] # None
               PROVE  /\ row'[g].fid \in {None, g, EpisodeOf(g)}
                      /\ row'[g].generic <=> row'[g].fid # g
                      /\ row'[g].fid = None => row'[g].lid = 0
    BY DEF RowShape
  <2>1. CASE g = f
    BY <1>3, <1>4, <1>6, <2>1, Known DEF RowShape
  <2>2. CASE g # f
    BY <1>6, <2>2, Known DEF RowShape
  <2>3. QED
    BY <2>1, <2>2
<1>8. \A g \in Files : RowFollows(g)
  <2> TAKE g \in Files
  <2>1. CASE g = f
    BY <1>3, <1>4, <1>6, <2>1, Kept DEF RowFollows
  <2>2. CASE g # f
    BY <1>3, <1>6, <2>2 DEF RowFollows
  <2>3. QED
    BY <2>1, <2>2
<1>9. QED
  BY <1>1, <1>5, <1>6, <1>7, <1>8, ReturnsKeeps

-----------------------------------------------------------------------------
(* remove_from_mylist, by itself and in a promotion *)

\* A row cleared keeps what it is of.
LEMMA ClearedDoes ==
  ASSUME NEW f \in Files, row[f] \in Rows, row \in [Files -> Rows \cup {None}],
         row' = [row EXCEPT ![f] = Cleared(row[f])]
  PROVE  /\ row' \in [Files -> Rows \cup {None}]
         /\ \A g \in Files : g # f => row'[g] = row[g]
         /\ row'[f] # None /\ row'[f].lid = 0 /\ row'[f].fid = row[f].fid
         /\ row'[f].generic = row[f].generic
<1>1. /\ Cleared(row[f]) \in Rows /\ Cleared(row[f]).lid = 0
      /\ Cleared(row[f]).fid = row[f].fid /\ Cleared(row[f]).generic = row[f].generic
  BY DEF Cleared, Rows
<1>2. QED
  BY <1>1, Kept

\* A row that names no entry any more is still of what it was.
LEMMA ClearedFollows ==
  ASSUME IInv, NEW f \in Files, row[f] # None,
         \A g \in Files : g # f => row'[g] = row[g],
         row'[f] # None, row'[f].lid = 0, row'[f].fid = row[f].fid,
         row'[f].generic = row[f].generic,
         \A g \in Files : g # f /\ Excused(g) => Excused(g)'
  PROVE  RowShape' /\ \A g \in Files : RowFollows(g)
<1>1. ASSUME NEW g \in Files, row'[g] # None
      PROVE  /\ row'[g].fid \in {None, g, EpisodeOf(g)}
             /\ row'[g].generic <=> row'[g].fid # g
             /\ row'[g].fid = None => row'[g].lid = 0
  <2>1. CASE g = f
    BY <2>1, Known DEF RowShape
  <2>2. CASE g # f
    BY <1>1, <2>2, Known DEF RowShape
  <2>3. QED
    BY <2>1, <2>2
<1>2. ASSUME NEW g \in Files PROVE RowFollows(g)
  <2>1. CASE g = f
    BY <2>1 DEF RowFollows
  <2>2. CASE g # f
    BY <2>2 DEF RowFollows
  <2>3. QED
    BY <2>1, <2>2
<1>3. QED
  BY <1>1, <1>2 DEF RowShape

\* What is known of a call that removes.
LEMMA RemovingFacts ==
  ASSUME IInv, call # None, call.pc \in {"remove", "removing", "retire", "retiring"}
  PROVE  /\ call \in Calls /\ call.on \in Files /\ call.on \notin Episodes
         /\ row[call.on] # None /\ row[call.on] \in Rows /\ call.todo = {}
         /\ Subject \in Episodes /\ call.op # "create"
         /\ call.pc \in {"remove", "removing"} => call.op = "remove"
         /\ call.pc \in {"retire", "retiring"} => ~call.spanned
         /\ call.byFid /\ call.pc \in {"remove", "removing"} => row[call.on].fid = call.on
         /\ call.promoted => call.byFid
         /\ call.carried => call.asked = "yes"
         /\ row \in [Files -> Rows \cup {None}]
<1>1. /\ call \in Calls /\ call.on \in Files /\ row[call.on] # None /\ row[call.on] \in Rows
      /\ Subject \in Episodes /\ call.op # "create"
  BY OnFile
<1>2. call.todo = {}
  BY Known DEF TodoShape
<1>3. /\ call.pc \in {"remove", "removing"} => call.op = "remove"
      /\ call.pc \in {"retire", "retiring"} => ~call.spanned
      /\ call.byFid /\ call.pc \in {"remove", "removing"} => row[call.on].fid = call.on
      /\ call.promoted => call.byFid
      /\ call.carried => call.asked = "yes"
  BY Known DEF CallShape
<1>4. QED
  BY <1>1, <1>2, <1>3, Kept, Known DEF Types

\* A removal under way, with its request.
LEMMA RemovalSends ==
  ASSUME IInv, call # None, call.pc \in {"remove", "removing", "retire", "retiring"},
         NEW pc, NEW eps, NEW on, AsksFor(pc, eps, "del", on, "keep"),
         pc \in {"removing", "retiring"}, eps \in Seq(Episodes), on \in Fids,
         pc = "removing" <=> call.pc \in {"remove", "removing"},
         row'[call.on] # None, row'[call.on].fid = row[call.on].fid
  PROVE  /\ call' \in Calls /\ call' # None /\ SameCall(call') /\ call'.pc = pc
         /\ call'.todo = {} /\ call'.on = call.on
         /\ request' \in Requests /\ request' # None /\ request'.reply = None
         /\ told' = told /\ CallShape' /\ TodoShape' /\ RequestShape' /\ ~HasReply'
<1>1. call \in Calls /\ call.todo = {}
  BY RemovingFacts
<1>2. call' \in Calls
  BY <1>1 DEF Calls, Waits, AsksFor
<1>3. /\ call' # None /\ SameCall(call') /\ call'.pc = pc /\ call'.todo = {}
      /\ call'.on = call.on
  BY <1>1, <1>2, Kept DEF Calls, SameCall, AsksFor
<1>4. /\ request' \in Requests /\ request' # None /\ request'.reply = None
      /\ request'.kind = "del"
  <2>1. Sends("del", on, "keep") /\ "del" \in Kinds
    BY DEF AsksFor, Kinds
  <2>2. QED
    BY <2>1, SendsDoes
<1>5. CallShape'
  <2>1. call'.pc \notin {"creating", "identify", "lookup", "remove", "retire"}
        /\ call'.pc \in Waits /\ call'.pc \in {"removing", "retiring"}
    BY <1>3 DEF Waits
  <2>2. QED
    BY <1>3, <1>4, <2>1, RemovingFacts DEF CallShape, SameCall
<1>6. TodoShape' /\ RequestShape' /\ ~HasReply' /\ told' = told
  BY <1>3, <1>4 DEF TodoShape, RequestShape, HasReply, AsksFor
<1>7. QED
  BY <1>2, <1>3, <1>4, <1>5, <1>6

\* A removal is sent, by identity or by the first of the episodes.
LEMMA SendRemovalKeeps ==
  ASSUME IInv, \/ SendRemoval("remove", "removing")
               \/ SendRemoval("retire", "retiring")
  PROVE  IInv'
<1> DEFINE f == call.on
<1>1. /\ UNCHANGED <<list, known, loose, adrift, astray>> /\ call # None
      /\ call.pc \in {"remove", "retire"}
  BY DEF SendRemoval, At
<1>2. PICK pc \in {"removing", "retiring"} :
        SendRemoval(call.pc, pc) /\ (pc = "removing" <=> call.pc = "remove")
  BY DEF SendRemoval, At
<1>3. /\ call \in Calls /\ f \in Files /\ row[f] # None /\ row[f] \in Rows
      /\ Subject \in Episodes /\ row \in [Files -> Rows \cup {None}]
      /\ \A g : ~Excused(g)
  BY <1>1, RemovingFacts, NoExcuse
<1>4. call.eps = <<>> /\ <<>> \in Seq(Episodes)
  BY <1>1, Known DEF CallShape
<1>5. CASE ByIdentity
  <2>1. /\ AsksFor(pc, <<>>, "del", row[f].fid, "keep")
        /\ row' = [row EXCEPT ![f] = Cleared(row[f])]
    <3>1. [call EXCEPT !.pc = pc] = [call EXCEPT !.pc = pc, !.eps = <<>>]
      BY <1>3, <1>4 DEF Calls
    <3>2. QED
      BY <1>2, <1>5, <3>1 DEF SendRemoval, GoesOnSending, AsksFor
  <2>2. row[f].fid \in Fids
    BY <1>3, <1>5 DEF ByIdentity, Rows
  <2>3. /\ row' \in [Files -> Rows \cup {None}]
        /\ \A g \in Files : g # f => row'[g] = row[g]
        /\ row'[f] # None /\ row'[f].lid = 0 /\ row'[f].fid = row[f].fid
        /\ row'[f].generic = row[f].generic
    BY <1>3, <2>1, ClearedDoes
  <2>4. RowShape' /\ \A g \in Files : RowFollows(g)
    BY <1>3, <2>3, ClearedFollows
  <2>5. /\ call' \in Calls /\ call' # None /\ call'.pc = pc /\ call'.on = f
        /\ request' \in Requests
        /\ told' = told /\ CallShape' /\ TodoShape' /\ RequestShape' /\ ~HasReply'
    BY <1>1, <1>2, <1>4, <2>1, <2>2, <2>3, RemovalSends
  <2>6. Types'
    BY <1>1, <2>3, <2>5, Known DEF Types
  <2>7. Progress'
    BY <2>3, <2>5 DEF Progress, HasEntry
  <2>8. QED
    BY <1>1, <2>4, <2>5, <2>6, <2>7, CallStep
<1>6. CASE ~ByIdentity
  <2> DEFINE eps == Tail(EpisodesToRemove)
             on == Head(EpisodesToRemove)
  <2>1. eps \in Seq(Episodes) /\ on \in Fids
    <3>1. EpisodesToRemove \in Seq(Episodes) /\ EpisodesToRemove # <<>>
      BY <1>3, EpisodeOfType DEF EpisodesToRemove, Subject
    <3>2. QED
      BY <3>1, Kept
  <2>2. AsksFor(pc, eps, "del", on, "keep") /\ row' = row
    BY <1>2, <1>6 DEF SendRemoval, GoesOnSending, AsksFor
  <2> HIDE DEF eps, on
  <2>3. RowShape' /\ \A g \in Files : RowFollows(g)
    BY <1>3, <2>2, SameRows, Known
  <2>4. /\ call' \in Calls /\ call' # None /\ SameCall(call') /\ call'.pc = pc
        /\ call'.on = f /\ request' \in Requests
        /\ told' = told /\ CallShape' /\ TodoShape' /\ RequestShape' /\ ~HasReply'
    BY <1>1, <1>2, <1>3, <2>1, <2>2, RemovalSends
  <2>5. Types'
    BY <1>1, <2>2, <2>4, Known DEF Types
  <2>6. pc = "retiring" => ~HasEntry(f)
    <3>1. pc = "retiring" => ~call.spanned
      BY <1>1, <1>2, RemovingFacts
    <3>2. row[f].fid = None => row[f].lid = 0
      BY <1>3, Known DEF RowShape
    <3>3. QED
      BY <1>6, <3>1, <3>2 DEF ByIdentity, HasEntry
  <2>7. Progress'
    <3>1. ByIdentity' = ByIdentity /\ HasEntry(call.on)' = HasEntry(f)
      BY <2>2, <2>4 DEF ByIdentity, SameCall, HasEntry
    <3>2. QED
      BY <1>6, <2>4, <2>6, <3>1 DEF Progress
  <2>8. QED
    BY <1>1, <2>3, <2>4, <2>5, <2>7, CallStep
<1>7. QED
  BY <1>5, <1>6

\* The removal goes on to the next episode.
LEMMA RemoveNextKeeps ==
  ASSUME IInv, RemoveNext("removing") \/ RemoveNext("retiring")
  PROVE  IInv'
<1> DEFINE eps == Tail(call.eps)
           on == Head(call.eps)
<1>1. /\ UNCHANGED <<list, known, row, loose, adrift, astray>> /\ call # None
      /\ call.pc \in {"removing", "retiring"} /\ call.eps # <<>>
      /\ call' = [call EXCEPT !.eps = eps] /\ Sends("del", on, "keep") /\ told' = told
  BY DEF RemoveNext, Answered, At, GoesOnSending
<1>2. /\ call \in Calls /\ call.on \in Files /\ row[call.on] # None /\ call.todo = {}
  BY <1>1, RemovingFacts
<1>3. eps \in Seq(Episodes) /\ on \in Fids
  <2>1. call.eps \in Seq(Episodes)
    BY <1>2 DEF Calls
  <2>2. QED
    BY <1>1, <2>1, Kept
<1>4. AsksFor(call.pc, eps, "del", on, "keep")
  <2>1. [call EXCEPT !.eps = eps] = [call EXCEPT !.pc = call.pc, !.eps = eps]
    BY <1>2 DEF Calls
  <2>2. QED
    BY <1>1, <2>1 DEF AsksFor
<1> HIDE DEF eps, on
<1>5. /\ call' \in Calls /\ call' # None /\ SameCall(call') /\ call'.pc = call.pc
      /\ call'.todo = {} /\ call'.on = call.on /\ request' \in Requests
      /\ told' = told /\ CallShape' /\ TodoShape' /\ RequestShape' /\ ~HasReply'
  BY <1>1, <1>2, <1>3, <1>4, RemovalSends
<1>6. Types'
  BY <1>1, <1>5, Known DEF Types
<1>7. ByIdentity' = ByIdentity /\ HasEntry(call.on)' = HasEntry(call.on) /\ Subject' = Subject
  BY <1>1, <1>5 DEF ByIdentity, SameCall, HasEntry, Subject
<1>8. RowShape' /\ \A g \in Files : RowFollows(g)
  <2>1. \A g : Excused(g) => Excused(g)'
    BY <1>1, <1>2, <1>5, <1>7 DEF Excused
  <2>2. QED
    BY <1>1, <2>1, SameRows, Known
<1>9. Progress'
  <2>1. Subject \notin astray /\ ((call.pc = "removing" /\ ByIdentity) \/ call.pc = "retiring")
          => ~HasEntry(call.on)
    BY <1>1, <1>2, Known DEF Progress
  <2>2. QED
    BY <1>1, <1>5, <1>7, <2>1 DEF Progress
<1>10. QED
  BY <1>1, <1>5, <1>6, <1>8, <1>9, CallStep

\* remove_from_mylist() ends, the row cleared.
LEMMA RemovedKeeps ==
  ASSUME IInv, Removed
  PROVE  IInv'
<1> DEFINE f == call.on
<1>1. /\ UNCHANGED <<list, known, loose, adrift, astray>> /\ call # None
      /\ call.pc = "removing" /\ Returns("done")
      /\ row' = IF ByIdentity THEN row ELSE [row EXCEPT ![f] = Cleared(row[f])]
  BY DEF Removed, Answered, At
<1>2. /\ f \in Files /\ row[f] # None /\ row[f] \in Rows /\ call.todo = {}
      /\ row \in [Files -> Rows \cup {None}]
  BY <1>1, RemovingFacts
<1>3. loose \in SUBSET Loose /\ IsFiniteSet(loose)
  BY Known DEF Types
<1>4. \A g \in Files : Excused(g) => g = f /\ ~ByIdentity
  BY <1>2 DEF Excused
<1>5. CASE ByIdentity
  <2>1. RowShape' /\ \A g \in Files : RowFollows(g)
    BY <1>1, <1>4, <1>5, SameRows, Known
  <2>2. QED
    BY <1>1, <1>2, <1>3, <1>5, <2>1, ReturnsKeeps
<1>6. CASE ~ByIdentity
  <2>1. /\ row' \in [Files -> Rows \cup {None}]
        /\ \A g \in Files : g # f => row'[g] = row[g]
        /\ row'[f] # None /\ row'[f].lid = 0 /\ row'[f].fid = row[f].fid
        /\ row'[f].generic = row[f].generic
    BY <1>1, <1>2, <1>6, ClearedDoes
  <2>2. RowShape' /\ \A g \in Files : RowFollows(g)
    BY <1>2, <1>4, <2>1, ClearedFollows
  <2>3. QED
    BY <1>1, <1>3, <2>1, <2>2, ReturnsKeeps
<1>7. QED
  BY <1>5, <1>6

\* A promotion turns the generic row into the file's own.
LEMMA RetiredKeeps ==
  ASSUME IInv, Retired
  PROVE  IInv'
<1> DEFINE f == call.on
           watched == call.asked = "yes"
           new == [generic |-> FALSE, fid |-> f, lid |-> 0, watched |-> watched]
<1>1. /\ UNCHANGED <<list, known, loose, adrift, astray>> /\ call # None
      /\ call.pc = "retiring" /\ call.eps = <<>>
      /\ call' = [call EXCEPT !.pc = "stalled"] /\ request' = None /\ told' = told
      /\ row' = [row EXCEPT ![f] = new]
  BY DEF Retired, Answered, At, GoesOn
<1>2. watched \in BOOLEAN
  BY YesIsBoolean
<1> HIDE DEF watched
<1>3. /\ call \in Calls /\ f \in Files /\ row[f] # None /\ call.todo = {}
      /\ row \in [Files -> Rows \cup {None}] /\ \A g : ~Excused(g)
  BY <1>1, RemovingFacts, NoExcuse
<1>4. new \in Rows /\ new.fid = f /\ new.lid = 0 /\ ~new.generic
  BY <1>2, <1>3, Kept DEF Rows
<1> HIDE DEF new
<1>5. /\ row' \in [Files -> Rows \cup {None}] /\ row'[f] = new /\ row'[f] # None
      /\ \A g \in Files : g # f => row'[g] = row[g]
  BY <1>1, <1>3, <1>4, Kept
<1>6. RowShape'
  <2> SUFFICES ASSUME NEW g \in Files, row'[g] # None
               PROVE  /\ row'[g].fid \in {None, g, EpisodeOf(g)}
                      /\ row'[g].generic <=> row'[g].fid # g
                      /\ row'[g].fid = None => row'[g].lid = 0
    BY DEF RowShape
  <2>1. CASE g = f
    BY <1>4, <1>5, <2>1, Kept
  <2>2. CASE g # f
    BY <1>5, <2>2, Known DEF RowShape
  <2>3. QED
    BY <2>1, <2>2
<1>7. \A g \in Files : RowFollows(g)
  <2> TAKE g \in Files
  <2>1. CASE g = f
    BY <1>3, <1>4, <1>5, <2>1, Kept DEF RowFollows
  <2>2. CASE g # f
    BY <1>3, <1>5, <2>2 DEF RowFollows
  <2>3. QED
    BY <2>1, <2>2
<1>8. /\ call' \in Calls /\ call' # None /\ SameCall(call') /\ call'.pc = "stalled"
      /\ call'.todo = {} /\ call'.eps = <<>> /\ call'.on = f
  <2>1. call' \in Calls
    BY <1>1, <1>3 DEF Calls, Steps
  <2>2. QED
    BY <1>1, <1>3, <2>1, Kept DEF Calls, SameCall
<1>9. Types'
  BY <1>1, <1>5, <1>8, Known DEF Types
<1>10. CallShape'
  BY <1>1, <1>4, <1>5, <1>8, RemovingFacts DEF CallShape, SameCall, Waits
<1>11. TodoShape' /\ RequestShape' /\ ~HasReply' /\ Progress'
  BY <1>1, <1>8 DEF TodoShape, RequestShape, HasReply, Progress
<1>12. QED
  BY <1>1, <1>6, <1>7, <1>9, <1>10, <1>11, CallStep

\* A promotion goes on once its fetch has timed out.
LEMMA UnstallKeeps ==
  ASSUME IInv, Unstall
  PROVE  IInv'
<1>1. /\ UNCHANGED <<list, known, row, loose, adrift, astray>> /\ request' = request
      /\ call # None /\ call.pc = "stalled" /\ told' = "raised"
      /\ call' = [call EXCEPT !.pc = "decide"]
  BY DEF Unstall, At
<1>2. /\ call \in Calls /\ call.on \in Files /\ row[call.on] # None /\ call.on \notin Episodes
  BY <1>1, OnFile, Kept
<1>3. call.todo = {} /\ call.eps = <<>> /\ request = None /\ call.op # "create"
      /\ (call.byFid => row[call.on].fid = call.on) /\ (call.promoted => call.byFid)
      /\ (call.carried => call.asked = "yes")
  BY <1>1, Known DEF TodoShape, CallShape, Waits
<1>4. /\ call' \in Calls /\ call' # None /\ SameCall(call') /\ call'.pc = "decide"
      /\ call'.todo = {} /\ call'.eps = <<>>
  <2>1. call' \in Calls
    BY <1>1, <1>2 DEF Calls, Steps
  <2>2. QED
    BY <1>1, <1>2, <1>3, <2>1, Kept DEF Calls, SameCall
<1>5. RowShape' /\ \A g \in Files : RowFollows(g)
  BY <1>1, NoExcuse, SameRows, Known
<1>6. Types'
  BY <1>1, <1>4, Known DEF Types
<1>7. CallShape'
  BY <1>1, <1>2, <1>3, <1>4 DEF CallShape, SameCall, Waits
<1>8. TodoShape' /\ RequestShape' /\ ~HasReply' /\ Progress'
  BY <1>1, <1>3, <1>4 DEF TodoShape, RequestShape, HasReply, Progress
<1>9. QED
  BY <1>1, <1>5, <1>6, <1>7, <1>8, CallStep

-----------------------------------------------------------------------------
(* The world: requests that come to nothing *)

\* A lost reply leaves the request as it was sent.
LEMMA LoseReplyKeeps ==
  ASSUME IInv, LoseReply
  PROVE  IInv'
<1>1. /\ UNCHANGED <<list, known, row, loose, call, adrift, told, astray>> /\ HasReply
      /\ request' = [request EXCEPT !.reply = None]
  BY DEF LoseReply, HasReply
<1>2. request \in Requests
  BY <1>1, Known DEF HasReply
<1>3. /\ request' \in Requests /\ request' # None /\ request'.reply = None
      /\ request'.kind = request.kind /\ request'.on = request.on
      /\ request'.watched = request.watched
  <2>1. request' \in Requests
    BY <1>1, <1>2 DEF Requests
  <2>2. QED
    BY <1>1, <1>2, <2>1, Kept DEF Requests
<1>4. Types'
  BY <1>1, <1>3, Known DEF Types
<1>5. RowShape' /\ \A f \in Files : RowFollows(f)
  <2>1. \A f : Excused(f)' = Excused(f)
    BY <1>1 DEF Excused, ByIdentity
  <2>2. QED
    BY <1>1, <2>1, SameRows, Known
<1>6. CallShape'
  BY <1>1, <1>3, Known DEF CallShape, HasReply
<1>7. TodoShape'
  BY <1>1, Known DEF TodoShape, HasEntry, Subject
<1>8. RequestShape' /\ ~HasReply'
  BY <1>1, <1>3, Known DEF RequestShape, HasReply, Subject
<1>9. Progress'
  <2>1. Progress
    BY Known
  <2>2. /\ Subject' = Subject /\ Covering(Subject)' = Covering(Subject)
        /\ HasEntry(call.on)' = HasEntry(call.on) /\ ByIdentity' = ByIdentity
        /\ \A x : AsAsked(x)' = AsAsked(x) /\ FidOf(x)' = FidOf(x)
    BY <1>1 DEF Subject, Covering, HasEntry, ByIdentity, AsAsked, FidOf, Target
  <2>3. (Clearing => Clearing') /\ (Adding => Adding')
    BY <1>1, <1>3, <2>2 DEF Clearing, Adding, HasReply
  <2>4. row' = row /\ call' = call /\ astray' = astray
    BY <1>1
  <2>5. QED
    BY <1>3, <2>1, <2>2, <2>3, <2>4 DEF Progress, HasReply
<1>10. QED
  BY <1>1, <1>4, <1>5, <1>6, <1>7, <1>8, <1>9, CallStep

\* A call ends half-way: the rows it had still to clear are true, or astray.
LEMMA EndsHalfWay ==
  ASSUME IInv, call' = None, request' = None, UNCHANGED <<list, known, row, loose>>,
         astray' = astray \cup HalfRemoved,
         told' \in {"nothing", "waiting", "done", "raised", "crashed", "added", "already present"},
         adrift' \in SUBSET Lates, \A a, b \in adrift' : a = b, LateShape'
  PROVE  IInv'
<1>1. HalfRemoved \in SUBSET Episodes
  <2>1. call # None /\ call.pc \notin {"creating", "identify"} => Subject \in Episodes
    BY OnFile
  <2>2. At("removing") => call # None /\ call.pc \notin {"creating", "identify"}
    BY DEF At
  <2>3. call # None /\ (\E h \in call.todo : ~InList(h)) => call.pc \notin {"creating", "identify"}
    BY Known DEF TodoShape
  <2>4. QED
    BY <2>1, <2>2, <2>3 DEF HalfRemoved, Subject
<1>2. Types'
  BY <1>1, Known DEF Types
<1>3. ~HasReply' /\ CallShape' /\ TodoShape' /\ RequestShape' /\ Progress'
  BY NoCall
<1>4. ASSUME NEW f \in Files, HasEntry(f), Excused(f), EpisodeOf(f) \notin astray'
      PROVE  \E x \in list : Names(f, x)
  <2>1. ~(f = call.on /\ call.pc = "removing" /\ ~ByIdentity)
    BY <1>4 DEF HalfRemoved, At, Excused
  <2>2. call # None /\ f \in call.todo
    BY <1>4, <2>1 DEF Excused
  <2>3. EpisodeOf(f) = Subject
    BY <2>2, Known DEF TodoShape
  <2>4. InList(f)
    BY <1>4, <2>2, <2>3 DEF HalfRemoved, Subject
  <2>5. PICK x \in list : x.lid = row[f].lid
    BY <2>4 DEF InList, LidOf
  <2>6. x.fid \in Fids /\ Seen(row[f].lid, x.fid)
    BY <2>5, Known DEF Entries, Seen
  <2>7. x.fid = row[f].fid
    BY <1>4, <2>6, Known DEF RowsAgree
  <2>8. QED
    BY <2>5, <2>7 DEF Names
<1>5. \A f \in Files : RowFollows(f)
  BY <1>4 DEF RowFollows, HasEntry
<1>6. RowShape'
  BY Known DEF RowShape
<1>7. QED
  BY <1>2, <1>3, <1>5, <1>6, QuietStep

\* A request given up by the transport ends the call.
LEMMA FailKeeps ==
  ASSUME IInv, Fail
  PROVE  IInv'
<1>1. /\ UNCHANGED <<list, known, row, loose, adrift>> /\ call' = None /\ request' = None
      /\ told' \in {told, "raised"} /\ astray' = astray \cup HalfRemoved
  BY DEF Fail, Returns
<1>2. LateShape'
  BY <1>1, Known DEF LateShape
<1>3. /\ told' \in {"nothing", "waiting", "done", "raised", "crashed", "added",
                    "already present"}
      /\ adrift' \in SUBSET Lates /\ \A a, b \in adrift' : a = b
  BY <1>1, Known DEF Types
<1>4. QED
  BY <1>1, <1>2, <1>3, EndsHalfWay

\* What a request to add is about.
LEMMA Adds ==
  ASSUME IInv, request # None, request.kind \in {"add", "add generic"}
  PROVE  /\ call # None /\ call.pc \in {"adding", "creating"} /\ request.on \in Fids
         /\ request.kind = "add" => call.pc = "adding"
         /\ request.kind = "add generic" => request.on \in Episodes
         /\ call.pc = "adding" =>
              /\ call.on \in Files /\ request.watched = call.asked
              /\ request.kind = "add" => /\ row[call.on].fid # None
                                         /\ request.on = row[call.on].fid
              /\ request.kind = "add generic" => row[call.on].fid = None
<1>1. call # None /\ call.pc \in Waits
  BY Known DEF RequestShape, CallShape
<1>2. call.pc \in {"adding", "creating"}
  BY <1>1, Known DEF RequestShape, Waits
<1>3. /\ request.kind = "add" => call.pc = "adding"
      /\ request.kind = "add generic" => request.on \in Episodes
      /\ call.pc = "adding" =>
           /\ request.watched = call.asked
           /\ request.kind = "add" => row[call.on].fid # None /\ request.on = row[call.on].fid
           /\ request.kind = "add generic" => row[call.on].fid = None
  BY <1>1, <1>2, Known DEF RequestShape
<1>4. call.pc = "adding" => call.on \in Files /\ row[call.on] \in Rows
  BY <1>1, OnFile
<1>5. request.on \in Fids
  BY <1>2, <1>3, <1>4, Kept DEF Rows
<1>6. QED
  BY <1>1, <1>2, <1>3, <1>4, <1>5

\* A request given up by the caller ends the call, and stays adrift.
LEMMA GiveUpKeeps ==
  ASSUME IInv, GiveUp
  PROVE  IInv'
<1> DEFINE for == IF request.kind = "add" THEN call.on ELSE None
           late == [kind |-> request.kind, on |-> request.on, watched |-> request.watched,
                    for |-> for]
<1>1. /\ UNCHANGED <<list, known, row, loose>> /\ call' = None /\ request' = None
      /\ told' \in {told, "raised"} /\ astray' = astray \cup HalfRemoved
      /\ request # None /\ request.kind \in GivenUp /\ adrift' = {late}
  BY DEF GiveUp, Returns
<1>2. request \in Requests
  BY <1>1, Known
<1>3. /\ request.kind = "add" => for \in Files
      /\ request.kind # "add" => for = None
  BY <1>1, Adds
<1> HIDE DEF for
<1>4. late \in Lates
  BY <1>1, <1>2, <1>3 DEF Lates, Requests
<1>5. LateShape'
  <2>1. /\ late.kind = request.kind /\ late.on = request.on /\ late.for = for
    OBVIOUS
  <2>2. ASSUME request.kind = "add"
        PROVE  /\ for = call.on /\ for \in Files /\ row[for] # None /\ row[for].fid # None
               /\ request.on \in {for, EpisodeOf(for)}
    <3>1. for = call.on /\ for \in Files /\ row[for].fid # None /\ request.on = row[for].fid
      BY <1>1, <2>2, Adds DEF for
    <3>2. row[for] # None
      BY <1>1, <2>2, <3>1, Adds, OnFile
    <3>3. QED
      BY <3>1, <3>2, Known DEF RowShape
  <2>3. request.kind = "add generic" => request.on \in Episodes
    BY <1>1, Adds
  <2> HIDE DEF late
  <2>4. QED
    BY <1>1, <2>1, <2>2, <2>3 DEF LateShape
<1> HIDE DEF late
<1>6. /\ told' \in {"nothing", "waiting", "done", "raised", "crashed", "added",
                    "already present"}
      /\ adrift' \in SUBSET Lates /\ \A a, b \in adrift' : a = b
  BY <1>1, <1>4, Known DEF Types
<1>7. QED
  BY <1>1, <1>5, <1>6, EndsHalfWay

\* A crash ends the call, and nothing is adrift after it.
LEMMA CrashKeeps ==
  ASSUME IInv, Crash
  PROVE  IInv'
<1>1. /\ UNCHANGED <<list, known, row, loose>> /\ call' = None /\ request' = None
      /\ told' = "crashed" /\ astray' = astray \cup HalfRemoved /\ adrift' = {}
  BY DEF Crash
<1>2. LateShape' /\ adrift' \in SUBSET Lates /\ \A a, b \in adrift' : a = b
  BY <1>1 DEF LateShape
<1>3. QED
  BY <1>1, <1>2, EndsHalfWay

\* AniDB indexes a file.
LEMMA IndexKeeps ==
  ASSUME IInv, NEW f \in Files, Index(f)
  PROVE  IInv'
<1>1. UNCHANGED <<list, row, loose, call, request, adrift, told, astray>>
      /\ known' = known \cup {f}
  BY DEF Index
<1>2. Types'
  BY <1>1, Known DEF Types
<1>3. RowShape' /\ LateShape'
  BY <1>1, Known DEF RowShape, LateShape
<1>4. CallShape' /\ TodoShape'
  BY <1>1, Known DEF CallShape, TodoShape, HasEntry, Subject
<1>5. RequestShape' /\ ReplyShape'
  BY <1>1, Known DEF RequestShape, ReplyShape, HasReply, Subject
<1>6. \A n, p : Seen(n, p)' = Seen(n, p)
  BY <1>1 DEF Seen, ReplyEntry, HasReply
<1>7. LidsAgree'
  BY <1>6, Known DEF LidsAgree
<1>8. RowsAgree'
  BY <1>1, <1>6, Known DEF RowsAgree, HasEntry
<1>9. ReplyIsCurrent' /\ OneEntry'
  BY <1>1, Known DEF ReplyIsCurrent, OneEntry, ReplyEntry, HasReply
<1>10. RowsAreTrue'
  BY <1>1, Known DEF RowsAreTrue, HasEntry, Excused, ByIdentity, Names
<1>11. Progress'
  BY <1>1, Known DEF Progress, Clearing, Adding, AsAsked, Target, Subject, Covering,
     HasEntry, FidOf, HasReply, ByIdentity
<1>12. QED
  BY <1>2, <1>3, <1>4, <1>5, <1>7, <1>8, <1>9, <1>10, <1>11 DEF IInv

-----------------------------------------------------------------------------
(* The world: requests AniDB serves *)

\* A reply with a code, and one of some entries.
Says(code, entries) ==
  [code |-> code, entry |-> IF entries = {} THEN None ELSE CHOOSE x \in entries : TRUE]

\* What a reply of these entries carries.
LEMMA SaysDoes ==
  ASSUME NEW code, NEW entries, code \in Codes, entries \in SUBSET Entries
  PROVE  /\ Says(code, entries) \in Replies /\ Says(code, entries).code = code
         /\ Says(code, entries).entry # None => Says(code, entries).entry \in entries
         /\ entries = {} => Says(code, entries).entry = None
         /\ entries # {} => Says(code, entries).entry # None
<1> DEFINE entry == IF entries = {} THEN None ELSE CHOOSE x \in entries : TRUE
<1>1. (entries # {} => entry \in entries) /\ (entries = {} => entry = None)
  OBVIOUS
<1>2. Says(code, entries) = [code |-> code, entry |-> entry]
  BY DEF Says
<1> HIDE DEF entry
<1>3. entry \in Entries \cup {None} /\ (entries # {} => entry # None)
  BY <1>1, Kept
<1>4. [code |-> code, entry |-> entry] \in Replies
  BY <1>3 DEF Replies
<1>5. QED
  BY <1>1, <1>2, <1>3, <1>4

\* What a reply says, by the kind of the request.
LEMMA ReplyDoes ==
  ASSUME Types, NEW q, q.kind \in Kinds, q.kind \in {"add", "add generic"} => q.on \in Fids
  PROVE  /\ Reply(q) \in Replies
         /\ Reply(q).entry # None => Reply(q).entry \in Served(q)
         /\ q.kind = "file" => /\ Reply(q).code \in {"220", "320"}
                               /\ Reply(q).entry # None => Reply(q).entry.fid = q.on
         /\ q.kind = "list" => /\ Reply(q).code \in {"312", "321", "221"}
                               /\ Reply(q).code = "221" <=> Reply(q).entry # None
                               /\ Reply(q).entry # None => Reply(q).entry \in Matching(q)
                               /\ Reply(q).code = "321" => Matching(q) = {}
         /\ q.kind = "add" /\ Reply(q).entry # None =>
              /\ ~Refused(q) /\ Reply(q).entry \notin list
              /\ Reply(q).entry = [lid |-> FreshLid, fid |-> q.on, watched |-> q.watched = "yes"]
         /\ q.kind \in {"add generic", "edit", "del"} => Reply(q).entry = None
<1> DEFINE own == {x \in list : x.fid = q.on}
<1>1. /\ own \in SUBSET Entries /\ own \subseteq list /\ {} \in SUBSET Entries
      /\ Matching(q) \in SUBSET Entries /\ Matching(q) \subseteq list
  BY DEF Types, Matching, Covering
<1>2. CASE q.kind = "file"
  <2>1. Reply(q) = IF q.on \in known THEN Says("220", own) ELSE Says("320", {})
    BY <1>2 DEF Reply, Says
  <2>2. Served(q) = list
    BY <1>2 DEF Served
  <2>3. "220" \in Codes /\ "320" \in Codes
    BY DEF Codes
  <2>4. QED
    BY SaysDoes, <1>1, <1>2, <2>1, <2>2, <2>3
<1>3. CASE q.kind = "list"
  <2>1. Reply(q) = IF Cardinality(Matching(q)) > 1 THEN Says("312", {})
                   ELSE IF Matching(q) = {} THEN Says("321", {}) ELSE Says("221", Matching(q))
    BY <1>3 DEF Reply, Says
  <2>2. Served(q) = list
    BY <1>3 DEF Served
  <2>3. "312" \in Codes /\ "321" \in Codes /\ "221" \in Codes
    BY DEF Codes
  <2>4. QED
    BY SaysDoes, <1>1, <1>3, <2>1, <2>2, <2>3
<1>4. CASE q.kind = "add"
  <2> DEFINE new == [lid |-> FreshLid, fid |-> q.on, watched |-> q.watched = "yes"]
  <2>1. Reply(q) = IF Refused(q) THEN Says("310", {}) ELSE Says("210", Served(q) \ list)
    BY <1>4 DEF Reply, Says
  <2>2. ~Refused(q) => Served(q) = list \cup {new}
    BY <1>4 DEF Served
  <2>3. Served(q) \subseteq Entries
    BY ServedDoes
  <2> HIDE DEF new
  <2>4. "310" \in Codes /\ "210" \in Codes
    BY DEF Codes
  <2>5. CASE Refused(q)
    BY SaysDoes, <1>1, <1>4, <2>1, <2>4, <2>5
  <2>6. CASE ~Refused(q)
    <3> DEFINE fresh == Served(q) \ list
    <3>1. Reply(q) = Says("210", fresh) /\ fresh \in SUBSET Entries
      BY <2>1, <2>3, <2>6
    <3> HIDE DEF fresh
    <3>2. /\ Says("210", fresh) \in Replies
          /\ Says("210", fresh).entry # None => Says("210", fresh).entry \in fresh
      BY <2>4, <3>1, SaysDoes
    <3>3. Reply(q) \in Replies /\ (Reply(q).entry # None => Reply(q).entry \in fresh)
      BY <3>1, <3>2
    <3>4. QED
      BY <1>4, <2>2, <2>6, <3>3 DEF new, fresh
  <2>7. QED
    BY <2>5, <2>6
<1>5. CASE q.kind = "add generic"
  <2> DEFINE code == IF Refused(q) THEN "310" ELSE "210"
  <2>1. Reply(q) = Says(code, {}) /\ code \in Codes
    BY <1>5 DEF Reply, Says, Codes
  <2> HIDE DEF code
  <2>2. QED
    <3>1. Says(code, {}) \in Replies /\ Says(code, {}).entry = None
      BY <1>1, <2>1, SaysDoes
    <3>2. Reply(q) \in Replies /\ Reply(q).entry = None
      BY <2>1, <3>1
    <3>3. QED
      BY <1>5, <3>2
<1>6. CASE q.kind = "edit"
  <2> DEFINE code == IF Served(q) # list \/ \E x \in list : x.lid = q.on THEN "311" ELSE "411"
  <2>1. Reply(q) = Says(code, {}) /\ code \in Codes
    BY <1>6 DEF Reply, Says, Codes
  <2> HIDE DEF code
  <2>2. QED
    BY SaysDoes, <1>1, <1>6, <2>1
<1>7. CASE q.kind = "del"
  <2> DEFINE code == IF Served(q) # list THEN "211" ELSE "411"
  <2>1. Reply(q) = Says(code, {}) /\ code \in Codes
    BY <1>7 DEF Reply, Says, Codes
  <2> HIDE DEF code
  <2>2. QED
    BY SaysDoes, <1>1, <1>7, <2>1
<1>8. QED
  BY <1>2, <1>3, <1>4, <1>5, <1>6, <1>7 DEF Kinds

\* An entry of the list AniDB serves is one it had, as it was or edited, or the new one.
LEMMA ServedFrom ==
  ASSUME NEW q, q.kind \in Kinds, list \subseteq Entries, NEW x \in Served(q)
  PROVE  \/ \E y \in list : /\ x.lid = y.lid /\ x.fid = y.fid
                            /\ x = y \/ q.kind = "edit"
         \/ /\ q.kind \in {"add", "add generic"} /\ ~Refused(q)
            /\ x = [lid |-> FreshLid, fid |-> q.on, watched |-> q.watched = "yes"]
<1> DEFINE edited(y) == IF y.lid = q.on /\ q.watched # "keep"
                        THEN [y EXCEPT !.watched = (q.watched = "yes")] ELSE y
<1>1. CASE q.kind = "edit"
  <2>1. Served(q) = {edited(y) : y \in list}
    BY <1>1 DEF Served
  <2>2. PICK y \in list : x = edited(y)
    BY <2>1
  <2>3. x.lid = y.lid /\ x.fid = y.fid
    BY <2>2 DEF Entries
  <2>4. QED
    BY <1>1, <2>3
<1>2. CASE q.kind # "edit"
  BY <1>2 DEF Served, Kinds
<1>3. QED
  BY <1>1, <1>2

\* And the entries AniDB had are still there, as they were or edited, but for a removal.
LEMMA ServedKeeps ==
  ASSUME NEW q, q.kind \in Kinds, list \subseteq Entries, NEW y \in list,
         q.kind = "del" => y.fid # q.on
  PROVE  \E x \in Served(q) : x.lid = y.lid /\ x.fid = y.fid
<1> DEFINE edited == IF y.lid = q.on /\ q.watched # "keep"
                     THEN [y EXCEPT !.watched = (q.watched = "yes")] ELSE y
<1>1. CASE q.kind = "edit"
  <2>1. edited \in Served(q)
    BY <1>1 DEF Served
  <2>2. edited.lid = y.lid /\ edited.fid = y.fid
    BY DEF Entries
  <2>3. QED
    BY <2>1, <2>2
<1>2. CASE q.kind # "edit"
  BY <1>2 DEF Served, Kinds
<1>3. QED
  BY <1>1, <1>2

\* Nobody has seen a fresh lid.
LEMMA FreshUnseen ==
  ASSUME IInv, ReplyEntry => request.reply.entry \in list
  PROVE  /\ \A p : ~Seen(FreshLid, p)
         /\ \A f \in Files : row[f] # None => row[f].lid # FreshLid
<1>1. FreshLid \notin Named
  BY FreshLidIsFresh, Known
<1>2. /\ \A x \in list : x.lid \in Named
      /\ \A s \in loose : s.lid \in Named
      /\ \A f \in Files : row[f] # None => row[f].lid \in Named
  BY DEF Named
<1>3. ASSUME NEW p, [fid |-> p, lid |-> FreshLid] \in loose PROVE FALSE
  <2> DEFINE s == [fid |-> p, lid |-> FreshLid]
  <2>1. s.lid = FreshLid /\ s \in loose
    BY <1>3
  <2>2. QED
    BY <1>1, <1>2, <2>1
<1>4. QED
  BY <1>1, <1>2, <1>3 DEF Seen

\* An entry a request adds is of an episode nothing covers, but where the list moved.
LEMMA AddFinds ==
  ASSUME IInv, request # None, request.kind \in {"add", "add generic"}, ~Refused(request),
         EpisodeOf(request.on) \notin astray
  PROVE  Covering(EpisodeOf(request.on)) = {}
<1>1. CASE request.kind = "add generic"
  <2>1. EpisodeOf(request.on) = request.on
    BY <1>1, Adds, EpisodeOfType
  <2>2. QED
    BY <1>1, <2>1 DEF Refused
<1>2. CASE request.kind = "add"
  <2>1. /\ call # None /\ call.pc = "adding" /\ call.on \in Files
        /\ row[call.on].fid # None /\ request.on = row[call.on].fid
    BY <1>2, Adds
  <2>2. EpisodeOf(request.on) = Subject
    BY <2>1, OnFile, EpisodeOfType DEF Subject
  <2>3. \A x \in Covering(Subject) : x.fid = request.on
    BY <2>1, <2>2, Known DEF Progress, Adding, AsAsked, Target
  <2>4. QED
    BY <1>2, <2>2, <2>3 DEF Refused, Covering
<1>3. QED
  BY <1>1, <1>2

\* What a request that AniDB serves says of the list.
LEMMA ServeDoes ==
  ASSUME IInv, Serve
  PROVE  /\ UNCHANGED <<known, row, loose, call, adrift, told>> /\ astray \subseteq astray'
         /\ list' = Served(request) /\ astray' = astray \cup TakenFromOthers
         /\ call # None /\ request \in Requests /\ request.kind \in Kinds
         /\ request.kind \in {"add", "add generic"} => request.on \in Fids
         /\ request.reply = None /\ ~HasReply /\ ~ReplyEntry
         /\ request' \in Requests /\ request' # None
         /\ request'.reply = Reply(request) /\ request'.reply \in Replies
         /\ request'.kind = request.kind /\ request'.on = request.on
         /\ request'.watched = request.watched
         /\ list \subseteq Entries /\ Types
<1>1. /\ request # None /\ request.reply = None
      /\ list' = Served(request) /\ request' = [request EXCEPT !.reply = Reply(request)]
      /\ astray' = astray \cup TakenFromOthers
      /\ UNCHANGED <<known, row, loose, call, adrift, told>>
  BY DEF Serve
<1>2. request \in Requests /\ list \subseteq Entries /\ Types /\ call # None
  BY <1>1, Known DEF Types, RequestShape
<1>3. request.kind \in Kinds
  BY <1>2 DEF Requests
<1>4. request.kind \in {"add", "add generic"} => request.on \in Fids
  BY <1>1, Adds
<1>5. Reply(request) \in Replies
  BY <1>2, <1>3, <1>4, ReplyDoes
<1>6. request' \in Requests
  BY <1>1, <1>2, <1>5 DEF Requests
<1>7. /\ request' # None /\ request'.reply = Reply(request)
      /\ request'.kind = request.kind /\ request'.on = request.on
      /\ request'.watched = request.watched
  BY <1>1, <1>2, <1>6, Kept DEF Requests
<1>8. ~HasReply /\ ~ReplyEntry
  BY <1>1 DEF HasReply, ReplyEntry
<1>9. QED
  BY <1>1, <1>2, <1>3, <1>4, <1>5, <1>6, <1>7, <1>8

\* Served, a request shows no lid of another file than it was of.
LEMMA ServeSees ==
  ASSUME IInv, Serve, NEW n, NEW p, Seen(n, p)'
  PROVE  Seen(n, p) \/ (n = FreshLid /\ p = request.on)
<1>1. ASSUME NEW x \in Served(request)
      PROVE  Seen(x.lid, x.fid) \/ (x.lid = FreshLid /\ x.fid = request.on)
  <2>1. request.kind \in Kinds /\ list \subseteq Entries
    BY ServeDoes
  <2>2. \/ \E y \in list : x.lid = y.lid /\ x.fid = y.fid
        \/ x = [lid |-> FreshLid, fid |-> request.on, watched |-> request.watched = "yes"]
    BY <2>1, ServedFrom
  <2>3. QED
    BY <2>2 DEF Seen
<1>2. ReplyEntry' => Reply(request).entry \in Served(request) /\ request'.reply = Reply(request)
  BY ServeDoes, ReplyDoes DEF ReplyEntry
<1>3. CASE \E x \in list' : x.lid = n /\ x.fid = p
  BY <1>1, <1>3, ServeDoes
<1>4. CASE [fid |-> p, lid |-> n] \in loose
  BY <1>4 DEF Seen
<1>5. CASE ReplyEntry' /\ request'.reply.entry.lid = n /\ request'.reply.entry.fid = p
  BY <1>1, <1>2, <1>5
<1>6. QED
  BY <1>3, <1>4, <1>5, ServeDoes DEF Seen

\* What AniDB's list says of an episode once a request of the call has been served.
LEMMA ServeOneEntry ==
  ASSUME IInv, Serve
  PROVE  OneEntry'
<1> SUFFICES ASSUME NEW x \in Served(request), NEW y \in Served(request),
                    EpisodeOf(x.fid) = EpisodeOf(y.fid), EpisodeOf(x.fid) \notin astray
             PROVE  x = y
  BY ServeDoes DEF OneEntry
<1> DEFINE new == [lid |-> FreshLid, fid |-> request.on, watched |-> request.watched = "yes"]
<1>1. CASE request.kind = "edit"
  <2> DEFINE edited(z) == IF z.lid = request.on /\ request.watched # "keep"
                          THEN [z EXCEPT !.watched = (request.watched = "yes")] ELSE z
  <2>1. Served(request) = {edited(z) : z \in list}
    BY <1>1 DEF Served
  <2>2. PICK u \in list : x = edited(u)
    BY <2>1
  <2>3. PICK v \in list : y = edited(v)
    BY <2>1
  <2>4. \A z \in list : edited(z).fid = z.fid
    BY ServeDoes DEF Entries
  <2>5. u = v
    BY <2>2, <2>3, <2>4, Known DEF OneEntry
  <2>6. QED
    BY <2>2, <2>3, <2>5
<1>2. CASE request.kind # "edit"
  <2>1. /\ x \in list \/ (request.kind \in {"add", "add generic"} /\ ~Refused(request) /\ x = new)
        /\ y \in list \/ (request.kind \in {"add", "add generic"} /\ ~Refused(request) /\ y = new)
    BY <1>2, ServeDoes, ServedFrom
  <2>2. new.fid = request.on
    OBVIOUS
  <2> HIDE DEF new
  <2>3. CASE x \in list /\ y \in list
    BY <2>3, Known DEF OneEntry
  <2>4. ASSUME request.kind \in {"add", "add generic"}, ~Refused(request), x = new \/ y = new
        PROVE  \A z \in list : EpisodeOf(z.fid) # EpisodeOf(x.fid)
    <3>1. EpisodeOf(request.on) = EpisodeOf(x.fid)
      BY <2>2, <2>4
    <3>2. request # None
      BY DEF Serve
    <3>3. Covering(EpisodeOf(request.on)) = {}
      BY <2>4, <3>1, <3>2, AddFinds
    <3>4. QED
      BY <3>1, <3>3 DEF Covering
  <2>5. QED
    BY <2>1, <2>3, <2>4
<1>3. QED
  BY <1>1, <1>2

\* The rows are still true once a request of the call has been served, but for rows of
\* other files whose entry it removed.
LEMMA ServeRowsAreTrue ==
  ASSUME IInv, Serve
  PROVE  RowsAreTrue'
<1> SUFFICES ASSUME NEW f \in Files, HasEntry(f), EpisodeOf(f) \notin astray', ~Excused(f)
             PROVE  \E x \in Served(request) : Names(f, x)
  <2>1. \A g \in Files : /\ HasEntry(g)' = HasEntry(g) /\ Excused(g)' = Excused(g)
                         /\ \A x : Names(g, x)' = Names(g, x)
    BY ServeDoes DEF HasEntry, Excused, ByIdentity, Names
  <2>2. QED
    BY <2>1, ServeDoes DEF RowsAreTrue
<1>1. EpisodeOf(f) \notin astray /\ EpisodeOf(f) \notin TakenFromOthers
  BY ServeDoes
<1>2. PICK y \in list : Names(f, y)
  BY <1>1, Known DEF RowsAreTrue
<1>3. y.lid = row[f].lid /\ y.fid = row[f].fid
  BY <1>2 DEF Names
<1>4. CASE request.kind = "del" => y.fid # request.on
  <2>1. request.kind \in Kinds /\ list \subseteq Entries
    BY ServeDoes
  <2>2. \E x \in Served(request) : x.lid = y.lid /\ x.fid = y.fid
    BY <1>4, <2>1, ServedKeeps
  <2>3. QED
    BY <1>3, <2>2 DEF Names
<1>5. CASE request.kind = "del" /\ y.fid = request.on
  <2>1. y \in list \ Served(request)
    BY <1>5 DEF Served
  <2>2. y.fid \in Fids /\ row[f].fid \in {f, EpisodeOf(f)}
    <3>1. y \in Entries
      BY Known
    <3>2. y.fid \in Fids
      BY <3>1 DEF Entries
    <3>3. QED
      BY <1>3, <3>2, Kept, Known DEF RowShape, HasEntry
  <2>3. EpisodeOf(y.fid) = EpisodeOf(f)
    BY <1>3, <2>2, EpisodeOfType, Kept
  <2>4. f \in call.todo \cup {call.on}
    BY <1>1, <1>3, <2>1, <2>3 DEF TakenFromOthers
  <2>5. f = call.on
    BY <2>4, ServeDoes DEF Excused
  <2>6. call.pc \in {"clearing", "removing", "retiring"}
    <3>1. call.pc \in Waits
      BY ServeDoes, Known DEF CallShape, Serve
    <3>2. QED
      BY <1>5, <3>1, ServeDoes, Known DEF RequestShape, Waits, Serve
  <2>7. call.pc = "removing" => ByIdentity
    BY <2>5, ServeDoes DEF Excused
  <2>8. ~HasEntry(call.on)
    BY <1>1, <2>5, <2>6, <2>7, ServeDoes, Known DEF Progress, Clearing, Subject
  <2>9. QED
    BY <2>5, <2>8
<1>6. QED
  BY <1>4, <1>5

\* The entries of the call's episode once its request has been served.
LEMMA ServeCovers ==
  ASSUME IInv, Serve, call.pc \in {"lookup", "ask", "read back"}
  PROVE  /\ request.kind = "list" /\ Served(request) = list
         /\ Reply(request).code = "321" => Matching(request) = {}
<1>1. request.kind = "list"
  BY ServeDoes, Known DEF RequestShape, Serve
<1>2. Served(request) = list
  BY <1>1 DEF Served
<1>3. QED
  BY <1>1, <1>2, ServeDoes, ReplyDoes

\* An add leaves its episode covered, by what the call asked for alone.
LEMMA ServeAdds ==
  ASSUME IInv, Serve, call.pc = "adding", Subject \notin astray
  PROVE  /\ \A x \in Served(request) : EpisodeOf(x.fid) = Subject => AsAsked(x)
         /\ \E x \in Served(request) : EpisodeOf(x.fid) = Subject
<1> DEFINE new == [lid |-> FreshLid, fid |-> request.on, watched |-> request.watched = "yes"]
<1>1. /\ call # None /\ request # None /\ call.on \in Files /\ request.reply = None
      /\ request.kind \in Kinds /\ list \subseteq Entries
      /\ Subject \in Episodes /\ Subject = EpisodeOf(call.on)
      /\ row[call.on].fid \in {None, call.on, Subject}
  BY ServeDoes, OnFile DEF Serve
<1>2. Adding
  BY <1>1, Known DEF Progress
<1>3. /\ request.watched = call.asked
      /\ \/ request.kind = "add" /\ row[call.on].fid # None /\ request.on = row[call.on].fid
         \/ /\ request.kind = "add generic" /\ row[call.on].fid = None
            /\ request.on \in Episodes
  BY <1>1, Known DEF RequestShape
<1>4. EpisodeOf(request.on) = Subject => request.on = Target
  BY <1>1, <1>3, EpisodeOfType DEF Target
<1>5. /\ new.fid = request.on /\ new.watched = (request.watched = "yes")
      /\ ~Refused(request) => Served(request) = list \cup {new}
      /\ Refused(request) => Served(request) = list
  BY <1>3 DEF Served
<1> HIDE DEF new
<1>6. \A x \in list : EpisodeOf(x.fid) = Subject => AsAsked(x)
  BY <1>2 DEF Adding, Covering
<1>7. EpisodeOf(new.fid) = Subject => AsAsked(new)
  BY <1>3, <1>4, <1>5 DEF AsAsked
<1>8. ASSUME Covering(Subject) = {}
      PROVE  ~Refused(request) /\ EpisodeOf(new.fid) = Subject
  <2>1. request.kind = "add" \/ request.on = Subject
    BY <1>2, <1>8 DEF Adding
  <2>2. CASE request.kind = "add"
    <3>1. EpisodeOf(request.on) = Subject
      BY <1>1, <1>3, <2>2, EpisodeOfType
    <3>2. QED
      BY <1>5, <1>8, <2>2, <3>1 DEF Refused, Covering
  <2>3. CASE request.kind # "add"
    <3>1. request.on = Subject
      BY <2>1, <2>3
    <3>2. ~Refused(request)
      BY <1>8, <2>3, <3>1 DEF Refused
    <3>3. EpisodeOf(request.on) = Subject
      BY <1>1, <3>1, EpisodeOfType
    <3>4. QED
      BY <1>5, <3>2, <3>3
  <2>4. QED
    BY <2>2, <2>3
<1>9. \E x \in Served(request) : EpisodeOf(x.fid) = Subject
  <2>1. CASE Covering(Subject) = {}
    BY <1>5, <1>8, <2>1
  <2>2. CASE Covering(Subject) # {}
    BY <1>5, <2>2 DEF Covering
  <2>3. QED
    BY <2>1, <2>2
<1>10. QED
  BY <1>5, <1>6, <1>7, <1>9

\* How far the call is once its request has been served.
LEMMA ServeProgress ==
  ASSUME IInv, Serve
  PROVE  Progress'
<1> SUFFICES ASSUME call.on \in Files, Subject \notin astray', call # None
             PROVE  /\ call.pc \in {"clear", "clearing"} => Clearing'
                    /\ call.pc = "ask" =>
                         /\ ~HasEntry(call.on)
                         /\ (Reply(request).code = "321" =>
                               ~\E x \in Served(request) : EpisodeOf(x.fid) = Subject)
                    /\ call.pc = "add" => FALSE
                    /\ call.pc = "adding" =>
                         /\ \A x \in Served(request) : EpisodeOf(x.fid) = Subject => AsAsked(x)
                         /\ \E x \in Served(request) : EpisodeOf(x.fid) = Subject
                    /\ call.pc = "read back" =>
                         /\ \A x \in Served(request) : EpisodeOf(x.fid) = Subject => AsAsked(x)
                         /\ \E x \in Served(request) : EpisodeOf(x.fid) = Subject
                         /\ Reply(request).code # "321"
                    /\ call.pc = "editing" =>
                         /\ HasEntry(call.on) /\ request.on = row[call.on].lid
                         /\ call.asked # "keep" =>
                              \A x \in Served(request) :
                                x.lid = request.on => x.watched = (call.asked = "yes")
                    /\ (call.pc = "removing" /\ ByIdentity) \/ call.pc = "retiring" =>
                         ~HasEntry(call.on)
  <2>1. /\ call' = call /\ row' = row /\ Subject' = Subject /\ ByIdentity' = ByIdentity
        /\ HasEntry(call.on)' = HasEntry(call.on) /\ request'.on = request.on
        /\ request'.reply = Reply(request) /\ list' = Served(request)
        /\ \A x : AsAsked(x)' = AsAsked(x)
    BY ServeDoes DEF Subject, ByIdentity, HasEntry, AsAsked, Target
  <2>2. Covering(Subject)' = {x \in Served(request) : EpisodeOf(x.fid) = Subject}
    BY <2>1 DEF Covering
  <2>3. (\E x \in Served(request) : EpisodeOf(x.fid) = Subject)
          /\ (\A x \in Served(request) : EpisodeOf(x.fid) = Subject => AsAsked(x)) => Adding'
    BY <2>1, <2>2 DEF Adding
  <2>4. QED
    BY <2>1, <2>2, <2>3 DEF Progress
<1>1. /\ request # None /\ call.pc \in Waits /\ request.reply = None /\ Subject \notin astray
      /\ list \subseteq Entries /\ request.kind \in Kinds
  BY ServeDoes, Known DEF CallShape, Serve
<1>2. call.pc # "clear" /\ call.pc # "add"
  BY <1>1 DEF Waits
<1>3. CASE call.pc = "clearing"
  <2>1. Clearing /\ request.kind = "del"
    BY <1>1, <1>3, Known DEF Progress, RequestShape
  <2>2. Served(request) = {x \in list : x.fid # request.on}
    BY <2>1 DEF Served
  <2>3. /\ call' = call /\ row' = row /\ Subject' = Subject /\ list' = Served(request)
        /\ HasEntry(call.on)' = HasEntry(call.on)
        /\ \A h : FidOf(h)' = FidOf(h)
    BY ServeDoes DEF Subject, HasEntry, FidOf
  <2>4. ASSUME NEW x \in Covering(Subject)' PROVE \E h \in call.todo : FidOf(h) = x.fid
    <3>1. x \in Covering(Subject) /\ x.fid # request.on
      BY <2>2, <2>3, <2>4 DEF Covering
    <3>2. QED
      BY <2>1, <3>1 DEF Clearing
  <2>5. Clearing'
    BY <2>1, <2>3, <2>4 DEF Clearing
  <2>6. QED
    BY <1>3, <2>5
<1>4. CASE call.pc = "ask"
  <2>1. ~HasEntry(call.on) /\ request.on = Subject /\ Subject \in Episodes
    BY <1>1, <1>4, OnFile, Known DEF Progress, RequestShape
  <2>2. Served(request) = list /\ (Reply(request).code = "321" => Matching(request) = {})
    BY <1>4, ServeCovers
  <2>3. QED
    BY <1>4, <2>1, <2>2 DEF Matching, Covering
<1>5. CASE call.pc = "adding"
  BY <1>1, <1>5, ServeAdds
<1>6. CASE call.pc = "read back"
  <2>1. /\ Covering(Subject) # {} /\ \A x \in Covering(Subject) : AsAsked(x)
        /\ request.on = IF call.byFid THEN call.on ELSE Subject
    BY <1>1, <1>6, Known DEF Progress, RequestShape
  <2>2. Subject \in Episodes /\ call.on \notin Episodes
    BY <1>6, OnFile, Kept
  <2>3. Served(request) = list /\ (Reply(request).code = "321" => Matching(request) = {})
    BY <1>6, ServeCovers
  <2>4. PICK x \in list : EpisodeOf(x.fid) = Subject /\ x.fid = Target
    BY <2>1 DEF Covering, AsAsked
  <2>5. call.byFid => Target = call.on
    BY <1>6, Known, Kept DEF CallShape, Target
  <2>6. Matching(request) # {}
    BY <2>1, <2>2, <2>4, <2>5 DEF Matching, Covering
  <2>7. QED
    BY <1>6, <2>1, <2>3, <2>4, <2>6 DEF Covering
<1>7. CASE call.pc = "editing"
  <2>1. /\ HasEntry(call.on) /\ request.on = row[call.on].lid
        /\ request.kind = "edit" /\ request.watched = call.asked
    BY <1>1, <1>7, Known DEF Progress, RequestShape
  <2>2. Served(request) =
          {IF x.lid = request.on /\ request.watched # "keep"
             THEN [x EXCEPT !.watched = (request.watched = "yes")] ELSE x : x \in list}
    BY <2>1 DEF Served
  <2>3. ASSUME call.asked # "keep", NEW x \in Served(request), x.lid = request.on
        PROVE  x.watched = (call.asked = "yes")
    <3>1. PICK y \in list : x = IF y.lid = request.on
                                THEN [y EXCEPT !.watched = (call.asked = "yes")] ELSE y
      BY <2>1, <2>2, <2>3
    <3>2. y \in Entries
      BY <1>1
    <3>3. y.lid = request.on
      BY <2>3, <3>1
    <3>4. QED
      BY <3>1, <3>2, <3>3 DEF Entries
  <2>4. QED
    BY <1>7, <2>1, <2>3
<1>8. CASE call.pc \in {"removing", "retiring"}
  BY <1>1, <1>8, Known DEF Progress
<1>9. CASE call.pc \in {"identify", "lookup", "creating"}
  BY <1>9
<1>10. QED
  BY <1>1, <1>2, <1>3, <1>4, <1>5, <1>6, <1>7, <1>8, <1>9 DEF Waits

\* A request of the call is served.
LEMMA ServeKeeps ==
  ASSUME IInv, Serve
  PROVE  IInv'
<1>1. /\ UNCHANGED <<known, row, loose, call, adrift, told>> /\ astray \subseteq astray'
      /\ list' = Served(request) /\ astray' = astray \cup TakenFromOthers
      /\ request # None /\ request.reply = None
      /\ request' \in Requests /\ request' # None /\ request'.reply = Reply(request)
      /\ request'.kind = request.kind /\ request'.on = request.on
      /\ request'.watched = request.watched
  BY ServeDoes DEF Serve
<1>2. /\ Types /\ request.kind \in Kinds /\ list \subseteq Entries
      /\ request.kind \in {"add", "add generic"} => request.on \in Fids
  BY ServeDoes
<1>3. TakenFromOthers \in SUBSET Episodes
  <2>1. \A x \in list : EpisodeOf(x.fid) \in Episodes
    BY <1>2, EpisodeOfType DEF Entries
  <2>2. QED
    BY <2>1 DEF TakenFromOthers
<1>4. Types'
  <2>1. list' \in SUBSET Entries /\ IsFiniteSet(list')
    BY <1>1, <1>2, ServedDoes
  <2>2. QED
    BY <1>1, <1>2, <1>3, <2>1 DEF Types
<1>5. RowShape' /\ LateShape'
  BY <1>1, Known DEF RowShape, LateShape
<1>6. CallShape' /\ TodoShape'
  BY <1>1, Known DEF CallShape, TodoShape, HasEntry, Subject
<1>7. RequestShape'
  BY <1>1, Known DEF RequestShape, Subject
<1>8. ReplyShape'
  <2> DEFINE r == Reply(request)
  <2>1. /\ request.kind = "file" =>
             r.code \in {"220", "320"} /\ (r.entry # None => r.entry.fid = request.on)
        /\ request.kind = "list" =>
             /\ r.code \in {"312", "321", "221"}
             /\ r.code = "221" <=> r.entry # None
             /\ r.entry # None => r.entry \in Matching(request)
    BY <1>2, ReplyDoes
  <2>2. /\ request.kind = "add" /\ r.entry # None =>
             r.entry = [lid |-> FreshLid, fid |-> request.on,
                        watched |-> request.watched = "yes"]
        /\ request.kind \in {"add generic", "edit", "del"} => r.entry = None
    BY <1>2, ReplyDoes
  <2>3. request.kind = "add" /\ r.entry # None => r.entry.fid = request.on
    BY <2>2
  <2>4. request'.reply = r /\ request'.kind = request.kind /\ request'.on = request.on
    BY <1>1
  <2> HIDE DEF r
  <2>5. QED
    BY <2>1, <2>2, <2>3, <2>4 DEF ReplyShape, Matching, Covering
<1>9. ReplyIsCurrent'
  BY <1>1, <1>2, ReplyDoes DEF ReplyIsCurrent, ReplyEntry
<1>10. /\ \A p : ~Seen(FreshLid, p)
       /\ \A f \in Files : row[f] # None => row[f].lid # FreshLid
  BY FreshUnseen, ServeDoes
<1>11. \A n, p : Seen(n, p)' => Seen(n, p) \/ (n = FreshLid /\ p = request.on)
  BY ServeSees
<1>12. LidsAgree'
  BY <1>10, <1>11, Known DEF LidsAgree
<1>13. RowsAgree'
  <2> SUFFICES ASSUME NEW f \in Files, NEW p \in Fids, HasEntry(f), Seen(row[f].lid, p)'
               PROVE  /\ p \in {f, EpisodeOf(f)}
                      /\ EpisodeOf(f) \notin astray' => p = row[f].fid
    BY <1>1 DEF RowsAgree, HasEntry
  <2>1. Seen(row'[f].lid, p) \/ row'[f].lid = FreshLid
    BY <1>11
  <2>2. row[f].lid # FreshLid
    BY <1>10 DEF HasEntry
  <2>3. QED
    BY <1>1, <2>1, <2>2, Known DEF RowsAgree
<1>14. OneEntry' /\ RowsAreTrue' /\ Progress'
  BY ServeOneEntry, ServeRowsAreTrue, ServeProgress
<1>15. QED
  BY <1>4, <1>5, <1>6, <1>7, <1>8, <1>9, <1>12, <1>13, <1>14 DEF IInv

-----------------------------------------------------------------------------
(* The world: a command that drifts in *)

\* What the command does, and what it leaves as it was.
LEMMA DriftDoes ==
  ASSUME IInv, Drift
  PROVE  /\ UNCHANGED <<known, loose, call, request, told>> /\ astray \subseteq astray'
         /\ adrift # {} /\ adrift' = {} /\ list \subseteq Entries /\ list' \subseteq Entries
         /\ IsFiniteSet(list') /\ astray' \in SUBSET Episodes
         /\ \A x : (x \in list /\ x \notin list') \/ (x \in list' /\ x \notin list) =>
              EpisodeOf(x.fid) \in astray'
         /\ row' \in [Files -> Rows \cup {None}]
         /\ \A f \in Files : /\ row[f] = None => row'[f] = None
                             /\ row[f] # None => /\ row'[f] # None /\ row'[f].fid = row[f].fid
                                                 /\ row'[f].generic = row[f].generic
         /\ \A f \in Files : EpisodeOf(f) \notin astray' => row'[f] = row[f]
         /\ \E p :
              /\ \A x \in list' : Seen(x.lid, x.fid) \/ (x.lid = FreshLid /\ x.fid = p)
              /\ \A f \in Files :
                   \/ row'[f] = row[f]
                   \/ /\ row'[f].lid = FreshLid /\ row'[f].fid # None
                      /\ p \in {f, EpisodeOf(f)}
<1>1. PICK a \in adrift :
        /\ list' = Served(a) /\ adrift' = adrift \ {a}
        /\ astray' = astray \cup {EpisodeOf(x.fid) : x \in (list \ list') \cup (list' \ list)}
        /\ IF a.kind = "add" THEN LearnsLid(a.for, Reply(a).entry) ELSE UNCHANGED row
        /\ UNCHANGED <<known, loose, call, request, told>>
  BY DEF Drift
<1>2. /\ Types /\ LateShape /\ a \in Lates /\ adrift' = {} /\ list \subseteq Entries
      /\ row \in [Files -> Rows \cup {None}]
  BY <1>1, Known DEF Types
<1>3. /\ a.kind \in {"add", "add generic", "edit", "del"} /\ a.kind \in Kinds
      /\ a.kind = "add" => /\ a.for \in Files /\ row[a.for] # None /\ row[a.for].fid # None
                           /\ a.on \in {a.for, EpisodeOf(a.for)}
      /\ a.kind = "add generic" => a.on \in Episodes
  BY <1>2, MylistAssumption DEF Lates, LateShape, Kinds
<1>4. a.kind \in {"add", "add generic"} => a.on \in Fids
  BY <1>3, EpisodeOfType, Kept
<1>5. list' \subseteq Entries /\ IsFiniteSet(list')
  BY <1>1, <1>2, <1>3, <1>4, ServedDoes
<1>6. \A x : (x \in list /\ x \notin list') \/ (x \in list' /\ x \notin list) =>
        EpisodeOf(x.fid) \in astray'
  BY <1>1
<1>7. astray' \in SUBSET Episodes
  <2>1. \A x \in Entries : EpisodeOf(x.fid) \in Episodes
    BY EpisodeOfType DEF Entries
  <2>2. QED
    BY <1>1, <1>2, <1>5, <2>1 DEF Types
<1>8. ASSUME NEW x \in list'
      PROVE  \/ Seen(x.lid, x.fid)
             \/ x.lid = FreshLid /\ x.fid = a.on /\ a.kind \in {"add", "add generic"}
  <2>1. x \in Served(a)
    BY <1>1, <1>8
  <2>2. \/ \E y \in list : x.lid = y.lid /\ x.fid = y.fid
        \/ /\ a.kind \in {"add", "add generic"}
           /\ x = [lid |-> FreshLid, fid |-> a.on, watched |-> a.watched = "yes"]
    BY <1>2, <1>3, <2>1, ServedFrom
  <2>3. CASE \E y \in list : x.lid = y.lid /\ x.fid = y.fid
    BY <2>3 DEF Seen
  <2>4. CASE x = [lid |-> FreshLid, fid |-> a.on, watched |-> a.watched = "yes"]
             /\ a.kind \in {"add", "add generic"}
    BY <2>4
  <2>5. QED
    BY <2>2, <2>3, <2>4
<1>9. CASE a.kind = "add" /\ Reply(a).entry # None
  <2> DEFINE x == Reply(a).entry
  <2>1. /\ x \in Served(a) /\ x \notin list
        /\ x = [lid |-> FreshLid, fid |-> a.on, watched |-> a.watched = "yes"]
    BY <1>2, <1>3, <1>4, <1>9, ReplyDoes
  <2>2. x.lid = FreshLid /\ x.fid = a.on
    BY <2>1
  <2>3. x \in Entries /\ x \in list' /\ x # None /\ EpisodeOf(a.on) \in astray'
    BY <1>1, <1>5, <1>6, <1>9, <2>1, <2>2
  <2>4. EpisodeOf(a.for) \in astray'
    BY <1>3, <1>9, <2>3, EpisodeOfType, Kept
  <2>5. LearnsLid(a.for, x) /\ a.for \in Files
    BY <1>1, <1>3, <1>9
  <2> HIDE DEF x
  <2>6. /\ row' \in [Files -> Rows \cup {None}]
        /\ \A g \in Files : g # a.for => row'[g] = row[g]
        /\ row'[a.for] # None /\ row'[a.for].fid = row[a.for].fid
        /\ row'[a.for].generic = row[a.for].generic /\ row'[a.for].lid = x.lid
    BY <1>2, <1>3, <1>9, <2>3, <2>5, LearnsLidDoes
  <2>7. \A f \in Files : EpisodeOf(f) \notin astray' => row'[f] = row[f]
    BY <2>4, <2>6
  <2>8. \A f \in Files : /\ row[f] = None => row'[f] = None
                         /\ row[f] # None => /\ row'[f] # None /\ row'[f].fid = row[f].fid
                                             /\ row'[f].generic = row[f].generic
    BY <1>3, <1>9, <2>6
  <2>9. \A f \in Files : \/ row'[f] = row[f]
                         \/ /\ row'[f].lid = FreshLid /\ row'[f].fid # None
                            /\ a.on \in {f, EpisodeOf(f)}
    BY <1>3, <1>9, <2>2, <2>6
  <2>10. QED
    BY <1>1, <1>2, <1>5, <1>6, <1>7, <1>8, <2>6, <2>7, <2>8, <2>9
<1>10. CASE ~(a.kind = "add" /\ Reply(a).entry # None)
  <2>1. row' = row
    BY <1>1, <1>10 DEF LearnsLid
  <2>2. \E p :
          \A x \in list' : Seen(x.lid, x.fid) \/ (x.lid = FreshLid /\ x.fid = p)
    <3>1. CASE a.kind \in {"add", "add generic"}
      BY <1>4, <1>8, <3>1
    <3>2. CASE a.kind \notin {"add", "add generic"}
      BY <1>8, <3>2
    <3>3. QED
      BY <3>1, <3>2
  <2>3. QED
    BY <1>1, <1>2, <1>5, <1>6, <1>7, <2>1, <2>2
<1>11. QED
  BY <1>9, <1>10

\* A row keeps what a call knows of it, the episodes that the command touched aside.
LEMMA DriftKeepsCall ==
  ASSUME IInv, Drift
  PROVE  CallShape' /\ TodoShape' /\ RequestShape' /\ ReplyShape'
<1>1. /\ call' = call /\ request' = request /\ loose' = loose
      /\ \A f \in Files : /\ row[f] = None => row'[f] = None
                          /\ row[f] # None => row'[f] # None /\ row'[f].fid = row[f].fid
  BY DriftDoes
<1>2. /\ call # None => call \in Calls
      /\ call # None /\ call.pc # "creating" => call.on \in Files
  BY Known DEF CallShape, Calls
<1>3. CallShape'
  BY <1>1, <1>2, Known DEF CallShape
<1>4. TodoShape'
  <2>1. \A h \in Files : HasEntry(h) => HasEntry(h)'
    <3> SUFFICES ASSUME NEW h \in Files, HasEntry(h) PROVE row'[h] # None /\ row'[h].lid # 0
      BY DEF HasEntry
    <3>1. PICK p : \A f \in Files : row'[f] = row[f] \/ row'[f].lid = FreshLid
      BY DriftDoes
    <3>2. FreshLid # 0
      BY FreshLidIsFresh, Known
    <3>3. QED
      BY <1>1, <3>1, <3>2 DEF HasEntry
  <2>2. QED
    BY <1>1, <2>1, Known DEF TodoShape, Subject
<1>5. RequestShape'
  <2>1. call # None /\ call.pc = "adding" => row'[call.on].fid = row[call.on].fid
    BY <1>1, OnFile
  <2>2. RequestShape /\ Subject' = Subject
    BY <1>1, Known DEF Subject
  <2>3. QED
    BY <1>1, <2>1, <2>2 DEF RequestShape
<1>6. ReplyShape'
  BY <1>1, Known DEF ReplyShape, HasReply
<1>7. QED
  BY <1>3, <1>4, <1>5, <1>6

\* How far the call is once the command has drifted in.
LEMMA DriftProgress ==
  ASSUME IInv, Drift, RowsAgree'
  PROVE  Progress'
<1> SUFFICES ASSUME call.on \in Files, Subject \notin astray', call # None
             PROVE  Progress'
  BY DriftDoes DEF Progress, Subject
<1>1. /\ call' = call /\ request' = request /\ Subject \notin astray
      /\ list \subseteq Entries /\ list' \subseteq Entries
      /\ row'[call.on] = row[call.on]
      /\ \A f \in Files : row[f] # None => row'[f].fid = row[f].fid
  BY DriftDoes DEF Subject
<1>2. \A x : EpisodeOf(x.fid) = Subject => (x \in list' <=> x \in list)
  BY DriftDoes
<1>3. /\ Subject' = Subject /\ Covering(Subject)' = Covering(Subject)
      /\ HasEntry(call.on)' = HasEntry(call.on) /\ ByIdentity' = ByIdentity
      /\ \A x : AsAsked(x)' = AsAsked(x)
      /\ HasReply' = HasReply
  BY <1>1, <1>2 DEF Subject, Covering, HasEntry, ByIdentity, AsAsked, Target, HasReply
<1>4. \A h \in call.todo : FidOf(h)' = FidOf(h)
  BY <1>1, Known DEF TodoShape, HasEntry, FidOf
<1>5. Clearing => Clearing'
  BY <1>1, <1>3, <1>4 DEF Clearing
<1>6. Adding => Adding'
  BY <1>1, <1>3 DEF Adding
<1>7. ASSUME call.pc = "editing", NEW x \in list', x.lid = request.on
      PROVE  x \in list
  <2>1. HasEntry(call.on) /\ request.on = row[call.on].lid
    BY <1>1, <1>7, Known DEF Progress
  <2>2. x \in Entries /\ x.fid \in Fids
    BY <1>1 DEF Entries
  <2>3. Seen(x.lid, x.fid)'
    BY DEF Seen
  <2>4. HasEntry(call.on)' /\ call'.on = call.on /\ row'[call.on].lid = x.lid
    BY <1>1, <1>3, <1>7, <2>1
  <2>5. x.fid \in {call.on, EpisodeOf(call.on)}
    BY <2>2, <2>3, <2>4 DEF RowsAgree, HasEntry
  <2>6. EpisodeOf(x.fid) = Subject
    BY <2>5, EpisodeOfType, Kept DEF Subject
  <2>7. QED
    BY <1>2, <2>6
<1>8. Progress
  BY Known
<1>9. QED
  BY <1>1, <1>3, <1>5, <1>6, <1>7, <1>8 DEF Progress

\* A command given up is served after all.
LEMMA DriftKeeps ==
  ASSUME IInv, Drift
  PROVE  IInv'
<1>1. /\ UNCHANGED <<known, loose, call, request, told>> /\ astray \subseteq astray'
      /\ adrift # {} /\ adrift' = {} /\ list \subseteq Entries /\ list' \subseteq Entries
      /\ IsFiniteSet(list') /\ astray' \in SUBSET Episodes
      /\ row' \in [Files -> Rows \cup {None}]
      /\ \A f \in Files : /\ row[f] = None => row'[f] = None
                          /\ row[f] # None => /\ row'[f] # None /\ row'[f].fid = row[f].fid
                                              /\ row'[f].generic = row[f].generic
      /\ \A f \in Files : EpisodeOf(f) \notin astray' => row'[f] = row[f]
  BY DriftDoes
<1>2. \A x : (x \in list /\ x \notin list') \/ (x \in list' /\ x \notin list) =>
        EpisodeOf(x.fid) \in astray'
  BY DriftDoes
<1>3. PICK p :
        /\ \A x \in list' : Seen(x.lid, x.fid) \/ (x.lid = FreshLid /\ x.fid = p)
        /\ \A f \in Files : \/ row'[f] = row[f]
                            \/ /\ row'[f].lid = FreshLid /\ row'[f].fid # None
                               /\ p \in {f, EpisodeOf(f)}
  BY DriftDoes
<1>4. Types'
  BY <1>1, Known DEF Types
<1>5. RowShape'
  <2>1. \A f \in Files : row'[f] = row[f] \/ row'[f].fid # None
    BY <1>3
  <2>2. \A f \in Files : row'[f] # None => row[f] # None
    BY <1>1
  <2>3. QED
    BY <1>1, <2>1, <2>2, Known DEF RowShape
<1>6. LateShape'
  BY <1>1 DEF LateShape
<1>7. CallShape' /\ TodoShape' /\ RequestShape' /\ ReplyShape'
  BY DriftKeepsCall
<1>8. ReplyEntry' = ReplyEntry /\ (ReplyEntry => request.reply.entry \in list)
  BY <1>1, Known DEF ReplyEntry, HasReply, ReplyIsCurrent
<1>9. /\ \A q : ~Seen(FreshLid, q)
      /\ \A f \in Files : row[f] # None => row[f].lid # FreshLid
  BY <1>8, FreshUnseen
<1>10. ASSUME NEW n, NEW q, Seen(n, q)'
       PROVE  Seen(n, q) \/ (n = FreshLid /\ q = p)
  <2>1. CASE \E x \in list' : x.lid = n /\ x.fid = q
    BY <1>3, <2>1
  <2>2. CASE ~\E x \in list' : x.lid = n /\ x.fid = q
    BY <1>1, <1>8, <1>10, <2>2 DEF Seen
  <2>3. QED
    BY <2>1, <2>2
<1>11. LidsAgree'
  BY <1>9, <1>10, Known DEF LidsAgree
<1>12. RowsAgree'
  <2> SUFFICES ASSUME NEW f \in Files, NEW q \in Fids, HasEntry(f)', Seen(row[f].lid, q)'
               PROVE  /\ q \in {f, EpisodeOf(f)}
                      /\ EpisodeOf(f) \notin astray' => q = row'[f].fid
    BY DEF RowsAgree
  <2>1. Seen(row'[f].lid, q) \/ (row'[f].lid = FreshLid /\ q = p)
    BY <1>10
  <2>2. row'[f] # None /\ row[f] # None /\ row'[f].lid # 0
    BY <1>1 DEF HasEntry
  <2>3. CASE row'[f] = row[f]
    <3>1. Seen(row[f].lid, q) /\ HasEntry(f)
      BY <1>9, <2>1, <2>2, <2>3 DEF HasEntry
    <3>2. QED
      BY <1>1, <2>3, <3>1, Known DEF RowsAgree
  <2>4. CASE row'[f] # row[f]
    <3>1. row'[f].lid = FreshLid /\ p \in {f, EpisodeOf(f)}
      BY <1>3, <2>4
    <3>2. q = p
      BY <1>9, <2>1, <3>1
    <3>3. EpisodeOf(f) \in astray'
      BY <1>1, <2>4
    <3>4. QED
      BY <3>1, <3>2, <3>3
  <2>5. QED
    BY <2>3, <2>4
<1>13. ReplyIsCurrent'
  BY <1>1, <1>2, <1>8 DEF ReplyIsCurrent, ReplyEntry, HasReply
<1>14. OneEntry'
  BY <1>1, <1>2, Known DEF OneEntry
<1>15. RowsAreTrue'
  <2> SUFFICES ASSUME NEW f \in Files, HasEntry(f)', EpisodeOf(f) \notin astray', ~Excused(f)'
               PROVE  \E x \in list' : Names(f, x)'
    BY DEF RowsAreTrue
  <2>1. row'[f] = row[f] /\ HasEntry(f) /\ EpisodeOf(f) \notin astray
    BY <1>1 DEF HasEntry
  <2>2. ~Excused(f)
    BY <1>1, <2>1 DEF Excused, ByIdentity
  <2>3. PICK x \in list : Names(f, x)
    BY <2>1, <2>2, Known DEF RowsAreTrue
  <2>4. x.fid = row[f].fid /\ x.fid \in Fids
    BY <1>1, <2>3 DEF Names, Entries
  <2>5. EpisodeOf(x.fid) = EpisodeOf(f)
    BY <2>1, <2>4, EpisodeOfType, Kept, Known DEF RowShape, HasEntry
  <2>6. x \in list'
    BY <1>2, <2>5
  <2>7. QED
    BY <2>1, <2>3, <2>6 DEF Names
<1>16. Progress'
  BY <1>12, DriftProgress
<1>17. QED
  BY <1>4, <1>5, <1>6, <1>7, <1>11, <1>12, <1>13, <1>14, <1>15, <1>16 DEF IInv

-----------------------------------------------------------------------------
(* Every behaviour *)

\* The invariant holds to begin with: one lid to an entry, one entry to an episode.
LEMMA InitHolds ==
  ASSUME Init
  PROVE  IInv
<1>1. PICK held \in SUBSET (Files \cup Others) :
        /\ \A f, g \in held : EpisodeOf(f) = EpisodeOf(g) => f = g
        /\ \E lid \in [held -> 1 .. Cardinality(held)] :
             /\ \A f, g \in held : lid[f] = lid[g] => f = g
             /\ list = {[lid |-> lid[f], fid |-> f, watched |-> FALSE] : f \in held}
        /\ known \in {k \in SUBSET Files : held \cap Files \subseteq k}
  BY DEF Init
<1>2. PICK lid \in [held -> 1 .. Cardinality(held)] :
        /\ \A f, g \in held : lid[f] = lid[g] => f = g
        /\ list = {[lid |-> lid[f], fid |-> f, watched |-> FALSE] : f \in held}
  BY <1>1
<1>3. /\ row = [f \in Files |-> None] /\ loose = {} /\ call = None /\ request = None
      /\ adrift = {} /\ told = "nothing" /\ astray = {} /\ known \in SUBSET Files
  BY <1>1 DEF Init
<1>4. IsFiniteSet(held) /\ Cardinality(held) \in Nat /\ held \subseteq Fids
  <2>1. IsFiniteSet(Files \cup Others)
    BY MylistAssumption
  <2>2. IsFiniteSet(held)
    BY <2>1, FS_Subset
  <2>3. QED
    BY <2>2, FS_CardinalityType DEF Fids
<1>5. list \in SUBSET Entries /\ IsFiniteSet(list)
  <2> DEFINE entry(f) == [lid |-> lid[f], fid |-> f, watched |-> FALSE]
             h == [f \in held |-> entry(f)]
  <2>1. \A f \in held : lid[f] \in Nat \ {0}
    BY <1>4
  <2>2. \A f \in held : entry(f) \in Entries
    BY <1>4, <2>1 DEF Entries
  <2>3. h \in Surjection(held, list)
    BY <1>2 DEF Surjection
  <2>4. QED
    BY <1>2, <1>4, <2>2, <2>3, FS_Surjection
<1>6. \A x \in list : x.fid \in held /\ x.lid = lid[x.fid] /\ x.watched = FALSE
  BY <1>2
<1>7. Types
  <2>1. row \in [Files -> Rows \cup {None}]
    BY <1>3
  <2>2. loose \in SUBSET Loose /\ IsFiniteSet(loose)
    BY <1>3, FS_EmptySet
  <2>3. QED
    BY <1>3, <1>5, <2>1, <2>2 DEF Types
<1>8. RowShape /\ LateShape /\ RowsAgree /\ RowsAreTrue
  BY <1>3 DEF RowShape, LateShape, RowsAgree, RowsAreTrue, HasEntry
<1>9. ~HasReply /\ ~ReplyEntry /\ CallShape /\ TodoShape /\ RequestShape /\ Progress
  BY <1>3 DEF HasReply, ReplyEntry, CallShape, TodoShape, RequestShape, Progress
<1>10. ReplyShape /\ ReplyIsCurrent
  BY <1>9 DEF ReplyShape, ReplyIsCurrent
<1>11. LidsAgree
  <2>1. \A n, p : Seen(n, p) => p \in held /\ lid[p] = n
    BY <1>3, <1>6, <1>9 DEF Seen
  <2>2. QED
    BY <1>2, <2>1 DEF LidsAgree
<1>12. OneEntry
  <2> SUFFICES ASSUME NEW x \in list, NEW y \in list, EpisodeOf(x.fid) = EpisodeOf(y.fid)
               PROVE  x = y
    BY DEF OneEntry
  <2>1. x.fid = y.fid /\ x \in Entries /\ y \in Entries
    BY <1>1, <1>5, <1>6
  <2>2. x.lid = y.lid /\ x.watched = y.watched
    BY <1>6, <2>1
  <2>3. QED
    BY <2>1, <2>2 DEF Entries
<1>13. QED
  BY <1>7, <1>8, <1>9, <1>10, <1>11, <1>12 DEF IInv

\* Every step keeps the invariant.
LEMMA StepKeeps ==
  ASSUME IInv, [Next]_vars
  PROVE  IInv'
<1>1. CASE AnyCall
  <2>1. ASSUME NEW f \in Files, Remove(f) \/ Refresh(f) PROVE IInv'
    BY <2>1, ActsKeeps
  <2>2. ASSUME NEW f \in Files, NEW w \in Asked, Update(f, w) PROVE IInv'
    BY <2>2, ActsKeeps, MylistAssumption
  <2>3. ASSUME NEW e \in Episodes, NEW w \in Asked, AddToMylist(e, w) PROVE IInv'
    BY <2>3, AddToMylistKeeps, MylistAssumption
  <2>4. QED
    BY <1>1, <2>1, <2>2, <2>3 DEF AnyCall
<1>2. CASE Step
  <2>1. CASE ReportAddition \/ Infer \/ Identify \/ Promote \/ LookUp
    BY <2>1, ReportAdditionKeeps, InferKeeps, IdentifyKeeps, PromoteKeeps, LookUpKeeps
  <2>2. CASE Decide \/ AskAnidb \/ Clear \/ ClearNext
    BY <2>2, DecideKeeps, AskAnidbKeeps, ClearKeeps, ClearNextKeeps
  <2>3. CASE Add \/ AddNext \/ ReadBack \/ Edit
    BY <2>3, AddKeeps, AddNextKeeps, ReadBackKeeps, EditKeeps
  <2>4. CASE SendRemove \/ Retire
    BY <2>4, SendRemovalKeeps DEF SendRemove, Retire
  <2>5. CASE RemoveNext("removing") \/ RemoveNext("retiring") \/ Removed \/ Retired \/ Unstall
    BY <2>5, RemoveNextKeeps, RemovedKeeps, RetiredKeeps, UnstallKeeps
  <2>6. QED
    BY <1>2, <2>1, <2>2, <2>3, <2>4, <2>5 DEF Step
<1>3. CASE World
  BY <1>3, ServeKeeps, LoseReplyKeeps, FailKeeps, GiveUpKeeps, DriftKeeps, CrashKeeps,
     IndexKeeps DEF World
<1>4. CASE UNCHANGED vars
  <2>1. UNCHANGED <<list, known, row, loose, call, request, adrift, told, astray>>
    BY <1>4 DEF vars
  <2>2. Types' /\ RowShape' /\ LateShape' /\ CallShape' /\ TodoShape' /\ RequestShape'
        /\ ReplyShape'
    <3>1. Types' /\ RowShape'
      BY <2>1, Known DEF Types, RowShape
    <3>2. LateShape' /\ CallShape'
      BY <2>1, Known DEF LateShape, CallShape
    <3>3. TodoShape' /\ RequestShape' /\ ReplyShape'
      BY <2>1, Known DEF TodoShape, RequestShape, ReplyShape, HasEntry, Subject, HasReply
    <3>4. QED
      BY <3>1, <3>2, <3>3
  <2>3. \A n, p : Seen(n, p)' = Seen(n, p)
    BY <2>1 DEF Seen, ReplyEntry, HasReply
  <2>4. LidsAgree'
    BY <2>3, Known DEF LidsAgree
  <2>5. RowsAgree'
    BY <2>1, <2>3, Known DEF RowsAgree, HasEntry
  <2>6. ReplyIsCurrent' /\ OneEntry' /\ RowsAreTrue'
    BY <2>1, Known DEF ReplyIsCurrent, OneEntry, RowsAreTrue, ReplyEntry, HasReply, HasEntry,
       Excused, ByIdentity, Names
  <2>7. Progress'
    BY <2>1, Known DEF Progress, Clearing, Adding, AsAsked, Target, Subject, Covering,
       HasEntry, FidOf, HasReply, ByIdentity
  <2>8. QED
    BY <2>2, <2>4, <2>5, <2>6, <2>7 DEF IInv
<1>5. QED
  BY <1>1, <1>2, <1>3, <1>4 DEF Next

\* What the cache and the list promise each other holds in every state.
THEOREM Invariance == Spec => []IInv
<1>1. Init => IInv
  BY InitHolds
<1>2. IInv /\ [Next]_vars => IInv'
  BY StepKeeps
<1>3. QED
  BY <1>1, <1>2, PTL DEF Spec

\* Every variable keeps its type, and one command at most is adrift.
THEOREM TypeCorrect == Spec => []TypeOK
<1>1. IInv => TypeOK
  <2> SUFFICES ASSUME IInv PROVE TypeOK
    OBVIOUS
  <2>1. request # None <=> call # None /\ call.pc \in Waits
    BY Known DEF CallShape, RequestShape
  <2>2. Cardinality(adrift) <= 1
    <3>1. CASE adrift = {}
      BY <3>1, FS_EmptySet
    <3>2. ASSUME NEW a \in adrift PROVE Cardinality(adrift) <= 1
      <4>1. adrift = {a}
        BY Known DEF Types
      <4>2. Cardinality({a}) = 1
        BY FS_Singleton
      <4>3. QED
        BY <4>1, <4>2
    <3>3. QED
      BY <3>1, <3>2
  <2>3. QED
    BY <2>1, <2>2, Known DEF TypeOK, Types
<1>2. QED
  BY Invariance, <1>1, PTL

\* The library never leaves two entries for one episode, whatever fails half-way.
THEOREM NoSecondEntry == Spec => []OneEntryPerEpisode
<1>1. IInv => OneEntryPerEpisode
  <2> SUFFICES ASSUME IInv, NEW e \in Episodes, e \notin astray
               PROVE  ~(Cardinality(Covering(e)) > 1)
    BY DEF OneEntryPerEpisode
  <2>1. \A x, y \in Covering(e) : x = y
    BY Known DEF OneEntry, Covering
  <2> HIDE DEF Covering
  <2>2. CASE Covering(e) = {}
    BY <2>2, FS_EmptySet
  <2>3. ASSUME NEW x \in Covering(e) PROVE ~(Cardinality(Covering(e)) > 1)
    <3>1. Covering(e) = {x}
      BY <2>1
    <3>2. Cardinality({x}) = 1
      BY FS_Singleton
    <3>3. QED
      BY <3>1, <3>2
  <2>4. QED
    BY <2>2, <2>3
<1>2. QED
  BY Invariance, <1>1, PTL

\* Between calls a row that says its file is in the mylist names an entry there.
THEOREM RowsTellTheTruth == Spec => []InMylistIsTrue
<1>1. IInv => InMylistIsTrue
  <2> SUFFICES ASSUME IInv, call = None PROVE InMylistIsTrue
    BY DEF InMylistIsTrue
  <2>1. \A f : ~Excused(f)
    BY DEF Excused
  <2>2. QED
    BY <2>1, Known DEF InMylistIsTrue, RowsAreTrue, Names
<1>2. QED
  BY Invariance, <1>1, PTL

-----------------------------------------------------------------------------
(* What an update promises its caller *)

\* Only an edit and a reading back end an update that has done its work.
LEMMA UpdateEnds ==
  ASSUME IInv, Next, call # None, call.op = "update", told = "waiting", told' = "done"
  PROVE  Edit \/ ReadBack
<1>1. ~AnyCall
  BY DEF AnyCall, Update, Remove, Refresh, AddToMylist, Acts, Start
<1>2. ~World
  BY DEF World, Serve, LoseReply, Fail, GiveUp, Drift, Crash, Index, Returns
<1>3. ~(ReportAddition \/ Infer \/ Identify \/ Promote \/ LookUp)
  <2>1. ~ReportAddition /\ ~Promote
    BY DEF ReportAddition, Promote, Returns, GoesOn
  <2>2. \A c : Resume(c) /\ c.op = "update" => told' = told
    BY DEF Resume, GoesOn
  <2>3. \A c : LooksUp(c) => told' = told
    BY DEF LooksUp, GoesOnSending
  <2>4. call \in Calls
    BY Known
  <2>5. ~LookUp /\ ~Infer
    BY <2>2, <2>3 DEF LookUp, TakeEntry, Infer, Returns
  <2>6. ~Identify
    <3>1. [call EXCEPT !.byFid = TRUE].op = "update"
      BY <2>4 DEF Calls
    <3>2. QED
      BY <2>2, <3>1 DEF Identify
  <2>7. QED
    BY <2>1, <2>5, <2>6
<1>4. ~(Decide \/ AskAnidb \/ Clear \/ ClearNext \/ Add \/ AddNext)
  BY DEF Decide, AskAnidb, Clear, ClearNext, Add, AddNext, GoesOn, GoesOnSending, Returns
<1>5. ~(SendRemove \/ RemoveNext("removing") \/ Retire \/ RemoveNext("retiring") \/ Retired
        \/ Unstall)
  BY DEF SendRemove, Retire, SendRemoval, RemoveNext, Retired, Unstall, GoesOn, GoesOnSending
<1>6. ~Removed
  BY Known DEF Removed, Answered, At, CallShape
<1>7. QED
  BY <1>1, <1>2, <1>3, <1>4, <1>5, <1>6 DEF Next, Step

\* The one entry of an episode the cache alone changed.
LEMMA TheEntry ==
  ASSUME IInv, NEW x \in list, EpisodeOf(x.fid) \notin astray
  PROVE  Covering(EpisodeOf(x.fid)) = {x}
BY Known DEF OneEntry, Covering

\* The entry read back is the one the call added.
LEMMA ReadsBackItsOwn ==
  ASSUME IInv, Answered("read back"), request.reply.code = "221", Subject \notin astray
  PROVE  /\ request.reply.entry \in list /\ AsAsked(request.reply.entry)
         /\ EpisodeOf(request.reply.entry.fid) = Subject
<1>1. /\ ReplyEntry /\ EpisodeOf(request.reply.entry.fid) = Subject
  BY ListedEntry
<1>2. request.reply.entry \in list
  BY <1>1, Known DEF ReplyIsCurrent
<1>3. call # None /\ call.on \in Files /\ call.pc = "read back"
  BY Listing DEF Answered, At
<1>4. \A x \in Covering(Subject) : AsAsked(x)
  BY <1>3, Known DEF Progress
<1>5. QED
  BY <1>1, <1>2, <1>4 DEF Covering

\* An edit leaves the row and the entry it names with what was asked.
LEMMA EditHolds ==
  ASSUME IInv, Edit, Subject \notin astray
  PROVE  Holds(call.on, call.asked)
<1> DEFINE f == call.on
           watched == call.asked = "yes"
           new == [row[f] EXCEPT !.watched = watched]
<1>1. /\ call # None /\ call.pc = "editing" /\ HasReply /\ row' = [row EXCEPT ![f] = new]
  BY DEF Edit, Answered, At, HasReply
<1>2. f \in Files /\ row[f] \in Rows /\ call.todo = {} /\ Subject = EpisodeOf(f)
  BY <1>1, OnFile, Known DEF TodoShape
<1>3. row \in [Files -> Rows \cup {None}] /\ watched \in BOOLEAN
  BY Known DEF Types
<1>4. /\ HasEntry(f) /\ request.on = row[f].lid
      /\ call.asked # "keep" => \A x \in list : x.lid = request.on => x.watched = watched
  BY <1>1, <1>2, Known DEF Progress
<1> HIDE DEF watched
<1>5. new.lid = row[f].lid /\ new.fid = row[f].fid /\ new.watched = watched
  BY <1>2, <1>3 DEF Rows
<1> HIDE DEF new
<1>6. row'[f] = new
  BY <1>1, <1>2, <1>3
<1>7. ~Excused(f)
  BY <1>1, <1>2 DEF Excused
<1>8. PICK x \in list : Names(f, x)
  BY <1>2, <1>4, <1>7, Known DEF RowsAreTrue
<1>9. x.lid = row[f].lid /\ x.fid = row[f].fid
  BY <1>8 DEF Names
<1>10. EpisodeOf(x.fid) = EpisodeOf(f)
  <2>1. x.fid \in Fids
    BY Known DEF Entries
  <2>2. QED
    BY <1>2, <1>9, <2>1, EpisodeOfType, Kept, Known DEF RowShape, HasEntry, Rows
<1>11. Covering(EpisodeOf(f)) = {x}
  BY <1>2, <1>10, TheEntry
<1>12. call.asked # "keep" => x.watched = (call.asked = "yes") /\ row'[f].watched = x.watched
  BY <1>4, <1>5, <1>6, <1>9 DEF watched
<1>13. QED
  BY <1>5, <1>6, <1>9, <1>11, <1>12 DEF Holds

\* Reading back gives the row the entry that was added.
LEMMA ReadBackHolds ==
  ASSUME IInv, ReadBack, Subject \notin astray, told = "waiting", told' = "done"
  PROVE  Holds(call.on, call.asked)
<1> DEFINE f == call.on
           x == request.reply.entry
<1>1. /\ call # None /\ call.pc = "read back" /\ HasReply /\ Answered("read back")
      /\ TakeEntry(f, Returns("done"))
  BY DEF ReadBack, Answered, At, HasReply
<1>2. f \in Files /\ row[f] \in Rows /\ Subject = EpisodeOf(f) /\ Subject \in Episodes
      /\ row[f].fid \in {None, f, Subject}
  BY <1>1, OnFile
<1>3. row \in [Files -> Rows \cup {None}] /\ (row[f].generic <=> row[f].fid # f)
  BY <1>2, Known, Kept DEF Types, RowShape
<1>4. request.reply.code # "321" /\ request.reply.code # "312"
  BY <1>1, <1>2, Known DEF Progress, TakeEntry, Returns
<1>5. request.reply.code = "221" /\ KeepsEntry(f, x)
  BY <1>1, <1>4 DEF TakeEntry
<1>6. x \in list /\ AsAsked(x) /\ EpisodeOf(x.fid) = Subject
  BY <1>1, <1>5, ReadsBackItsOwn
<1> HIDE DEF x
<1>7. x.fid = Target /\ x.watched = (call.asked = "yes")
  BY <1>6 DEF AsAsked
<1>8. ~NotUs(f, x)
  <2>1. x.fid = IF row[f].fid # None THEN row[f].fid ELSE Subject
    BY <1>7 DEF Target
  <2>2. row[f].generic => x.fid \in Episodes
    BY <1>2, <1>3, <2>1
  <2>3. ~row[f].generic => x.fid = row[f].fid
    BY <1>2, <1>3, <2>1, Kept
  <2>4. QED
    BY <2>2, <2>3 DEF NotUs
<1>9. row' = [row EXCEPT ![f] = Adopted(x)]
  BY <1>5, <1>8 DEF KeepsEntry
<1>10. row'[f] = Adopted(x)
  BY <1>2, <1>3, <1>9
<1>11. Adopted(x).lid = x.lid /\ Adopted(x).fid = x.fid /\ Adopted(x).watched = x.watched
  BY DEF Adopted
<1>12. Covering(EpisodeOf(f)) = {x}
  BY <1>2, <1>6, TheEntry
<1>13. QED
  BY <1>6, <1>7, <1>10, <1>11, <1>12 DEF Holds

\* An update that returns has done what it was asked.
THEOREM UpdateKeepsItsWord == Spec => UpdateDoesWhatItSays
<1> DEFINE Done == /\ call # None /\ call.op = "update" /\ told = "waiting" /\ told' = "done"
                   /\ EpisodeOf(call.on) \notin astray
<1>1. IInv /\ [Next]_vars => [Done => Holds(call.on, call.asked)]_vars
  <2> SUFFICES ASSUME IInv, Next, Done PROVE Holds(call.on, call.asked)
    OBVIOUS
  <2>1. Subject \notin astray
    BY DEF Subject
  <2>2. Edit \/ ReadBack
    BY UpdateEnds
  <2>3. QED
    BY <2>1, <2>2, EditHolds, ReadBackHolds
<1>2. QED
  BY Invariance, <1>1, PTL DEF Spec, UpdateDoesWhatItSays

\* A promotion that runs to its end carries the watched flag with it.
THEOREM PromotionKeepsWatched == Spec => PromotionCarries
<1> DEFINE Ends == /\ Answered("read back") /\ call' = None /\ call.promoted /\ call.carried
                   /\ request.reply.code = "221" /\ EpisodeOf(call.on) \notin astray
           Carried == \E x \in list : x.fid = call.on /\ x.watched
<1>1. IInv /\ [Next]_vars => [Ends => Carried]_vars
  <2> SUFFICES ASSUME IInv, Ends PROVE Carried
    OBVIOUS
  <2>1. Subject \notin astray
    BY DEF Subject
  <2>2. request.reply.entry \in list /\ AsAsked(request.reply.entry)
    BY <2>1, ReadsBackItsOwn
  <2>3. call.byFid /\ call.asked = "yes"
    BY Listing
  <2>4. request.reply.entry.fid = call.on
    BY <2>3, ListedEntry
  <2>5. request.reply.entry.watched
    BY <2>2, <2>3 DEF AsAsked
  <2>6. QED
    BY <2>2, <2>4, <2>5
<1>2. QED
  BY Invariance, <1>1, PTL DEF Spec, PromotionCarries
=============================================================================
