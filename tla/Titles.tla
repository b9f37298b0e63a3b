------------------------------- MODULE Titles -------------------------------
(* The two bulk documents of anames.py: the titles export and the anime       *)
(* mappings, each a file cached on disk, which may be refetched, and a table  *)
(* in memory built from it.  Threads of the application, and the reply thread *)
(* that guesses an anime from a file name, look things up in both and share   *)
(* the tables, which no lock protects.                                        *)
EXTENDS Naturals, FiniteSets

CONSTANTS
  Threads,
  Entries,    \* bound: how many anime the mapping document lists
  None

Docs == {"titles", "mappings"}

\* What a download may hold.  All but the last verify: they parse, and are long
\* enough; an odd one has an entry that update_anilist() cannot read.
Verified  == {"good", "odd"}
Downloads == Verified \cup {"unusable"}

\* A copy on disk.
Copies == [holds: Verified, fresh: BOOLEAN]

ASSUME TitlesAssumption ==
  /\ Threads # {} /\ Entries \in Nat \ {0}
  /\ None \notin Copies /\ \A table \in SUBSET (1 .. Entries) : table # None

VARIABLES
  cache,     \* document -> the copy on disk and whether it is fresh, or None
  titles,    \* the titles table: None, or loaded
  anilist,   \* the mapping table: None, or the entries it has
  thread,    \* what each thread is doing
  latest     \* ghost: document -> the update that reset its table last, and its end

vars == <<cache, titles, anilist, thread, latest>>

All == 1 .. Entries

Steps == {"idle", "update", "open", "fetch", "verify", "read", "fill", "recheck", "use"}

Outcomes == {"nothing", "found", "none", "updated", "no directory", "missing", "unreadable",
             "escaped", "lost table"}

\* "had" is whether there was a copy on disk when the refresh began, "got" the
\* download or the copy being read, and "next" the entry update_anilist() is at.
ThreadStates ==
  [pc: Steps, doc: Docs, lookup: BOOLEAN, had: BOOLEAN,
   got: Downloads \cup {None}, next: 1 .. Entries + 1, end: Outcomes]

Idle(end) ==
  [pc |-> "idle", doc |-> "titles", lookup |-> FALSE, had |-> FALSE, got |-> None,
   next |-> 1, end |-> end]

At(t, pc) == thread[t].pc = pc

Goes(t, pc) == thread' = [thread EXCEPT ![t].pc = pc]

Ends(t, end) == thread' = [thread EXCEPT ![t] = Idle(end)]

\* The update of a thread ends, as one that was not overtaken by another or as
\* one that was.
Concludes(t, how) ==
  latest' = IF latest[thread[t].doc].by = t
              THEN [latest EXCEPT ![thread[t].doc].how = how] ELSE latest

\* An update ends with an exception.
Raises(t, end) ==
  /\ Ends(t, end)
  /\ Concludes(t, "failed")

Refreshes == [by: Threads \cup {None}, how: {"never", "updating", "failed", "loaded"}]

Never == [doc \in Docs |-> [by |-> None, how |-> "never"]]

-----------------------------------------------------------------------------
(* Look-ups and updates *)

\* A table that has not been loaded; an empty mapping table counts as one.
Missing(doc) == IF doc = "titles" THEN titles = None ELSE anilist \in {None, {}}

\* get_titles() and anilist_maps() load the table if there is none;
\* update_animetitles() and update_anilist() always do.
LookUp(t, doc) ==
  /\ At(t, "idle")
  /\ thread' = [thread EXCEPT ![t] = [Idle("nothing") EXCEPT
                  !.pc = IF Missing(doc) THEN "update" ELSE "use",
                  !.doc = doc, !.lookup = TRUE]]
  /\ UNCHANGED <<cache, titles, anilist, latest>>

Update(t, doc) ==
  /\ At(t, "idle")
  /\ thread' = [thread EXCEPT ![t] = [Idle("nothing") EXCEPT !.pc = "update", !.doc = doc]]
  /\ UNCHANGED <<cache, titles, anilist, latest>>

\* The table is reset before anything is fetched.
Reset(t) ==
  /\ At(t, "update")
  /\ Goes(t, "open")
  /\ IF thread[t].doc = "titles" THEN titles' = None /\ UNCHANGED anilist
                                 ELSE anilist' = {} /\ UNCHANGED titles
  /\ latest' = [latest EXCEPT ![thread[t].doc] = [by |-> t, how |-> "updating"]]
  /\ UNCHANGED cache

-----------------------------------------------------------------------------
(* update_xml() *)

\* A directory that cannot be written to ends it; a fresh copy needs no fetch.
Open(t) ==
  /\ At(t, "open")
  /\ LET copy  == cache[thread[t].doc]
         fresh == copy # None /\ copy.fresh
     IN \/ Raises(t, "no directory")
        \/ fresh /\ Goes(t, "read") /\ UNCHANGED latest
        \/ /\ ~fresh
           /\ thread' = [thread EXCEPT ![t].pc = "fetch", ![t].had = copy # None]
           /\ UNCHANGED latest
  /\ UNCHANGED <<cache, titles, anilist>>

\* _refresh_failed(): the copy there was when the refresh began answers instead.
Fallback(t) ==
  IF thread[t].had THEN Goes(t, "read") /\ UNCHANGED latest ELSE Raises(t, "missing")

\* The download arrives, or fails, or (a reply cut short) raises what nothing
\* here catches.
Fetch(t) ==
  /\ At(t, "fetch")
  /\ \/ \E doc \in Downloads :
          /\ thread' = [thread EXCEPT ![t].pc = "verify", ![t].got = doc]
          /\ UNCHANGED latest
     \/ Fallback(t)
     \/ Raises(t, "escaped")
  /\ UNCHANGED <<cache, titles, anilist>>

\* A bug: the download is moved in place whatever it holds.
MoveUnverified(t) ==
  /\ At(t, "verify")
  /\ cache' = [cache EXCEPT ![thread[t].doc] = [holds |-> thread[t].got, fresh |-> TRUE]]
  /\ Goes(t, "read")
  /\ UNCHANGED <<titles, anilist, latest>>

\* It is moved in place, in one step, only once it verified.
Verify(t) ==
  /\ At(t, "verify")
  /\ \/ /\ thread[t].got \in Verified
        /\ cache' = [cache EXCEPT ![thread[t].doc] = [holds |-> thread[t].got, fresh |-> TRUE]]
        /\ Goes(t, "read")
        /\ UNCHANGED latest
     \/ /\ thread[t].got \notin Verified
        /\ Fallback(t)
        /\ UNCHANGED cache
  /\ UNCHANGED <<titles, anilist>>

-----------------------------------------------------------------------------
(* The tables *)

\* The titles table is assigned at once, the mapping table entry by entry.
Read(t) ==
  /\ At(t, "read")
  /\ IF thread[t].doc = "titles"
       THEN titles' = "loaded" /\ Goes(t, "recheck") /\ Concludes(t, "loaded")
       ELSE /\ thread' = [thread EXCEPT ![t].pc = "fill",
                                        ![t].got = cache["mappings"].holds]
            /\ UNCHANGED <<titles, latest>>
  /\ UNCHANGED <<cache, anilist>>

\* A bug: the last entry is left out.
FillShort(t) ==
  /\ At(t, "fill")
  /\ \/ /\ thread[t].next < Entries
        /\ anilist' = anilist \cup {thread[t].next}
        /\ thread' = [thread EXCEPT ![t].next = @ + 1]
        /\ UNCHANGED latest
     \/ /\ thread[t].next = Entries
        /\ Goes(t, "recheck")
        /\ Concludes(t, "loaded")
        /\ UNCHANGED anilist
  /\ UNCHANGED <<cache, titles>>

\* Whoever resets the table meanwhile, the entries go into the one there is.
Fill(t) ==
  /\ At(t, "fill")
  /\ \/ /\ thread[t].next <= Entries
        /\ thread[t].next = Entries => thread[t].got = "good"
        /\ anilist' = anilist \cup {thread[t].next}
        /\ thread' = [thread EXCEPT ![t].next = @ + 1]
        /\ UNCHANGED latest
     \/ /\ thread[t].next = Entries /\ thread[t].got = "odd"
        /\ Raises(t, "unreadable")
        /\ UNCHANGED anilist
     \/ /\ thread[t].next > Entries
        /\ Goes(t, "recheck")
        /\ Concludes(t, "loaded")
        /\ UNCHANGED anilist
  /\ UNCHANGED <<cache, titles>>

\* A look-up tests its table again, and reads it once more to use it: another
\* thread may have reset it in between.
Recheck(t) ==
  /\ At(t, "recheck")
  /\ \/ ~thread[t].lookup /\ Ends(t, "updated")
     \/ /\ thread[t].lookup
        /\ IF thread[t].doc = "titles" /\ titles = None THEN Ends(t, "lost table")
                                                        ELSE Goes(t, "use")
  /\ UNCHANGED <<cache, titles, anilist, latest>>

Use(t) ==
  /\ At(t, "use")
  /\ IF thread[t].doc = "titles"
       THEN Ends(t, IF titles = None THEN "lost table" ELSE "found")
       ELSE \E aid \in All : Ends(t, IF aid \in anilist THEN "found" ELSE "none")
  /\ UNCHANGED <<cache, titles, anilist, latest>>

-----------------------------------------------------------------------------
(* The world *)

\* A copy is fresh for 36 hours.
Age(doc) ==
  /\ cache[doc] # None /\ cache[doc].fresh
  /\ cache' = [cache EXCEPT ![doc].fresh = FALSE]
  /\ UNCHANGED <<titles, anilist, thread, latest>>

\* The process ends, and another starts on the same files.
Restart ==
  /\ titles' = None /\ anilist' = None /\ latest' = Never
  /\ thread' = [t \in Threads |-> Idle("nothing")]
  /\ UNCHANGED cache

Init ==
  /\ cache = [doc \in Docs |-> None]
  /\ titles = None /\ anilist = None
  /\ thread = [t \in Threads |-> Idle("nothing")]
  /\ latest = Never

Next ==
  \/ \E t \in Threads :
       \/ \E doc \in Docs : LookUp(t, doc) \/ Update(t, doc)
       \/ Reset(t) \/ Open(t) \/ Fetch(t) \/ Verify(t) \/ Read(t) \/ Fill(t)
       \/ Recheck(t) \/ Use(t)
  \/ \E doc \in Docs : Age(doc)
  \/ Restart

Spec == Init /\ [][Next]_vars

-----------------------------------------------------------------------------
(* Properties *)

\* The type invariant; in it, what is on disk for the next process to read is a
\* document that verified, whenever this one stopped.
TypeOK ==
  /\ cache \in [Docs -> Copies \cup {None}]
  /\ titles \in {None, "loaded"}
  /\ anilist = None \/ anilist \subseteq All
  /\ thread \in [Threads -> ThreadStates]
  /\ latest \in [Docs -> Refreshes]

\* A table whose latest update came to its end has all that its document holds,
\* whoever else was resetting and filling it at the time: from then on "no
\* mapping" is true of the anime, and titles that were loaded stay loaded.
Whole(doc) == IF doc = "titles" THEN titles = "loaded" ELSE anilist = All

TablesAreWhole == \A doc \in Docs : latest[doc].how = "loaded" => Whole(doc)
=============================================================================
