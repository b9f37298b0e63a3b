---------------------------- MODULE TitlesProofs ----------------------------
(* Theorems about Titles, for any number of threads and entries.              *)
EXTENDS Titles, TLAPS

\* A thread in a refresh reads no copy that is not there ...
CopyIsThere(t) ==
  /\ At(t, "read") => cache[thread[t].doc] # None
  /\ thread[t].pc \in {"fetch", "verify"} /\ thread[t].had => cache[thread[t].doc] # None

\* ... fills the mappings from the first entry on, in a table that has been reset ...
FillsInOrder(t) ==
  /\ thread[t].pc \in {"update", "open", "fetch", "verify", "read"} => thread[t].next = 1
  /\ At(t, "fill") => thread[t].doc = "mappings"
  /\ thread[t].pc \in {"open", "fetch", "verify", "read", "fill"} /\ thread[t].doc = "mappings"
       => anilist # None

\* ... and finds there all it has filled in, unless another has reset the table since.
FilledStays(t) ==
  At(t, "fill") /\ latest["mappings"].by = t => 1 .. thread[t].next - 1 \subseteq anilist

Sound(t) == CopyIsThere(t) /\ FillsInOrder(t) /\ FilledStays(t)

IInv == TypeOK /\ TablesAreWhole /\ \A t \in Threads : Sound(t)

Acts(t) ==
  \/ \E doc \in Docs : LookUp(t, doc) \/ Update(t, doc)
  \/ Reset(t) \/ Open(t) \/ Fetch(t) \/ Verify(t) \/ Read(t) \/ Fill(t)
  \/ Recheck(t) \/ Use(t)

-----------------------------------------------------------------------------
(* What the steps of a thread do to the variables *)

\* A thread's next state is one of its states.
LEMMA IdleType == ASSUME NEW end \in Outcomes PROVE Idle(end) \in ThreadStates
BY TitlesAssumption DEF Idle, ThreadStates, Steps, Docs, Downloads, Verified

-----------------------------------------------------------------------------
(* Types *)

\* The end of an update changes no type.
LEMMA ConcludesType ==
  ASSUME TypeOK, NEW t \in Threads, NEW how \in {"failed", "loaded"}, Concludes(t, how)
  PROVE  latest' \in [Docs -> Refreshes]
BY DEF Concludes, TypeOK, ThreadStates, Refreshes

\* Every step keeps the types.
LEMMA TypeStep == IInv /\ [Next]_vars => TypeOK'
<1> SUFFICES ASSUME IInv, [Next]_vars PROVE TypeOK'
  OBVIOUS
<1> DEFINE Ghosts == [Docs -> Refreshes]
           Good == /\ cache' \in [Docs -> Copies \cup {None}]
                   /\ titles' \in {None, "loaded"}
                   /\ anilist' = None \/ anilist' \subseteq All
                   /\ thread' \in [Threads -> ThreadStates]
                   /\ latest' \in Ghosts
<1>t. /\ cache \in [Docs -> Copies \cup {None}]
      /\ titles \in {None, "loaded"}
      /\ anilist = None \/ anilist \subseteq All
      /\ thread \in [Threads -> ThreadStates]
      /\ latest \in Ghosts
  BY DEF IInv, TypeOK
<1>s. SUFFICES Good
  BY DEF TypeOK
<1>p. ASSUME NEW t \in Threads, NEW pc \in Steps, Goes(t, pc)
      PROVE  thread' \in [Threads -> ThreadStates]
  BY <1>t, <1>p DEF ThreadStates, Goes
<1>e. ASSUME NEW t \in Threads, NEW end \in Outcomes, Ends(t, end)
      PROVE  thread' \in [Threads -> ThreadStates]
  BY <1>t, <1>e, IdleType DEF Ends
<1>c. ASSUME NEW t \in Threads, NEW how \in {"failed", "loaded"}, Concludes(t, how)
      PROVE  latest' \in Ghosts
  BY <1>c, ConcludesType DEF IInv
<1>r. ASSUME NEW t \in Threads, NEW end \in Outcomes, Raises(t, end)
      PROVE  thread' \in [Threads -> ThreadStates] /\ latest' \in Ghosts
  BY <1>r, <1>e, <1>c DEF Raises
<1>f. ASSUME NEW t \in Threads, Fallback(t)
      PROVE  thread' \in [Threads -> ThreadStates] /\ latest' \in Ghosts
  BY <1>f, <1>p, <1>r, <1>t DEF Fallback, Steps, Outcomes
<1>1. ASSUME NEW t \in Threads, NEW doc \in Docs, LookUp(t, doc) PROVE Good
  <2>1. Idle("nothing") \in ThreadStates
    BY IdleType DEF Outcomes
  <2>2. QED
    BY <1>1, <1>t, <2>1 DEF LookUp, ThreadStates, Steps
<1>2. ASSUME NEW t \in Threads, NEW doc \in Docs, Update(t, doc) PROVE Good
  <2>1. Idle("nothing") \in ThreadStates
    BY IdleType DEF Outcomes
  <2>2. QED
    BY <1>2, <1>t, <2>1 DEF Update, ThreadStates, Steps
<1>3. ASSUME NEW t \in Threads, Reset(t) PROVE Good
  <2>1. thread' \in [Threads -> ThreadStates]
    BY <1>3, <1>p DEF Reset, Steps
  <2>2. latest' \in Ghosts
    BY <1>3, <1>t DEF Reset, Refreshes
  <2>3. QED
    BY <1>3, <1>t, <2>1, <2>2 DEF Reset
<1>4. ASSUME NEW t \in Threads, Open(t) PROVE Good
  <2>1. thread' \in [Threads -> ThreadStates] /\ latest' \in Ghosts
    <3>1. CASE Raises(t, "no directory")
      BY <3>1, <1>r DEF Outcomes
    <3>2. CASE Goes(t, "read") /\ UNCHANGED latest
      BY <3>2, <1>p, <1>t DEF Steps
    <3>3. CASE /\ UNCHANGED latest
               /\ thread' = [thread EXCEPT ![t].pc = "fetch",
                                          ![t].had = cache[thread[t].doc] # None]
      <4> DEFINE b == cache[thread[t].doc] # None
      <4>1. thread[t] \in ThreadStates /\ b \in BOOLEAN
        BY <1>t
      <4>2. [thread[t] EXCEPT !.pc = "fetch", !.had = b] \in ThreadStates
        BY <4>1 DEF ThreadStates, Steps
      <4>3. thread' = [thread EXCEPT ![t] = [thread[t] EXCEPT !.pc = "fetch", !.had = b]]
        BY <3>3, <1>t
      <4>4. QED
        BY <3>3, <1>t, <4>2, <4>3
    <3>4. QED
      BY <1>4, <3>1, <3>2, <3>3 DEF Open
  <2>2. QED
    BY <1>4, <1>t, <2>1 DEF Open
<1>5. ASSUME NEW t \in Threads, Fetch(t) PROVE Good
  <2>1. thread' \in [Threads -> ThreadStates] /\ latest' \in Ghosts
    <3>1. ASSUME NEW doc \in Downloads, UNCHANGED latest,
                 thread' = [thread EXCEPT ![t].pc = "verify", ![t].got = doc]
          PROVE  thread' \in [Threads -> ThreadStates] /\ latest' \in Ghosts
      <4>1. [thread[t] EXCEPT !.pc = "verify", !.got = doc] \in ThreadStates
        BY <1>t DEF ThreadStates, Steps
      <4>2. thread' = [thread EXCEPT ![t] = [thread[t] EXCEPT !.pc = "verify", !.got = doc]]
        BY <3>1, <1>t
      <4>3. QED
        BY <3>1, <1>t, <4>1, <4>2
    <3>2. CASE Fallback(t)
      BY <3>2, <1>f
    <3>3. CASE Raises(t, "escaped")
      BY <3>3, <1>r DEF Outcomes
    <3>4. QED
      BY <1>5, <3>1, <3>2, <3>3 DEF Fetch
  <2>2. QED
    BY <1>5, <1>t, <2>1 DEF Fetch
<1>6. ASSUME NEW t \in Threads, Verify(t) PROVE Good
  <2>1. CASE Fallback(t) /\ UNCHANGED cache
    BY <1>6, <2>1, <1>f, <1>t DEF Verify
  <2>2. CASE /\ thread[t].got \in Verified /\ Goes(t, "read") /\ UNCHANGED latest
             /\ cache' = [cache EXCEPT ![thread[t].doc] =
                             [holds |-> thread[t].got, fresh |-> TRUE]]
    <3>1. thread' \in [Threads -> ThreadStates]
      BY <2>2, <1>p DEF Steps
    <3>2. cache' \in [Docs -> Copies \cup {None}]
      BY <2>2, <1>t DEF Copies
    <3>3. QED
      BY <1>6, <2>2, <1>t, <3>1, <3>2 DEF Verify
  <2>3. QED
    BY <1>6, <2>1, <2>2 DEF Verify
<1>7. ASSUME NEW t \in Threads, Read(t) PROVE Good
  <2>1. CASE thread[t].doc = "titles"
    <3>1. thread' \in [Threads -> ThreadStates]
      BY <1>7, <2>1, <1>p DEF Read, Steps
    <3>2. latest' \in Ghosts
      BY <1>7, <2>1, <1>c DEF Read
    <3>3. QED
      BY <1>7, <2>1, <1>t, <3>1, <3>2 DEF Read
  <2>2. CASE thread[t].doc # "titles"
    <3>1. cache["mappings"].holds \in Verified
      BY <1>7, <2>2, <1>t DEF Read, At, IInv, Sound, CopyIsThere, ThreadStates, Docs, Copies
    <3>2. thread' \in [Threads -> ThreadStates]
      BY <1>7, <2>2, <1>t, <3>1 DEF Read, ThreadStates, Steps, Downloads
    <3>3. QED
      BY <1>7, <2>2, <1>t, <3>2 DEF Read
  <2>3. QED
    BY <2>1, <2>2
<1>8. ASSUME NEW t \in Threads, Fill(t) PROVE Good
  <2>1. CASE /\ thread[t].next <= Entries /\ UNCHANGED latest
             /\ anilist' = anilist \cup {thread[t].next}
             /\ thread' = [thread EXCEPT ![t].next = @ + 1]
    <3>1. thread[t].next \in 1 .. Entries + 1 /\ thread[t].next + 1 \in 1 .. Entries + 1
      BY <2>1, <1>t, TitlesAssumption DEF ThreadStates
    <3>2. thread' \in [Threads -> ThreadStates]
      BY <2>1, <1>t, <3>1 DEF ThreadStates
    <3>3. anilist # None
      BY <1>8, <1>t DEF Fill, At, IInv, Sound, FillsInOrder
    <3>4. anilist' \subseteq All
      BY <2>1, <1>t, <3>1, <3>3 DEF All
    <3>5. QED
      BY <1>8, <2>1, <1>t, <3>2, <3>4 DEF Fill
  <2>2. CASE Raises(t, "unreadable") /\ UNCHANGED anilist
    <3>1. thread' \in [Threads -> ThreadStates] /\ latest' \in Ghosts
      BY <2>2, <1>r DEF Outcomes
    <3>2. QED
      BY <1>8, <2>2, <1>t, <3>1 DEF Fill
  <2>3. CASE Goes(t, "recheck") /\ Concludes(t, "loaded") /\ UNCHANGED anilist
    <3>1. thread' \in [Threads -> ThreadStates] /\ latest' \in Ghosts
      BY <2>3, <1>p, <1>c DEF Steps
    <3>2. QED
      BY <1>8, <2>3, <1>t, <3>1 DEF Fill
  <2>4. QED
    BY <1>8, <2>1, <2>2, <2>3 DEF Fill
<1>9. ASSUME NEW t \in Threads, Recheck(t) PROVE Good
  <2>1. thread' \in [Threads -> ThreadStates]
    BY <1>9, <1>p, <1>e DEF Recheck, Steps, Outcomes
  <2>2. QED
    BY <1>9, <1>t, <2>1 DEF Recheck
<1>10. ASSUME NEW t \in Threads, Use(t) PROVE Good
  <2>1. thread' \in [Threads -> ThreadStates]
    BY <1>10, <1>e DEF Use, Outcomes
  <2>2. QED
    BY <1>10, <1>t, <2>1 DEF Use
<1>11. ASSUME NEW doc \in Docs, Age(doc) PROVE Good
  <2>1. cache' \in [Docs -> Copies \cup {None}]
    BY <1>11, <1>t DEF Age, Copies
  <2>2. QED
    BY <1>11, <1>t, <2>1 DEF Age
<1>12. CASE Restart
  <2>1. Idle("nothing") \in ThreadStates
    BY IdleType DEF Outcomes
  <2>2. QED
    BY <1>12, <1>t, <2>1 DEF Restart, Never, Refreshes
<1>13. CASE UNCHANGED vars
  BY <1>13, <1>t DEF vars
<1>14. QED
  BY <1>1, <1>2, <1>3, <1>4, <1>5, <1>6, <1>7, <1>8, <1>9, <1>10, <1>11, <1>12, <1>13 DEF Next

-----------------------------------------------------------------------------
(* What a step leaves alone *)

\* A copy on disk is replaced, and ages, but does not go away.
LEMMA CopiesStay ==
  ASSUME IInv, [Next]_vars, NEW doc \in Docs, cache[doc] # None
  PROVE  cache'[doc] # None
<1>t. cache \in [Docs -> Copies \cup {None}] /\ cache[doc] \in Copies
  BY DEF IInv, TypeOK
<1>1. ASSUME NEW t \in Threads, Verify(t) PROVE cache'[doc] # None
  <2>1. CASE UNCHANGED cache
    BY <2>1
  <2>2. CASE /\ thread[t].got \in Verified
             /\ cache' = [cache EXCEPT ![thread[t].doc] =
                             [holds |-> thread[t].got, fresh |-> TRUE]]
    <3>1. [holds |-> thread[t].got, fresh |-> TRUE] \in Copies
      BY <2>2 DEF Copies
    <3>2. cache'[doc] \in Copies
      BY <2>2, <3>1, <1>t
    <3>3. QED
      BY <3>2, TitlesAssumption
  <2>3. QED
    BY <1>1, <2>1, <2>2 DEF Verify
<1>2. ASSUME NEW d \in Docs, Age(d) PROVE cache'[doc] # None
  <2>1. cache'[doc] \in Copies
    BY <1>2, <1>t DEF Age, Copies
  <2>2. QED
    BY <2>1, TitlesAssumption
<1>3. QED
  BY <1>1, <1>2 DEF Next, LookUp, Update, Reset, Open, Fetch, Read, Fill, Recheck, Use,
                    Restart, vars

\* The end of an update does not change which update was the last.
LEMMA ConcludesFrame ==
  ASSUME TypeOK, NEW t \in Threads, NEW how, Concludes(t, how), NEW doc \in Docs
  PROVE  latest'[doc].by = latest[doc].by
BY DEF Concludes, TypeOK, Refreshes

\* What another thread does leaves a thread where it is, and what it filled in.
LEMMA OthersStay ==
  ASSUME IInv, NEW t \in Threads, Acts(t), NEW u \in Threads, u # t
  PROVE  /\ thread'[u] = thread[u]
         /\ anilist # None => anilist' # None
         /\ latest'["mappings"].by = u
              => latest["mappings"].by = u /\ (anilist # None => anilist \subseteq anilist')
<1> DEFINE Mine == thread'[u] = thread[u]
           Last == latest'["mappings"].by = u => latest["mappings"].by = u
<1>t. TypeOK /\ thread \in [Threads -> ThreadStates] /\ "mappings" \in Docs
  BY DEF IInv, TypeOK, Docs
<1>r. ASSUME NEW end, Raises(t, end) PROVE Mine /\ Last
  BY <1>r, <1>t, ConcludesFrame DEF Raises, Ends
<1>f. ASSUME Fallback(t) PROVE Mine /\ Last
  BY <1>f, <1>r, <1>t DEF Fallback, Goes
<1>1. ASSUME NEW doc \in Docs, LookUp(t, doc) \/ Update(t, doc)
      PROVE  Mine /\ Last /\ UNCHANGED anilist
  BY <1>1, <1>t DEF LookUp, Update
<1>2. CASE Reset(t)
  <2>1. Mine
    BY <1>2, <1>t DEF Reset, Goes
  <2>2. anilist # None => anilist' # None
    BY <1>2, TitlesAssumption DEF Reset
  <2>3. CASE thread[t].doc = "titles"
    <3>1. Last /\ UNCHANGED anilist
      BY <1>2, <2>3, <1>t DEF Reset, TypeOK
    <3>2. QED
      BY <2>1, <3>1
  <2>4. CASE thread[t].doc # "titles"
    <3>1. latest'["mappings"].by = t
      BY <1>2, <2>4, <1>t DEF Reset, TypeOK, ThreadStates, Docs
    <3>2. QED
      BY <2>1, <2>2, <3>1
  <2>5. QED
    BY <2>3, <2>4
<1>3. CASE Open(t)
  <2>1. Mine /\ Last
    BY <1>3, <1>r, <1>t DEF Open, Goes
  <2>2. QED
    BY <1>3, <2>1 DEF Open
<1>4. CASE Fetch(t)
  <2>1. Mine /\ Last
    BY <1>4, <1>r, <1>f, <1>t DEF Fetch
  <2>2. QED
    BY <1>4, <2>1 DEF Fetch
<1>5. CASE Verify(t)
  <2>1. Mine /\ Last
    BY <1>5, <1>f, <1>t DEF Verify, Goes
  <2>2. QED
    BY <1>5, <2>1 DEF Verify
<1>6. CASE Read(t)
  <2>1. Mine /\ Last
    BY <1>6, <1>t, ConcludesFrame DEF Read, Goes
  <2>2. QED
    BY <1>6, <2>1 DEF Read
<1>7. CASE Fill(t)
  <2>1. Mine /\ Last
    BY <1>7, <1>r, <1>t, ConcludesFrame DEF Fill, Goes
  <2>2. anilist # None => anilist' # None /\ anilist \subseteq anilist'
    <3>1. CASE UNCHANGED anilist
      BY <3>1
    <3>2. CASE anilist' = anilist \cup {thread[t].next} /\ thread[t].next <= Entries
      <4>1. anilist # None => anilist' \subseteq 1 .. Entries
        BY <3>2, <1>t DEF TypeOK, ThreadStates, All
      <4>2. QED
        BY <3>2, <4>1, TitlesAssumption
    <3>3. QED
      BY <1>7, <3>1, <3>2 DEF Fill
  <2>3. QED
    BY <2>1, <2>2
<1>8. CASE Recheck(t)
  BY <1>8, <1>t DEF Recheck, Ends, Goes
<1>9. CASE Use(t)
  BY <1>9, <1>t DEF Use, Ends
<1>10. QED
  BY <1>1, <1>2, <1>3, <1>4, <1>5, <1>6, <1>7, <1>8, <1>9 DEF Acts

-----------------------------------------------------------------------------
(* What a thread's own step leaves it in *)

\* A refresh that falls back on the copy there was still reads one that is there.
LEMMA FallbackSound ==
  ASSUME IInv, [Next]_vars, NEW t \in Threads, Fallback(t),
         thread[t].pc \in {"fetch", "verify"}, UNCHANGED anilist
  PROVE  Sound(t)'
<1>t. thread \in [Threads -> ThreadStates] /\ Sound(t)
  BY DEF IInv, TypeOK
<1>1. CASE thread[t].had /\ Goes(t, "read")
  <2>1. thread'[t] = [thread[t] EXCEPT !.pc = "read"]
    BY <1>1, <1>t DEF Goes
  <2>2. cache[thread[t].doc] # None /\ thread[t].doc \in Docs
    BY <1>1, <1>t DEF Sound, CopyIsThere, ThreadStates
  <2>3. cache'[thread[t].doc] # None
    BY <2>2, CopiesStay
  <2>4. QED
    BY <1>t, <2>1, <2>3 DEF Sound, CopyIsThere, FillsInOrder, FilledStays, At, ThreadStates
<1>2. CASE Raises(t, "missing")
  <2>1. thread'[t] = Idle("missing")
    BY <1>2, <1>t DEF Raises, Ends
  <2>2. QED
    BY <2>1 DEF Sound, CopyIsThere, FillsInOrder, FilledStays, At, Idle
<1>3. QED
  BY <1>1, <1>2 DEF Fallback

\* Whatever a thread does, it is sound afterwards.
LEMMA OwnStep ==
  ASSUME IInv, [Next]_vars, NEW t \in Threads, Acts(t)
  PROVE  Sound(t)'
<1>t. /\ TypeOK /\ thread \in [Threads -> ThreadStates] /\ thread[t] \in ThreadStates
      /\ Sound(t)
  BY DEF IInv, TypeOK
<1> USE DEF Sound, CopyIsThere, FillsInOrder, FilledStays, At
<1>e. ASSUME NEW end, Ends(t, end) PROVE Sound(t)'
  BY <1>e, <1>t DEF Ends, Idle
<1>r. ASSUME NEW end, Raises(t, end) PROVE Sound(t)'
  BY <1>r, <1>e DEF Raises
<1>1. ASSUME NEW doc \in Docs, LookUp(t, doc) PROVE Sound(t)'
  BY <1>1, <1>t DEF LookUp, Idle
<1>2. ASSUME NEW doc \in Docs, Update(t, doc) PROVE Sound(t)'
  BY <1>2, <1>t DEF Update, Idle
<1>3. CASE Reset(t)
  <2>1. thread'[t] = [thread[t] EXCEPT !.pc = "open"]
    BY <1>3, <1>t DEF Reset, Goes
  <2>2. thread[t].doc = "mappings" => anilist' # None
    BY <1>3, TitlesAssumption DEF Reset
  <2>3. thread[t].next = 1
    BY <1>3, <1>t DEF Reset
  <2>4. QED
    BY <1>t, <2>1, <2>2, <2>3 DEF ThreadStates
<1>4. CASE Open(t)
  <2>1. CASE Raises(t, "no directory")
    BY <2>1, <1>r
  <2>2. CASE cache[thread[t].doc] # None /\ Goes(t, "read")
    <3>1. thread'[t] = [thread[t] EXCEPT !.pc = "read"]
      BY <2>2, <1>t DEF Goes
    <3>2. cache'[thread[t].doc] # None
      BY <1>4, <2>2 DEF Open
    <3>3. QED
      BY <1>4, <1>t, <3>1, <3>2 DEF Open, ThreadStates
  <2>3. CASE thread' = [thread EXCEPT ![t].pc = "fetch", ![t].had = cache[thread[t].doc] # None]
    <3> DEFINE b == cache[thread[t].doc] # None
    <3>1. thread'[t] = [thread[t] EXCEPT !.pc = "fetch", !.had = b]
      BY <2>3, <1>t
    <3>2. /\ thread'[t].pc = "fetch" /\ thread'[t].doc = thread[t].doc
          /\ thread'[t].next = thread[t].next /\ thread'[t].had = b
      BY <3>1, <1>t DEF ThreadStates
    <3>3. UNCHANGED <<cache, anilist>>
      BY <1>4 DEF Open
    <3>4. QED
      BY <1>4, <1>t, <3>2, <3>3 DEF Open
  <2>4. QED
    BY <1>4, <2>1, <2>2, <2>3 DEF Open
<1>5. CASE Fetch(t)
  <2>1. ASSUME NEW doc \in Downloads,
               thread' = [thread EXCEPT ![t].pc = "verify", ![t].got = doc]
        PROVE  Sound(t)'
    <3>1. thread'[t] = [thread[t] EXCEPT !.pc = "verify", !.got = doc]
      BY <2>1, <1>t
    <3>2. /\ thread'[t].pc = "verify" /\ thread'[t].doc = thread[t].doc
          /\ thread'[t].next = thread[t].next /\ thread'[t].had = thread[t].had
      BY <3>1, <1>t DEF ThreadStates
    <3>3. QED
      BY <1>5, <1>t, <3>2 DEF Fetch
  <2>2. CASE Fallback(t)
    BY <1>5, <2>2, FallbackSound DEF Fetch
  <2>3. QED
    BY <1>5, <2>1, <2>2, <1>r DEF Fetch
<1>6. CASE Verify(t)
  <2>1. CASE Fallback(t)
    BY <1>6, <2>1, FallbackSound DEF Verify
  <2>2. CASE /\ thread[t].got \in Verified /\ Goes(t, "read")
             /\ cache' = [cache EXCEPT ![thread[t].doc] =
                             [holds |-> thread[t].got, fresh |-> TRUE]]
    <3>1. thread'[t] = [thread[t] EXCEPT !.pc = "read"]
      BY <2>2, <1>t DEF Goes
    <3>2. cache'[thread[t].doc] = [holds |-> thread[t].got, fresh |-> TRUE]
      BY <2>2, <1>t DEF TypeOK, ThreadStates
    <3>3. cache'[thread[t].doc] # None
      <4>1. [holds |-> thread[t].got, fresh |-> TRUE] \in Copies
        BY <2>2 DEF Copies
      <4>2. QED
        BY <3>2, <4>1, TitlesAssumption
    <3>4. QED
      BY <1>6, <1>t, <3>1, <3>3 DEF Verify, ThreadStates
  <2>3. QED
    BY <1>6, <2>1, <2>2 DEF Verify
<1>7. CASE Read(t)
  <2>1. CASE thread[t].doc = "titles"
    <3>1. thread'[t] = [thread[t] EXCEPT !.pc = "recheck"]
      BY <1>7, <2>1, <1>t DEF Read, Goes
    <3>2. QED
      BY <3>1, <1>t DEF ThreadStates
  <2>2. CASE thread[t].doc # "titles"
    <3> DEFINE g == cache["mappings"].holds
    <3>1. thread'[t] = [thread[t] EXCEPT !.pc = "fill", !.got = g]
      BY <1>7, <2>2, <1>t DEF Read
    <3>2. /\ thread'[t].pc = "fill" /\ thread'[t].doc = "mappings"
          /\ thread'[t].next = 1
      BY <1>7, <2>2, <3>1, <1>t DEF Read, ThreadStates, Docs
    <3>3. anilist' # None
      BY <1>7, <2>2, <1>t DEF Read, ThreadStates, Docs
    <3>4. 1 .. thread'[t].next - 1 = {}
      BY <3>2
    <3>5. QED
      BY <3>2, <3>3, <3>4
  <2>3. QED
    BY <2>1, <2>2
<1>8. CASE Fill(t)
  <2>1. CASE /\ anilist' = anilist \cup {thread[t].next} /\ thread[t].next <= Entries
             /\ thread' = [thread EXCEPT ![t].next = @ + 1] /\ UNCHANGED latest
    <3>1. thread'[t] = [thread[t] EXCEPT !.next = @ + 1]
      BY <2>1, <1>t
    <3>2. /\ thread'[t].pc = "fill" /\ thread'[t].doc = "mappings"
          /\ thread'[t].next = thread[t].next + 1 /\ thread[t].next \in 1 .. Entries + 1
      BY <1>8, <3>1, <1>t DEF Fill, ThreadStates
    <3>3. anilist # None
      BY <1>8, <1>t DEF Fill
    <3>4. anilist' # None
      BY <2>1, <3>2, <3>3, <1>t, TitlesAssumption DEF TypeOK, All
    <3>5. latest["mappings"].by = t => 1 .. thread'[t].next - 1 \subseteq anilist'
      BY <1>8, <2>1, <3>2, <1>t, TitlesAssumption DEF Fill
    <3>6. QED
      BY <2>1, <3>2, <3>4, <3>5
  <2>2. CASE Goes(t, "recheck")
    <3>1. thread'[t] = [thread[t] EXCEPT !.pc = "recheck"]
      BY <2>2, <1>t DEF Goes
    <3>2. QED
      BY <3>1, <1>t DEF ThreadStates
  <2>3. QED
    BY <1>8, <2>1, <2>2, <1>r DEF Fill
<1>9. CASE Recheck(t)
  <2>1. CASE Goes(t, "use")
    <3>1. thread'[t] = [thread[t] EXCEPT !.pc = "use"]
      BY <2>1, <1>t DEF Goes
    <3>2. QED
      BY <3>1, <1>t DEF ThreadStates
  <2>2. QED
    BY <1>9, <2>1, <1>e DEF Recheck
<1>10. CASE Use(t)
  BY <1>10, <1>e DEF Use
<1>11. QED
  BY <1>1, <1>2, <1>3, <1>4, <1>5, <1>6, <1>7, <1>8, <1>9, <1>10 DEF Acts

\* Every step leaves every thread sound.
LEMMA SoundStep == IInv /\ [Next]_vars => \A u \in Threads : Sound(u)'
<1> SUFFICES ASSUME IInv, [Next]_vars, NEW u \in Threads PROVE Sound(u)'
  OBVIOUS
<1>t. TypeOK /\ thread[u] \in ThreadStates /\ Sound(u)
  BY DEF IInv, TypeOK
<1> USE DEF Sound, CopyIsThere, FillsInOrder, FilledStays, At
<1>c. thread[u].doc \in Docs /\ (cache[thread[u].doc] # None => cache'[thread[u].doc] # None)
  BY <1>t, CopiesStay DEF ThreadStates
<1>1. ASSUME NEW t \in Threads, Acts(t) PROVE Sound(u)'
  <2>1. CASE u = t
    BY <1>1, <2>1, OwnStep
  <2>2. CASE u # t
    <3>1. /\ thread'[u] = thread[u]
          /\ anilist # None => anilist' # None
          /\ latest'["mappings"].by = u
               => latest["mappings"].by = u /\ (anilist # None => anilist \subseteq anilist')
      BY <1>1, <2>2, OthersStay
    <3>2. At(u, "fill") => anilist # None
      BY <1>t
    <3>3. FilledStays(u)'
      BY <1>t, <3>1, <3>2
    <3>4. QED
      BY <1>t, <1>c, <3>1, <3>3
  <2>3. QED
    BY <2>1, <2>2
<1>2. ASSUME NEW doc \in Docs, Age(doc) PROVE Sound(u)'
  BY <1>2, <1>t, <1>c DEF Age
<1>3. CASE Restart
  <2>1. thread'[u].pc = "idle"
    BY <1>3 DEF Restart, Idle
  <2>2. QED
    BY <2>1
<1>4. CASE UNCHANGED vars
  BY <1>4, <1>t DEF vars
<1>5. QED
  BY <1>1, <1>2, <1>3, <1>4 DEF Next, Acts

-----------------------------------------------------------------------------
(* The tables *)

\* An update that fails makes no table count as loaded.
LEMMA FailureLoadsNothing ==
  ASSUME TypeOK, NEW t \in Threads, Concludes(t, "failed"), NEW doc \in Docs,
         latest'[doc].how = "loaded"
  PROVE  latest[doc].how = "loaded"
BY DEF Concludes, TypeOK, ThreadStates, Refreshes

\* An update that loads a table makes no other count as loaded, nor its own when it
\* was overtaken.
LEMMA LoadsItsOwn ==
  ASSUME TypeOK, NEW t \in Threads, Concludes(t, "loaded"), NEW doc \in Docs,
         latest'[doc].how = "loaded", latest[doc].how # "loaded"
  PROVE  doc = thread[t].doc /\ latest[doc].by = t
BY DEF Concludes, TypeOK, ThreadStates, Refreshes

\* No step leaves a table that counts as loaded short of anything.
LEMMA TablesStep == IInv /\ [Next]_vars => TablesAreWhole'
<1> SUFFICES ASSUME IInv, [Next]_vars, NEW doc \in Docs, latest'[doc].how = "loaded"
             PROVE  Whole(doc)'
  BY DEF TablesAreWhole, Whole
<1>t. TypeOK /\ (latest[doc].how = "loaded" => Whole(doc))
  BY DEF IInv, TablesAreWhole
<1>k. ASSUME latest[doc].how = "loaded", UNCHANGED <<titles, anilist>> PROVE Whole(doc)'
  BY <1>k, <1>t DEF Whole
<1>r. ASSUME NEW t \in Threads, NEW end, Raises(t, end), UNCHANGED <<titles, anilist>>
      PROVE  Whole(doc)'
  BY <1>r, <1>k, <1>t, FailureLoadsNothing DEF Raises
<1>f. ASSUME NEW t \in Threads, Fallback(t), UNCHANGED <<titles, anilist>> PROVE Whole(doc)'
  BY <1>f, <1>r, <1>k DEF Fallback
<1>1. ASSUME NEW t \in Threads, NEW d \in Docs, LookUp(t, d) \/ Update(t, d)
      PROVE  Whole(doc)'
  BY <1>1, <1>k DEF LookUp, Update
<1>2. ASSUME NEW t \in Threads, Reset(t) PROVE Whole(doc)'
  <2>1. doc # thread[t].doc /\ latest[doc].how = "loaded"
    BY <1>2, <1>t DEF Reset, TypeOK, ThreadStates
  <2>2. thread[t].doc \in Docs
    BY <1>t DEF TypeOK, ThreadStates
  <2>3. QED
    BY <1>2, <1>t, <2>1, <2>2 DEF Reset, Whole, Docs
<1>3. ASSUME NEW t \in Threads, Open(t) PROVE Whole(doc)'
  BY <1>3, <1>r, <1>k DEF Open
<1>4. ASSUME NEW t \in Threads, Fetch(t) PROVE Whole(doc)'
  BY <1>4, <1>r, <1>f, <1>k DEF Fetch
<1>5. ASSUME NEW t \in Threads, Verify(t) PROVE Whole(doc)'
  BY <1>5, <1>f, <1>k DEF Verify
<1>6. ASSUME NEW t \in Threads, Read(t) PROVE Whole(doc)'
  <2>1. CASE thread[t].doc = "titles"
    <3>1. titles' = "loaded" /\ UNCHANGED anilist /\ Concludes(t, "loaded")
      BY <1>6, <2>1 DEF Read
    <3>2. CASE doc = "titles"
      BY <3>1, <3>2 DEF Whole
    <3>3. CASE doc # "titles"
      <4>1. latest[doc].how = "loaded"
        BY <2>1, <3>1, <3>3, <1>t, LoadsItsOwn
      <4>2. QED
        BY <3>1, <3>3, <4>1, <1>t DEF Whole
    <3>4. QED
      BY <3>2, <3>3
  <2>2. CASE thread[t].doc # "titles"
    BY <1>6, <2>2, <1>k DEF Read
  <2>3. QED
    BY <2>1, <2>2
<1>7. ASSUME NEW t \in Threads, Fill(t) PROVE Whole(doc)'
  <2>t. /\ At(t, "fill") /\ thread[t].doc = "mappings" /\ anilist # None
        /\ anilist \subseteq All /\ thread[t].next \in 1 .. Entries + 1
        /\ latest["mappings"].by = t => 1 .. thread[t].next - 1 \subseteq anilist
    BY <1>7, <1>t DEF Fill, IInv, Sound, FillsInOrder, FilledStays, At, TypeOK, ThreadStates
  <2>1. CASE /\ anilist' = anilist \cup {thread[t].next} /\ thread[t].next <= Entries
             /\ UNCHANGED <<latest, titles>>
    <3>1. thread[t].next \in All
      BY <2>t, <2>1, TitlesAssumption DEF All
    <3>2. QED
      BY <1>t, <2>1, <3>1 DEF Whole
  <2>2. CASE Raises(t, "unreadable") /\ UNCHANGED <<anilist, titles>>
    BY <2>2, <1>r
  <2>3. CASE /\ thread[t].next > Entries /\ Concludes(t, "loaded")
             /\ UNCHANGED <<anilist, titles>>
    <3>1. CASE latest[doc].how = "loaded"
      BY <2>3, <3>1, <1>k
    <3>2. CASE latest[doc].how # "loaded"
      <4>1. doc = "mappings" /\ latest["mappings"].by = t
        BY <2>t, <2>3, <3>2, <1>t, LoadsItsOwn
      <4>2. All \subseteq anilist
        BY <2>t, <2>3, <4>1, TitlesAssumption DEF All
      <4>3. anilist' = All /\ anilist' # None
        BY <2>t, <2>3, <4>2
      <4>4. QED
        BY <4>1, <4>3 DEF Whole
    <3>3. QED
      BY <3>1, <3>2
  <2>4. QED
    BY <1>7, <2>1, <2>2, <2>3 DEF Fill
<1>8. ASSUME NEW t \in Threads, Recheck(t) PROVE Whole(doc)'
  BY <1>8, <1>k DEF Recheck
<1>9. ASSUME NEW t \in Threads, Use(t) PROVE Whole(doc)'
  BY <1>9, <1>k DEF Use
<1>10. ASSUME NEW d \in Docs, Age(d) PROVE Whole(doc)'
  BY <1>10, <1>k DEF Age
<1>11. CASE Restart
  BY <1>11 DEF Restart, Never
<1>12. CASE UNCHANGED vars
  BY <1>12, <1>k DEF vars
<1>13. QED
  BY <1>1, <1>2, <1>3, <1>4, <1>5, <1>6, <1>7, <1>8, <1>9, <1>10, <1>11, <1>12 DEF Next

-----------------------------------------------------------------------------
(* Theorems *)

\* A process starts with no table, and nobody in an update.
LEMMA InvInit == Init => IInv
<1> SUFFICES ASSUME Init PROVE IInv
  OBVIOUS
<1>1. TypeOK
  BY IdleType DEF Init, TypeOK, Never, Refreshes, Outcomes
<1>2. TablesAreWhole
  BY DEF Init, TablesAreWhole, Never
<1>3. ASSUME NEW t \in Threads PROVE Sound(t)
  BY DEF Init, Sound, CopyIsThere, FillsInOrder, FilledStays, At, Idle
<1>4. QED
  BY <1>1, <1>2, <1>3 DEF IInv

\* The invariant is inductive.
LEMMA Inductive == Spec => []IInv
<1>1. IInv /\ [Next]_vars => IInv'
  BY TypeStep, TablesStep, SoundStep DEF IInv
<1>2. QED
  BY <1>1, InvInit, PTL DEF Spec

\* Every variable keeps its type, and with it what is on disk for the next process
\* (cache) is a document that verified: update_xml() moves a download in place only
\* then, wherever it is stopped.
THEOREM TypeCorrect == Spec => []TypeOK
<1>1. IInv => TypeOK
  BY DEF IInv
<1>2. QED
  BY <1>1, Inductive, PTL

\* However many threads look up, refresh and reset the tables at once, one whose
\* latest update came to its end has all that its document holds.
THEOREM TablesEndUpWhole == Spec => []TablesAreWhole
<1>1. IInv => TablesAreWhole
  BY DEF IInv
<1>2. QED
  BY <1>1, Inductive, PTL
=============================================================================
