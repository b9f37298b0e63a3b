---------------------------- MODULE PacingProofs ----------------------------
(* The flood bound, for one sending thread and any pacing constants.          *)
EXTENDS Pacing, TLAPS

\* What the limiter asks for before the next send of a burst of n.
Due(n) == IF n < FREE_BURST THEN BURST_DELAY ELSE STEADY_DELAY

\* The least time a burst of n has taken.
Quick(n) == IF n < FREE_BURST THEN n - 1 ELSE FREE_BURST - 1
Least(n) == Quick(n) * BURST_DELAY + (n - 1 - Quick(n)) * STEADY_DELAY

-----------------------------------------------------------------------------
(* For any number of threads: types, and what a send leaves behind *)

\* The last datagram left no later than now, and a burst begins before it ends.
Stamped ==
  /\ left <= now
  /\ lastSend <= now
  /\ sentInBurst > 0 => left # NotSending /\ left = lastSend /\ burstStart <= left

TInv == PacingTypeOK /\ Stamped

\* What is assumed of the pacing constants of ratelimit.py.
LEMMA Constants ==
  /\ FREE_BURST \in Nat \ {0} /\ BURST_DELAY \in Nat \ {0}
  /\ STEADY_DELAY \in Nat /\ STEADY_DELAY >= BURST_DELAY
BY LimiterAssumption

\* A process starts with nothing sent.
LEMMA TypeInit == PacingInit => TInv
<1> SUFFICES ASSUME PacingInit PROVE TInv
  OBVIOUS
<1>1. PICK z \in ClockZeros : Pristine(z)
  BY DEF PacingInit, Init
<1>2. z \in Nat
  BY LimiterAssumption
<1>3. TypeOK
  BY <1>1, <1>2, LimiterAssumption DEF Pristine, TypeOK, NONE
<1>4. QED
  BY <1>1, <1>2, <1>3 DEF PacingInit, Pristine, TInv, PacingTypeOK, Stamped, NotSending, NoGap

\* Every step keeps the types.
LEMMA TypeStep == TInv /\ [PacingNext]_pacingVars => TInv'
<1> SUFFICES ASSUME TInv, [PacingNext]_pacingVars PROVE TInv'
  OBVIOUS
<1>t. /\ TypeOK /\ Stamped /\ now \in Nat /\ lastSend \in Int /\ sentInBurst \in Nat
      /\ wakeAt \in [Threads -> Nat \cup {NotSending}] /\ burstStart \in Nat
      /\ left \in Nat \cup {NotSending} /\ gap \in Nat \cup {NoGap}
  BY DEF TInv, PacingTypeOK, TypeOK
<1>w. ASSUME UNCHANGED window, now' \in Nat, lastSend' \in Int, sentInBurst' \in Nat
      PROVE  TypeOK'
  BY <1>w, <1>t DEF TypeOK, window
<1>1. CASE Pass
  <2>1. now' = now + 1 /\ UNCHANGED <<pacing, window, wakeAt, burstStart, left, gap>>
    BY <1>1 DEF Pass, Tick
  <2>2. now' \in Nat /\ now' > now /\ lastSend' = lastSend /\ sentInBurst' = sentInBurst
    BY <1>t, <2>1 DEF pacing
  <2>3. TypeOK'
    BY <1>t, <1>w, <2>1, <2>2
  <2>4. QED
    BY <1>t, <2>1, <2>2, <2>3 DEF TInv, PacingTypeOK, Stamped, NotSending
<1>2. ASSUME NEW t \in Threads, BeginWait(t) PROVE TInv'
  <2>1. /\ sentInBurst' \in {0, sentInBurst}
        /\ UNCHANGED <<now, lastSend, window, burstStart, left, gap>>
    BY <1>2 DEF BeginWait, AskDelay
  <2>2. DelayForNextSend \in Int
    BY <1>t, LimiterAssumption DEF DelayForNextSend, SecondsSinceLastSend
  <2>3. wakeAt' \in [Threads -> Nat \cup {NotSending}]
    BY <1>2, <1>t, <2>2 DEF BeginWait
  <2>4. TypeOK'
    BY <1>t, <1>w, <2>1
  <2>5. QED
    BY <1>t, <2>1, <2>3, <2>4 DEF TInv, PacingTypeOK, Stamped
<1>3. ASSUME NEW t \in Threads, Send(t) PROVE TInv'
  <2>1. /\ sentInBurst' = sentInBurst + 1 /\ lastSend' = now /\ left' = now
        /\ UNCHANGED <<now, window>>
        /\ gap' = IF left = NotSending THEN NoGap ELSE now - left
        /\ burstStart' = IF sentInBurst = 0 THEN now ELSE burstStart
    BY <1>3 DEF Send, RecordSend
  <2>2. wakeAt' \in [Threads -> Nat \cup {NotSending}]
    BY <1>3, <1>t DEF Send
  <2>3. gap' \in Nat \cup {NoGap}
    BY <1>t, <2>1 DEF Stamped
  <2>4. burstStart' \in Nat /\ burstStart' <= now
    BY <1>t, <2>1 DEF Stamped, NotSending
  <2>5. TypeOK'
    BY <1>t, <1>w, <2>1
  <2>6. QED
    BY <1>t, <2>1, <2>2, <2>3, <2>4, <2>5 DEF TInv, PacingTypeOK, Stamped, NotSending
<1>4. ASSUME NEW t \in Threads, GiveUp(t) PROVE TInv'
  <2>1. UNCHANGED <<now, lastSend, sentInBurst, window, burstStart, left, gap>>
    BY <1>4 DEF GiveUp, vars, pacing
  <2>2. wakeAt' \in [Threads -> Nat \cup {NotSending}]
    BY <1>4, <1>t DEF GiveUp
  <2>3. TypeOK'
    BY <1>t, <1>w, <2>1
  <2>4. QED
    BY <1>t, <2>1, <2>2, <2>3 DEF TInv, PacingTypeOK, Stamped
<1>5. CASE UNCHANGED pacingVars
  <2>1. UNCHANGED <<now, lastSend, sentInBurst, window, wakeAt, burstStart, left, gap>>
    BY <1>5 DEF pacingVars, vars, pacing
  <2>2. TypeOK'
    BY <1>t, <1>w, <2>1
  <2>3. QED
    BY <1>t, <2>1, <2>2 DEF TInv, PacingTypeOK, Stamped
<1>6. QED
  BY <1>1, <1>2, <1>3, <1>4, <1>5 DEF PacingNext

\* The types hold throughout.
LEMMA TypedAlways == PacingSpec => []TInv
BY TypeInit, TypeStep, PTL DEF PacingSpec

\* Every variable keeps its type, for any number of sending threads.
THEOREM TypeCorrect == PacingSpec => []PacingTypeOK
<1>1. TInv => PacingTypeOK
  BY DEF TInv
<1>2. QED
  BY <1>1, TypedAlways, PTL

-----------------------------------------------------------------------------
(* For one thread: the flood bound *)

\* A wait that is under way ends no sooner than the limiter asked: what it was
\* decided from still stands, because nobody else sends.
WaitStands ==
  \A t \in Threads :
    wakeAt[t] # NotSending /\ sentInBurst > 0 => wakeAt[t] >= lastSend + Due(sentInBurst)

IInv == TInv /\ WaitStands /\ NeverBackToBack /\ FloodBound

OneSender == \E t : Threads = {t}

\* One more datagram in a burst adds what the limiter asked for before it.
LEMMA LeastGrows ==
  ASSUME NEW n \in Nat, n > 0
  PROVE  Least(n) \in Int /\ Least(n + 1) = Least(n) + Due(n)
<1> DEFINE B == BURST_DELAY
           S == STEADY_DELAY
           F == FREE_BURST
<1>c. B \in Int /\ S \in Int /\ F \in Nat /\ F > 0
  BY Constants
<1>1. CASE n + 1 < F
  <2>1. Least(n) = (n - 1) * B + 0 * S /\ Least(n + 1) = n * B + 0 * S /\ Due(n) = B
    BY <1>1, <1>c DEF Least, Quick, Due
  <2>2. QED
    BY <2>1, <1>c
<1>2. CASE n + 1 = F
  <2>1. Least(n) = (n - 1) * B + 0 * S /\ Least(n + 1) = n * B + 0 * S /\ Due(n) = B
    BY <1>2, <1>c DEF Least, Quick, Due
  <2>2. QED
    BY <2>1, <1>c
<1>3. CASE n >= F
  <2>1. /\ Least(n) = (F - 1) * B + (n - F) * S
        /\ Least(n + 1) = (F - 1) * B + (n + 1 - F) * S
        /\ Due(n) = S
    BY <1>3, <1>c DEF Least, Quick, Due
  <2>2. QED
    BY <2>1, <1>c
<1>4. QED
  BY <1>1, <1>2, <1>3, <1>c

\* FloodBound, in the names above.
LEMMA FloodMeans == FloodBound <=> (sentInBurst > 0 => left - burstStart >= Least(sentInBurst))
BY DEF FloodBound, Least, Quick

\* The same after a step.
LEMMA FloodMeansNext ==
  FloodBound' <=> (sentInBurst' > 0 => left' - burstStart' >= Least(sentInBurst'))
BY DEF FloodBound, Least, Quick

\* Before the first datagram there is nothing to bound.
LEMMA InvInit == PacingInit => IInv
<1> SUFFICES ASSUME PacingInit PROVE IInv
  OBVIOUS
<1>1. TInv /\ sentInBurst = 0
  BY TypeInit DEF PacingInit, Init, Pristine
<1>2. QED
  BY <1>1 DEF IInv, WaitStands, NeverBackToBack, FloodBound

\* With one sender every step keeps the bound.
LEMMA InvStep == ASSUME OneSender PROVE IInv /\ [PacingNext]_pacingVars => IInv'
<1> SUFFICES ASSUME IInv, [PacingNext]_pacingVars PROVE IInv'
  OBVIOUS
<1>t. /\ Stamped /\ now \in Nat /\ lastSend \in Int /\ sentInBurst \in Nat
      /\ wakeAt \in [Threads -> Nat \cup {NotSending}] /\ burstStart \in Nat
      /\ left \in Nat \cup {NotSending} /\ gap \in Nat \cup {NoGap}
  BY DEF IInv, TInv, PacingTypeOK, TypeOK
<1>i. TInv'
  BY TypeStep DEF IInv
<1>d. \A n \in Nat : Due(n) \in Int /\ Due(n) >= BURST_DELAY
  BY Constants DEF Due
<1>k. ASSUME UNCHANGED <<sentInBurst, left, burstStart, gap>>
      PROVE  NeverBackToBack' /\ FloodBound'
  BY <1>k DEF IInv, NeverBackToBack, FloodBound
<1>1. CASE Pass
  <2>1. UNCHANGED <<lastSend, sentInBurst, wakeAt, burstStart, left, gap>>
    BY <1>1 DEF Pass, Tick, pacing
  <2>2. WaitStands'
    BY <2>1 DEF IInv, WaitStands
  <2>3. QED
    BY <1>i, <1>k, <2>1, <2>2 DEF IInv
<1>2. ASSUME NEW t \in Threads, BeginWait(t) PROVE IInv'
  <2>1. UNCHANGED <<now, lastSend, burstStart, left, gap>>
    BY <1>2 DEF BeginWait, AskDelay
  <2>2. CASE BurstExpired
    <3>1. sentInBurst' = 0
      BY <1>2, <2>2 DEF BeginWait, AskDelay
    <3>2. WaitStands' /\ NeverBackToBack' /\ FloodBound'
      BY <3>1 DEF WaitStands, NeverBackToBack, FloodBound
    <3>3. QED
      BY <1>i, <3>2 DEF IInv
  <2>3. CASE ~BurstExpired
    <3>1. sentInBurst' = sentInBurst
      BY <1>2, <2>3 DEF BeginWait, AskDelay
    <3>2. DelayForNextSend = Due(sentInBurst) - (now - lastSend)
      BY <2>3 DEF DelayForNextSend, StillInBurst, Due, SecondsSinceLastSend
    <3>3. wakeAt'[t] >= lastSend + Due(sentInBurst)
      <4>1. wakeAt'[t] = IF DelayForNextSend > 0 THEN now + DelayForNextSend ELSE now
        BY <1>2, <1>t DEF BeginWait
      <4>2. QED
        BY <1>t, <1>d, <3>2, <4>1
    <3>4. \A u \in Threads : u # t => wakeAt'[u] = wakeAt[u]
      BY <1>2, <1>t DEF BeginWait
    <3>5. WaitStands'
      BY <2>1, <3>1, <3>3, <3>4 DEF IInv, WaitStands, Due
    <3>6. QED
      BY <1>i, <1>k, <2>1, <3>1, <3>5 DEF IInv
  <2>4. QED
    BY <2>2, <2>3
<1>3. ASSUME NEW t \in Threads, Send(t) PROVE IInv'
  <2>1. /\ sentInBurst' = sentInBurst + 1 /\ left' = now
        /\ gap' = IF left = NotSending THEN NoGap ELSE now - left
        /\ burstStart' = IF sentInBurst = 0 THEN now ELSE burstStart
        /\ wakeAt[t] # NotSending /\ now >= wakeAt[t]
    BY <1>3 DEF Send, RecordSend
  <2>2. WaitStands'
    <3>1. wakeAt'[t] = NotSending
      BY <1>3, <1>t DEF Send
    <3>2. \A u \in Threads : u = t
      BY DEF OneSender
    <3>3. QED
      BY <3>1, <3>2 DEF WaitStands
  <2>3. CASE sentInBurst = 0
    <3>1. sentInBurst' = 1 /\ left' = burstStart' /\ left' - burstStart' = 0
      BY <1>t, <2>1, <2>3
    <3>2. Least(1) = 0
      BY Constants DEF Least, Quick
    <3>3. NeverBackToBack' /\ FloodBound'
      BY <3>1, <3>2, FloodMeansNext DEF NeverBackToBack
    <3>4. QED
      BY <1>i, <2>2, <3>3 DEF IInv
  <2>4. CASE sentInBurst > 0
    <3>1. left # NotSending /\ left = lastSend /\ left \in Nat
      BY <1>t, <2>4 DEF Stamped
    <3>2. wakeAt[t] >= left + Due(sentInBurst)
      BY <2>1, <2>4, <3>1 DEF IInv, WaitStands
    <3>3. wakeAt[t] \in Nat
      BY <1>t, <2>1
    <3>4. now - left >= Due(sentInBurst) /\ now - left >= BURST_DELAY
      BY <1>t, <1>d, <2>1, <3>1, <3>2, <3>3, Constants
    <3>5. gap' = now - left /\ burstStart' = burstStart
      BY <2>1, <2>4, <3>1
    <3>6. left - burstStart >= Least(sentInBurst)
      BY <2>4, FloodMeans DEF IInv
    <3>7. left' - burstStart' >= Least(sentInBurst + 1)
      BY <1>t, <1>d, <2>1, <2>4, <3>1, <3>4, <3>5, <3>6, LeastGrows
    <3>8. NeverBackToBack' /\ FloodBound'
      BY <2>1, <3>4, <3>5, <3>7, FloodMeansNext DEF NeverBackToBack
    <3>9. QED
      BY <1>i, <2>2, <3>8 DEF IInv
  <2>5. QED
    BY <1>t, <2>3, <2>4
<1>4. ASSUME NEW t \in Threads, GiveUp(t) PROVE IInv'
  <2>1. UNCHANGED <<lastSend, sentInBurst, burstStart, left, gap>>
    BY <1>4 DEF GiveUp, vars, pacing
  <2>2. wakeAt'[t] = NotSending /\ \A u \in Threads : u # t => wakeAt'[u] = wakeAt[u]
    BY <1>4, <1>t DEF GiveUp
  <2>3. WaitStands'
    BY <2>1, <2>2 DEF IInv, WaitStands
  <2>4. QED
    BY <1>i, <1>k, <2>1, <2>3 DEF IInv
<1>5. CASE UNCHANGED pacingVars
  <2>1. UNCHANGED <<lastSend, sentInBurst, wakeAt, burstStart, left, gap>>
    BY <1>5 DEF pacingVars, vars, pacing
  <2>2. WaitStands'
    BY <2>1 DEF IInv, WaitStands
  <2>3. QED
    BY <1>i, <1>k, <2>1, <2>2 DEF IInv
<1>6. QED
  BY <1>1, <1>2, <1>3, <1>4, <1>5 DEF PacingNext

\* One thread that sends never has two datagrams leave closer together than the
\* burst interval, whatever waits are begun and given up.
THEOREM OneSenderIsPaced == ASSUME OneSender PROVE PacingSpec => []NeverBackToBack
<1>1. IInv => NeverBackToBack
  BY DEF IInv
<1>2. QED
  BY <1>1, InvInit, InvStep, PTL DEF PacingSpec

\* And its bursts keep to the flood bound, for any burst length and delays with the
\* steady one the longer.
THEOREM OneSenderNeverFloods == ASSUME OneSender PROVE PacingSpec => []FloodBound
<1>1. IInv => FloodBound
  BY DEF IInv
<1>2. QED
  BY <1>1, InvInit, InvStep, PTL DEF PacingSpec
=============================================================================
