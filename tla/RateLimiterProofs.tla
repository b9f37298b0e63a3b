------------------------- MODULE RateLimiterProofs -------------------------
(***************************************************************************)
(* RateLimiter's safety for every schedule, ceiling, clock and bound.  The *)
(* inductive invariant is the conjunction of the typing, the coherence of  *)
(* the four back-off fields and the bound on the open window.              *)
(***************************************************************************)
EXTENDS RateLimiter, TLAPS

IInv == TypeOK /\ Coherent /\ WindowWithinSchedule

\* The base delay of either schedule is a positive duration.
LEMMA BaseDelayType ==
  ASSUME NEW k PROVE BaseDelay(k) \in Nat \ {0}
BY LimiterAssumption DEF BaseDelay

\* Multiplying a base delay by a multiplier stays a duration.
LEMMA WindowType ==
  ASSUME NEW k, NEW m \in Nat PROVE BaseDelay(k) * m \in Nat
<1>1. BaseDelay(k) \in Nat
  BY BaseDelayType
<1>2. QED
  BY <1>1

\* Every escalation lands between the first step and the ceiling.
LEMMA NextMultiplierRange ==
  ASSUME TypeOK, NEW k \in BackOffKind
  PROVE  NextMultiplier(k) \in 1 .. MAX_BAN_MULTIPLIER
BY LimiterAssumption DEF NextMultiplier, TypeOK

\* A jittered window is at most its nominal length, and at least half of it.
LEMMA JitteredBounds ==
  ASSUME NEW w \in Nat, NEW d \in Jittered(w)
  PROVE  d \in Nat /\ d <= w /\ 2 * d >= w
BY LimiterAssumption DEF Jittered

\* Every step keeps the types.
LEMMA TypeStep == IInv /\ [Next]_vars => TypeOK'
<1> SUFFICES ASSUME IInv, [Next]_vars PROVE TypeOK'
  OBVIOUS
<1>1. CASE Tick
  BY <1>1 DEF Tick, IInv, TypeOK, pacing, window
<1>2. CASE AskDelay
  BY <1>2 DEF AskDelay, IInv, TypeOK, window
<1>3. CASE RecordSend
  BY <1>3 DEF RecordSend, IInv, TypeOK, window
<1>4. ASSUME NEW c \in BanCause, NEW k \in BackOffKind, RegisterBan(c, k)
      PROVE  TypeOK'
  <2>1. NextMultiplier(k) \in 1 .. MAX_BAN_MULTIPLIER
    BY NextMultiplierRange DEF IInv
  <2>2. BaseDelay(k) * NextMultiplier(k) \in Nat
    BY <2>1, WindowType, LimiterAssumption
  <2>3. PICK d \in Jittered(BaseDelay(k) * NextMultiplier(k)) : bannedUntil' = now + d
    BY <1>4 DEF RegisterBan
  <2>4. d \in Nat
    BY <2>2, <2>3, JitteredBounds
  <2>5. bannedUntil' \in Nat
    BY <2>3, <2>4 DEF IInv, TypeOK
  <2>6. QED
    BY <1>4, <2>1, <2>5, LimiterAssumption DEF RegisterBan, IInv, TypeOK, pacing
<1>5. CASE ClearBan
  BY <1>5, LimiterAssumption DEF ClearBan, IInv, TypeOK, pacing
<1>6. ASSUME NEW z \in ClockZeros, RestartResumed(z)
      PROVE  TypeOK'
  BY <1>6, LimiterAssumption
  DEF RestartResumed, Resume, Captured, BanRemaining, StandingCause,
      StandingKind, SecondsSinceLastSend, IInv, TypeOK, BackOffKind
<1>7. ASSUME NEW z \in ClockZeros, RestartFresh(z)
      PROVE  TypeOK'
  BY <1>7, LimiterAssumption DEF RestartFresh, Resume, Unseeded, TypeOK
<1>8. CASE UNCHANGED vars
  BY <1>8 DEF vars, pacing, window, IInv, TypeOK
<1>9. QED
  BY <1>1, <1>2, <1>3, <1>4, <1>5, <1>6, <1>7, <1>8 DEF Next

\* Every step keeps a back-off whole.
LEMMA CoherentStep == IInv /\ [Next]_vars => Coherent'
<1> SUFFICES ASSUME IInv, [Next]_vars PROVE Coherent'
  OBVIOUS
<1>1. CASE Tick
  BY <1>1 DEF Tick, IInv, TypeOK, Coherent, pacing, window
<1>2. CASE AskDelay
  BY <1>2 DEF AskDelay, IInv, Coherent, window
<1>3. CASE RecordSend
  BY <1>3 DEF RecordSend, IInv, TypeOK, Coherent, window
<1>4. ASSUME NEW c \in BanCause, NEW k \in BackOffKind, RegisterBan(c, k)
      PROVE  Coherent'
  <2>1. NextMultiplier(k) # 0
    BY NextMultiplierRange, LimiterAssumption DEF IInv
  <2>2. QED
    BY <1>4, <2>1 DEF RegisterBan, IInv, Coherent, pacing, BanCause, BackOffKind, NONE
<1>5. CASE ClearBan
  BY <1>5 DEF ClearBan, IInv, Coherent, pacing
<1>6. ASSUME NEW z \in ClockZeros, RestartResumed(z)
      PROVE  Coherent'
  BY <1>6, LimiterAssumption
  DEF RestartResumed, Resume, Captured, BanRemaining, StandingCause,
      StandingKind, SecondsSinceLastSend, IInv, TypeOK, Coherent, NONE
<1>7. ASSUME NEW z \in ClockZeros, RestartFresh(z)
      PROVE  Coherent'
  BY <1>7, LimiterAssumption DEF RestartFresh, Resume, Unseeded, Coherent, NONE
<1>8. CASE UNCHANGED vars
  BY <1>8 DEF vars, pacing, window, IInv, Coherent
<1>9. QED
  BY <1>1, <1>2, <1>3, <1>4, <1>5, <1>6, <1>7, <1>8 DEF Next

\* Every step keeps the window within its schedule.
LEMMA WindowStep == IInv /\ [Next]_vars => WindowWithinSchedule'
<1> SUFFICES ASSUME IInv, [Next]_vars, banMultiplier' # 0
             PROVE  BanRemaining' <= (BaseDelay(backOffKind) * banMultiplier)'
  BY DEF WindowWithinSchedule
<1> DEFINE nominal == BaseDelay(backOffKind) * banMultiplier
<1>a. nominal \in Nat
  BY WindowType, LimiterAssumption DEF IInv, TypeOK
<1>b. BaseDelay(backOffKind)' = BaseDelay(backOffKind')
  BY DEF BaseDelay
<1>1. CASE UNCHANGED window /\ now' \in {now, now + 1}
  <2>0. /\ banMultiplier' = banMultiplier
        /\ bannedUntil' = bannedUntil
        /\ backOffKind' = backOffKind
    BY <1>1 DEF window
  <2>1. BanRemaining <= nominal
    BY <2>0 DEF IInv, WindowWithinSchedule
  <2>a. BanRemaining' = IF banMultiplier = 0 \/ bannedUntil <= now' THEN 0
                        ELSE bannedUntil - now'
    BY <2>0 DEF BanRemaining
  <2>2. BanRemaining' <= BanRemaining
    BY <1>1, <2>a DEF BanRemaining, IInv, TypeOK
  <2>3. nominal' = nominal
    BY <2>0, <1>b
  <2>4. BanRemaining \in Nat /\ BanRemaining' \in Nat
    BY <1>1, <2>a DEF BanRemaining, IInv, TypeOK
  <2> HIDE DEF nominal
  <2>5. BanRemaining' <= nominal'
    BY <1>a, <2>1, <2>2, <2>3, <2>4
  <2>6. QED
    BY <2>5 DEF nominal
<1>2. ASSUME NEW c \in BanCause, NEW k \in BackOffKind, RegisterBan(c, k)
      PROVE  BanRemaining' <= nominal'
  <2>1. NextMultiplier(k) \in 1 .. MAX_BAN_MULTIPLIER
    BY NextMultiplierRange DEF IInv
  <2>2. BaseDelay(k) * NextMultiplier(k) \in Nat
    BY <2>1, WindowType, LimiterAssumption
  <2>3. PICK d \in Jittered(BaseDelay(k) * NextMultiplier(k)) : bannedUntil' = now + d
    BY <1>2 DEF RegisterBan
  <2>4. d \in Nat /\ d <= BaseDelay(k) * NextMultiplier(k)
    BY <2>2, <2>3, JitteredBounds
  <2>5. BanRemaining' = d
    BY <1>2, <2>3, <2>4, <2>1, LimiterAssumption
    DEF RegisterBan, BanRemaining, IInv, TypeOK
  <2>6. nominal' = BaseDelay(k) * NextMultiplier(k)
    BY <1>2, <1>b DEF RegisterBan
  <2>7. QED
    BY <2>4, <2>5, <2>6
<1>3. CASE ClearBan
  BY <1>3 DEF ClearBan
<1>4. ASSUME NEW z \in ClockZeros, RestartResumed(z)
      PROVE  BanRemaining' <= nominal'
  <2>1. banMultiplier # 0 /\ banMultiplier' = banMultiplier /\ backOffKind' = backOffKind
    BY <1>4, LimiterAssumption
    DEF RestartResumed, Resume, Captured, StandingCause, StandingKind, IInv, TypeOK, Coherent
  <2>2. BanRemaining' = BanRemaining
    BY <1>4, <2>1, LimiterAssumption
    DEF RestartResumed, Resume, Captured, BanRemaining, IInv, TypeOK
  <2>3. nominal' = nominal
    BY <2>1, <1>b
  <2>4. BanRemaining <= nominal
    BY <2>1 DEF IInv, WindowWithinSchedule
  <2>5. QED
    BY <2>2, <2>3, <2>4
<1>5. ASSUME NEW z \in ClockZeros, RestartFresh(z)
      PROVE  BanRemaining' <= nominal'
  BY <1>5 DEF RestartFresh, Resume, Unseeded
<1>6. CASE UNCHANGED vars
  BY <1>1, <1>6 DEF vars
<1>7. QED
  BY <1>1, <1>2, <1>3, <1>4, <1>5, <1>6 DEF Next, Tick, AskDelay, RecordSend, IInv, TypeOK

\* A new limiter, and one resumed from a captured one, starts well.
LEMMA InitIInv == Init => IInv
BY LimiterAssumption
DEF Init, Pristine, IInv, TypeOK, Coherent, WindowWithinSchedule

\* The invariant the theorems below rest on holds in every behaviour.
THEOREM Invariance == Spec => []IInv
<1>1. IInv /\ [Next]_vars => IInv'
  BY TypeStep, CoherentStep, WindowStep DEF IInv
<1>2. QED
  BY InitIInv, <1>1, PTL DEF Spec

\* Every variable keeps its type.
THEOREM TypeCorrect == Spec => []TypeOK
BY Invariance, PTL DEF IInv

\* The fields of a back-off are there together or not at all.
THEOREM CoherentAlways == Spec => []Coherent
BY Invariance, PTL DEF IInv

\* The client is never kept quiet for longer than the standing schedule says.
THEOREM WindowBounded == Spec => []WindowWithinSchedule
BY Invariance, PTL DEF IInv

\* Whatever the readers return, the constructor of the next process accepts.
THEOREM AlwaysResumable == Spec => []Resumable
<1>1. IInv => Resumable
  BY LimiterAssumption
  DEF IInv, TypeOK, Coherent, Resumable, Accepted, Captured, BanRemaining,
      StandingCause, StandingKind, SecondsSinceLastSend, NONE
<1>2. QED
  BY Invariance, <1>1, PTL

-----------------------------------------------------------------------------
(* Escalation.                                                             *)

\* Half of a doubled window is the window it doubled.
LEMMA HalfOfDouble ==
  ASSUME NEW b \in Nat, NEW m \in Nat, NEW d \in Nat, 2 * d >= b * (2 * m)
  PROVE  d >= b * m
<1> DEFINE w == b * m
<1>1. w \in Nat /\ b * (2 * m) = 2 * w
  OBVIOUS
<1> HIDE DEF w
<1>2. d >= w
  BY <1>1
<1>3. QED
  BY <1>2 DEF w

\* A refusal of the standing kind that doubles the multiplier covers at least
\* what was left of the window it replaces.
LEMMA DoublingCovers ==
  ASSUME IInv, NEW c \in BanCause, NEW k \in BackOffKind, RegisterBan(c, k),
         banMultiplier # 0, backOffKind' = backOffKind,
         banMultiplier' = 2 * banMultiplier
  PROVE  BanRemaining' >= BanRemaining
<1> DEFINE nominal == BaseDelay(k) * banMultiplier
<1>1. k = backOffKind /\ NextMultiplier(k) = 2 * banMultiplier
  BY DEF RegisterBan
<1>2. BaseDelay(k) \in Nat /\ nominal \in Nat
  BY BaseDelayType, WindowType, LimiterAssumption DEF IInv, TypeOK
<1>3. PICK d \in Jittered(BaseDelay(k) * NextMultiplier(k)) : bannedUntil' = now + d
  BY DEF RegisterBan
<1>4. NextMultiplier(k) \in Nat /\ BaseDelay(k) * NextMultiplier(k) \in Nat
  BY NextMultiplierRange, WindowType, LimiterAssumption DEF IInv
<1>5. d \in Nat /\ 2 * d >= BaseDelay(k) * (2 * banMultiplier)
  BY <1>1, <1>3, <1>4, JitteredBounds
<1>6. d >= nominal
  BY <1>2, <1>5, HalfOfDouble, LimiterAssumption DEF IInv, TypeOK
<1>7. BanRemaining <= nominal
  BY <1>1 DEF IInv, WindowWithinSchedule
<1>8. BanRemaining' = d
  BY <1>3, <1>5 DEF RegisterBan, BanRemaining, IInv, TypeOK
<1>9. BanRemaining \in Nat
  BY DEF BanRemaining, IInv, TypeOK
<1> HIDE DEF nominal
<1>10. QED
  BY <1>2, <1>5, <1>6, <1>7, <1>8, <1>9

\* No step other than a refusal changes the multiplier to its double.
THEOREM EscalationMonotone == Spec => EscalationNeverShortens
<1> DEFINE Doubling == /\ banMultiplier # 0
                      /\ backOffKind' = backOffKind
                      /\ banMultiplier' = 2 * banMultiplier
<1>1. IInv /\ [Next]_vars => [Doubling => BanRemaining' >= BanRemaining]_vars
  <2> SUFFICES ASSUME IInv, Next, Doubling PROVE BanRemaining' >= BanRemaining
    OBVIOUS
  <2>1. banMultiplier' # banMultiplier /\ banMultiplier' # 0
    BY LimiterAssumption DEF IInv, TypeOK
  <2>2. ~(Tick \/ AskDelay \/ RecordSend)
    BY <2>1 DEF Tick, AskDelay, RecordSend, window
  <2>3. ~ClearBan
    BY <2>1 DEF ClearBan
  <2>4. ~\E z \in ClockZeros : RestartResumed(z) \/ RestartFresh(z)
    BY <2>1 DEF RestartResumed, RestartFresh, Resume, Captured, Unseeded
  <2>5. PICK c \in BanCause, k \in BackOffKind : RegisterBan(c, k)
    BY <2>2, <2>3, <2>4 DEF Next
  <2>6. QED
    BY <2>5, DoublingCovers
<1>2. QED
  BY Invariance, <1>1, PTL DEF Spec, EscalationNeverShortens

-----------------------------------------------------------------------------
(* Refinement.                                                             *)

\* A tick of the process's clock is a tick of the duration that is left.
LEMMA TickElapses == IInv /\ Tick => Abstract!Elapse
<1> SUFFICES ASSUME IInv, Tick PROVE Abstract!Elapse
  OBVIOUS
<1>1. /\ banMultiplier' = banMultiplier /\ bannedUntil' = bannedUntil
      /\ banCause' = banCause /\ backOffKind' = backOffKind /\ now' = now + 1
  BY DEF Tick, window
<1>2. BanRemaining' = IF banMultiplier = 0 \/ bannedUntil <= now + 1 THEN 0
                      ELSE bannedUntil - (now + 1)
  BY <1>1 DEF BanRemaining
<1>3. BanRemaining' = IF BanRemaining = 0 THEN 0 ELSE BanRemaining - 1
  BY <1>2 DEF BanRemaining, IInv, TypeOK
<1>4. StandingCause' = StandingCause /\ StandingKind' = StandingKind
  BY <1>1 DEF StandingCause, StandingKind
<1>5. QED
  BY <1>1, <1>3, <1>4 DEF Abstract!Elapse

\* register_ban is the abstract refusal, with the same jittered choice.
LEMMA RegisterRefuses ==
  ASSUME IInv, NEW c \in BanCause, NEW k \in BackOffKind, RegisterBan(c, k)
  PROVE  Abstract!Refuse(c, k)
<1> DEFINE m == NextMultiplier(k)
<1>1. m \in 1 .. MAX_BAN_MULTIPLIER
  BY NextMultiplierRange DEF IInv
<1>2. m = Abstract!Escalate(banMultiplier, k = StandingKind)
  BY DEF NextMultiplier, Abstract!Escalate, StandingKind, IInv, Coherent, BackOffKind, NONE
<1>3. PICK d \in Jittered(BaseDelay(k) * m) : bannedUntil' = now + d
  BY DEF RegisterBan
<1>4. d \in Nat
  BY <1>1, <1>3, WindowType, JitteredBounds, LimiterAssumption
<1>5. banMultiplier' = m /\ m # 0 /\ banCause' = c /\ backOffKind' = k /\ now' = now
  BY <1>1, LimiterAssumption DEF RegisterBan
<1>6. BanRemaining' = d
  BY <1>3, <1>4, <1>5 DEF BanRemaining, IInv, TypeOK
<1>7. d \in Abstract!Jittered(Abstract!BaseDelay(k) * m)
  BY <1>3 DEF Jittered, BaseDelay, Abstract!Jittered, Abstract!BaseDelay
<1>8. StandingCause' = c /\ StandingKind' = k
  BY <1>5 DEF StandingCause, StandingKind
<1> HIDE DEF m
<1>9. QED
  BY <1>2, <1>5, <1>6, <1>7, <1>8 DEF Abstract!Refuse

\* A restart that resumes the captured durations changes nothing a reader sees.
LEMMA ResumeStutters ==
  ASSUME IInv, NEW z \in ClockZeros, RestartResumed(z)
  PROVE  UNCHANGED Abstract!backOffVars
<1>1. banMultiplier' = banMultiplier
  BY DEF RestartResumed, Resume, Captured
<1>2. BanRemaining' = BanRemaining
  BY <1>1, LimiterAssumption
  DEF RestartResumed, Resume, Captured, BanRemaining, IInv, TypeOK
<1>3. StandingCause' = StandingCause
  BY <1>1 DEF RestartResumed, Resume, Captured, StandingCause
<1>4. StandingKind' = StandingKind
  BY <1>1 DEF RestartResumed, Resume, Captured, StandingKind, IInv, Coherent
<1>5. QED
  BY <1>1, <1>2, <1>3, <1>4 DEF Abstract!backOffVars

\* RateLimiter, with its clock and its restarts, implements BackOff.
THEOREM ImplementsBackOff == Spec => BackOffSpec
<1>1. Init => Abstract!Clear
  BY DEF Init, Pristine, Abstract!Clear, BanRemaining, StandingCause, StandingKind,
         NONE, Abstract!NONE
<1>2. IInv /\ [Next]_vars => [Abstract!BackOffNext]_(Abstract!backOffVars)
  <2> SUFFICES ASSUME IInv, [Next]_vars
               PROVE  Abstract!BackOffNext \/ UNCHANGED Abstract!backOffVars
    OBVIOUS
  <2>1. CASE Tick
    BY <2>1, TickElapses DEF Abstract!BackOffNext
  <2>2. CASE AskDelay \/ RecordSend \/ UNCHANGED vars
    BY <2>2 DEF AskDelay, RecordSend, vars, window, Abstract!backOffVars,
                BanRemaining, StandingCause, StandingKind
  <2>3. ASSUME NEW c \in BanCause, NEW k \in BackOffKind, RegisterBan(c, k)
        PROVE  Abstract!BackOffNext
    BY <2>3, RegisterRefuses
    DEF Abstract!BackOffNext, Abstract!BanCause, Abstract!BackOffKind, BanCause, BackOffKind
  <2>4. CASE ClearBan
    BY <2>4 DEF ClearBan, Abstract!BackOffNext, Abstract!Forgive, Abstract!Clear,
                BanRemaining, StandingCause, StandingKind, NONE, Abstract!NONE
  <2>5. ASSUME NEW z \in ClockZeros, RestartResumed(z)
        PROVE  UNCHANGED Abstract!backOffVars
    BY <2>5, ResumeStutters
  <2>6. ASSUME NEW z \in ClockZeros, RestartFresh(z)
        PROVE  Abstract!BackOffNext
    BY <2>6 DEF RestartFresh, Resume, Unseeded, Abstract!BackOffNext, Abstract!Forgive,
                Abstract!Clear, BanRemaining, StandingCause, StandingKind, NONE,
                Abstract!NONE
  <2>7. QED
    BY <2>1, <2>2, <2>3, <2>4, <2>5, <2>6 DEF Next
<1>3. QED
  BY Invariance, <1>1, <1>2, PTL DEF Spec, BackOffSpec, Abstract!BackOffSpec
=============================================================================
