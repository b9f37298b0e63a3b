---------------------------- MODULE RateLimiter ----------------------------
(***************************************************************************)
(* The RateLimiter object of ratelimit.py: burst and steady pacing, and    *)
(* the back-off window with its two schedules.  Every method takes the     *)
(* object's lock, so every method is one action.  now is what monotonic()  *)
(* reads in the current process; a restart moves it to another value and   *)
(* rebuilds the object from what its public readers returned.              *)
(***************************************************************************)
EXTENDS Integers

CONSTANTS
  FREE_BURST, BURST_DELAY, STEADY_DELAY, IDLE_RESET,
  BAN_BASE_DELAY, BUSY_BASE_DELAY, MAX_BAN_MULTIPLIER, JITTER_DIVISOR,
  ClockZeros,  \* readings of a fresh process's monotonic clock
  Horizon,     \* bound: the clock stops here, and older sends are not resumed
  MaxSends     \* bound: sends counted in one burst

ASSUME LimiterAssumption ==
  /\ FREE_BURST \in Nat \ {0}
  /\ BURST_DELAY \in Nat \ {0}
  /\ STEADY_DELAY \in Nat
  /\ STEADY_DELAY >= BURST_DELAY
  /\ IDLE_RESET \in Nat
  /\ IDLE_RESET >= STEADY_DELAY
  /\ BAN_BASE_DELAY \in Nat \ {0}
  /\ BUSY_BASE_DELAY \in Nat \ {0}
  /\ MAX_BAN_MULTIPLIER \in Nat \ {0}
  /\ JITTER_DIVISOR \in {1, 2}
  /\ ClockZeros \subseteq Nat
  /\ ClockZeros # {}
  /\ Horizon \in Nat
  /\ MaxSends \in Nat

NONE == "NONE"
BanCause == {"REFUSED", "SILENCE", "LOCAL"}
BackOffKind == {"BANNED", "BUSY"}

VARIABLES
  now,            \* monotonic(), in this process
  lastSend,       \* _last_send
  sentInBurst,    \* _sent_in_burst
  banMultiplier,  \* _ban_multiplier
  bannedUntil,    \* _banned_until
  banCause,       \* _ban_cause
  backOffKind     \* _back_off_kind

pacing == <<lastSend, sentInBurst>>
window == <<banMultiplier, bannedUntil, banCause, backOffKind>>
vars == <<now, pacing, window>>

-----------------------------------------------------------------------------
(* Plausible mistakes: no definition below uses them.  Each can stand for  *)
(* the operator or action it names, and breaks the property it belongs to. *)

\* NextMultiplier without the ceiling.
EscalatesPastTheCeiling(k) ==
  IF k # backOffKind \/ banMultiplier = 0 THEN 1 ELSE 2 * banMultiplier

\* NextMultiplier when a busy reply inherits a ban's escalation.
EscalationSurvivesKind(k) ==
  IF banMultiplier = 0 THEN 1
  ELSE IF 2 * banMultiplier < MAX_BAN_MULTIPLIER
       THEN 2 * banMultiplier ELSE MAX_BAN_MULTIPLIER

\* Jittered without its floor.
FullJitter(w) == 0 .. w

\* Resume when the deadline is handed over as an instant.
ResumesAnInstant(s, z) ==
  /\ now' = z
  /\ lastSend' = z - s.seconds_since_last_send
  /\ sentInBurst' = 0
  /\ banMultiplier' = s.ban_multiplier
  /\ bannedUntil' = bannedUntil
  /\ banCause' = s.ban_cause
  /\ backOffKind' = s.back_off_kind

\* ClearBan when the deadline stays behind.
ClearBanKeepsDeadline ==
  /\ banMultiplier' = 0
  /\ banCause' = NONE
  /\ backOffKind' = NONE
  /\ UNCHANGED <<bannedUntil, now, pacing>>

\* RecordSend without the stamp, and with the allowance counted down.
RecordSendUnstamped ==
  /\ sentInBurst < MaxSends
  /\ sentInBurst' = sentInBurst + 1
  /\ UNCHANGED <<now, lastSend, window>>

RecordSendCountsDown ==
  /\ sentInBurst < MaxSends
  /\ sentInBurst' = sentInBurst - 1
  /\ lastSend' = now
  /\ UNCHANGED <<now, window>>

\* StillInBurst when the allowance is one too many.
BurstOneTooMany == sentInBurst <= FREE_BURST

-----------------------------------------------------------------------------
(* The public readers.                                                     *)

BanRemaining ==
  IF banMultiplier = 0 \/ bannedUntil <= now THEN 0 ELSE bannedUntil - now

StandingCause == IF banMultiplier = 0 THEN NONE ELSE banCause
StandingKind == IF banMultiplier = 0 THEN NONE ELSE backOffKind

SecondsSinceLastSend == now - lastSend

Captured ==
  [banned_for |-> BanRemaining, ban_multiplier |-> banMultiplier,
   ban_cause |-> StandingCause, back_off_kind |-> StandingKind,
   seconds_since_last_send |-> SecondsSinceLastSend]

-----------------------------------------------------------------------------
(* The constructor: what it refuses, and how it turns the durations it is  *)
(* handed into instants of its own clock.                                  *)

Accepted(s) ==
  /\ s.banned_for >= 0
  /\ s.seconds_since_last_send >= 0
  /\ s.ban_multiplier \in 0 .. MAX_BAN_MULTIPLIER
  /\ (s.banned_for > 0 \/ s.ban_cause # NONE \/ s.back_off_kind # NONE)
       => s.ban_multiplier # 0
  /\ s.ban_multiplier # 0 => s.ban_cause # NONE

Resume(s, z) ==
  /\ now' = z
  /\ lastSend' = z - s.seconds_since_last_send
  /\ sentInBurst' = 0
  /\ banMultiplier' = s.ban_multiplier
  /\ bannedUntil' = IF s.banned_for = 0 THEN 0 ELSE z + s.banned_for
  /\ banCause' = IF s.ban_multiplier = 0 THEN NONE ELSE s.ban_cause
  /\ backOffKind' = IF s.ban_multiplier = 0 THEN NONE
                    ELSE IF s.back_off_kind = NONE THEN "BANNED" ELSE s.back_off_kind

Pristine(z) ==
  /\ now = z
  /\ lastSend = 0
  /\ sentInBurst = 0
  /\ banMultiplier = 0
  /\ bannedUntil = 0
  /\ banCause = NONE
  /\ backOffKind = NONE

Init == \E z \in ClockZeros : Pristine(z)

\* The process ends; the next one is given a limiter built from what was read.
RestartResumed(z) ==
  /\ SecondsSinceLastSend <= Horizon
  /\ Accepted(Captured)
  /\ Resume(Captured, z)

\* The process ends; the next one lets the transport build its own limiter.
\* With no seed _last_send is the clock's zero, not "never".
Unseeded(z) ==
  [banned_for |-> 0, ban_multiplier |-> 0, ban_cause |-> NONE,
   back_off_kind |-> NONE, seconds_since_last_send |-> z]

RestartFresh(z) == Resume(Unseeded(z), z)

-----------------------------------------------------------------------------
(* The methods.                                                            *)

RecordSend ==
  /\ sentInBurst < MaxSends
  /\ sentInBurst' = sentInBurst + 1
  /\ lastSend' = now
  /\ UNCHANGED <<now, window>>

BaseDelay(k) == IF k = "BUSY" THEN BUSY_BASE_DELAY ELSE BAN_BASE_DELAY

NextMultiplier(k) ==
  LET m == IF k # backOffKind THEN 0 ELSE banMultiplier
  IN  IF m = 0 THEN 1
      ELSE IF 2 * m < MAX_BAN_MULTIPLIER THEN 2 * m ELSE MAX_BAN_MULTIPLIER

\* BAN_JITTER_FLOOR of the window is fixed and the rest is drawn at random.
Jittered(w) == {d \in 0 .. w : JITTER_DIVISOR * d >= w}

RegisterBan(c, k) ==
  /\ banCause' = c
  /\ backOffKind' = k
  /\ banMultiplier' = NextMultiplier(k)
  /\ \E d \in Jittered(BaseDelay(k) * NextMultiplier(k)) : bannedUntil' = now + d
  /\ UNCHANGED <<now, pacing>>

ClearBan ==
  /\ banMultiplier' = 0
  /\ bannedUntil' = 0
  /\ banCause' = NONE
  /\ backOffKind' = NONE
  /\ UNCHANGED <<now, pacing>>

\* What delay_for_next_send returns, and what it does to the burst allowance.
BurstExpired == SecondsSinceLastSend > IDLE_RESET

StillInBurst == sentInBurst < FREE_BURST

DelayForNextSend ==
  (IF BurstExpired THEN 0 ELSE IF StillInBurst THEN BURST_DELAY ELSE STEADY_DELAY)
    - SecondsSinceLastSend

AskDelay ==
  /\ sentInBurst' = IF BurstExpired THEN 0 ELSE sentInBurst
  /\ UNCHANGED <<now, lastSend, window>>

Tick ==
  /\ now < Horizon
  /\ now' = now + 1
  /\ UNCHANGED <<pacing, window>>

Next ==
  \/ Tick
  \/ AskDelay
  \/ RecordSend
  \/ \E c \in BanCause, k \in BackOffKind : RegisterBan(c, k)
  \/ ClearBan
  \/ \E z \in ClockZeros : RestartResumed(z)
  \/ \E z \in ClockZeros : RestartFresh(z)

Spec == Init /\ [][Next]_vars

-----------------------------------------------------------------------------
(* Properties.                                                             *)

\* Every variable has its type, and the multiplier stays under its ceiling.
TypeOK ==
  /\ now \in Nat
  /\ lastSend \in Int
  /\ sentInBurst \in Nat
  /\ banMultiplier \in 0 .. MAX_BAN_MULTIPLIER
  /\ bannedUntil \in Nat
  /\ banCause \in BanCause \cup {NONE}
  /\ backOffKind \in BackOffKind \cup {NONE}

\* A back-off is there entirely or not at all -- is_banned reads the multiplier,
\* so a deadline, a cause or a kind without one would be a ban that reports
\* itself as no ban -- and no send lies in the future.
Coherent ==
  /\ banMultiplier = 0 <=> banCause = NONE
  /\ banMultiplier = 0 <=> backOffKind = NONE
  /\ banMultiplier = 0 => bannedUntil = 0
  /\ lastSend <= now

\* Nothing keeps this client quiet for longer than the schedule of the kind
\* that stands, however many refusals and restarts went before: the longest
\* window is the kind's base delay times the multiplier (ratelimit.py:97-98).
WindowWithinSchedule ==
  banMultiplier # 0 => BanRemaining <= BaseDelay(backOffKind) * banMultiplier

\* State that can be captured can be resumed: what the readers return is never
\* one of the combinations the constructor refuses.
Resumable == Accepted(Captured)

\* A refusal that repeats the standing kind below the ceiling never lets the
\* client out earlier than it was already due: the doubled window, jittered to
\* its floor, still covers whatever was left of the one before.  (At the
\* ceiling, and when the kind changes, it may.)
EscalationNeverShortens ==
  [][(/\ banMultiplier # 0
      /\ backOffKind' = backOffKind
      /\ banMultiplier' = 2 * banMultiplier)
     => BanRemaining' >= BanRemaining]_vars

\* The back-off survives a restart unchanged, because what crosses it is a
\* duration: seen through its readers the limiter is the clockless BackOff, in
\* which a resumed restart is a stuttering step.
Abstract ==
  INSTANCE BackOff WITH
    remaining <- BanRemaining, multiplier <- banMultiplier,
    cause <- StandingCause, kind <- StandingKind

BackOffSpec == Abstract!BackOffSpec

=============================================================================
