------------------------------ MODULE BackOff ------------------------------
(***************************************************************************)
(* What the outbound limiter of anidb-client promises about a back-off,    *)
(* stated in durations only and with no clock: how long nothing may be     *)
(* sent, how far the doubling has gone, and why.  There is no restart in   *)
(* this module.  A process that ends and hands its limiter state to the    *)
(* next one must be invisible here; RateLimiter.tla, which keeps instants  *)
(* on a clock whose zero changes with every process, is shown to           *)
(* implement this specification.                                           *)
(***************************************************************************)
EXTENDS Integers

CONSTANTS
  BAN_BASE_DELAY,      \* first window of a ban
  BUSY_BASE_DELAY,     \* first window of a busy upstream
  MAX_BAN_MULTIPLIER,  \* the doubling stops here
  JITTER_DIVISOR       \* 1 / JITTER_DIVISOR of a window is never jittered away

NONE == "NONE"
BanCause == {"REFUSED", "SILENCE", "LOCAL"}
BackOffKind == {"BANNED", "BUSY"}

BaseDelay(k) == IF k = "BUSY" THEN BUSY_BASE_DELAY ELSE BAN_BASE_DELAY

\* The doubling: it starts at 1, and restarts there when the kind changes.
Escalate(m, sameKind) ==
  IF ~sameKind \/ m = 0 THEN 1
  ELSE IF 2 * m < MAX_BAN_MULTIPLIER THEN 2 * m ELSE MAX_BAN_MULTIPLIER

\* The lengths a jittered window of nominal length w may take.
Jittered(w) == {d \in 0 .. w : JITTER_DIVISOR * d >= w}

VARIABLES
  remaining,   \* time until anything may be sent
  multiplier,  \* how far the doubling has gone; 0 when no back-off stands
  cause,       \* how the standing back-off arose
  kind         \* a ban, or a busy upstream

backOffVars == <<remaining, multiplier, cause, kind>>

Clear ==
  /\ remaining = 0
  /\ multiplier = 0
  /\ cause = NONE
  /\ kind = NONE

Elapse ==
  /\ remaining' = IF remaining = 0 THEN 0 ELSE remaining - 1
  /\ UNCHANGED <<multiplier, cause, kind>>

Refuse(c, k) ==
  LET m == Escalate(multiplier, k = kind)
  IN  /\ remaining' \in Jittered(BaseDelay(k) * m)
      /\ multiplier' = m
      /\ cause' = c
      /\ kind' = k

\* A login succeeded, or a process began with nothing remembered.
Forgive == Clear'

BackOffNext ==
  \/ Elapse
  \/ \E c \in BanCause, k \in BackOffKind : Refuse(c, k)
  \/ Forgive

BackOffSpec == Clear /\ [][BackOffNext]_backOffVars
=============================================================================
