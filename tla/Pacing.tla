------------------------------- MODULE Pacing -------------------------------
(***************************************************************************)
(* The send path's use of the limiter, by the threads that reach it.       *)
(* _send_command calls wait(), which asks for the delay under the lock and *)
(* sleeps it out without, and later record_send(): three steps another     *)
(* thread can fall between.  The sender thread sends queued commands; an   *)
(* application thread inside connect(), the listener thread recovering a   *)
(* session and a reply thread following up ENCRYPT send AUTH themselves.   *)
(***************************************************************************)
EXTENDS RateLimiter, FiniteSets

CONSTANT Threads  \* the threads that may be inside _send_command at once

ASSUME ThreadsAssumption == Threads # {}

VARIABLES
  wakeAt,      \* per thread: when its sleep in wait() ends, or NotSending
  burstStart,  \* history: when the first datagram of this burst left
  left,        \* history: when the last datagram left, or NotSending
  gap          \* history: time between the last two datagrams

NotSending == -1

pacingVars == <<vars, wakeAt, burstStart, left, gap>>

NoGap == -1

PacingInit ==
  /\ Init
  /\ wakeAt = [t \in Threads |-> NotSending]
  /\ burstStart = 0
  /\ left = NotSending
  /\ gap = NoGap

\* wait(): the delay is decided now, and slept out with the lock released.
BeginWait(t) ==
  /\ wakeAt[t] = NotSending
  /\ AskDelay
  /\ wakeAt' = [wakeAt EXCEPT ![t] = IF DelayForNextSend > 0
                                     THEN now + DelayForNextSend ELSE now]
  /\ UNCHANGED <<burstStart, left, gap>>

\* The sleep is over: record_send(), and the datagram leaves.
Send(t) ==
  /\ wakeAt[t] # NotSending
  /\ now >= wakeAt[t]
  /\ RecordSend
  /\ wakeAt' = [wakeAt EXCEPT ![t] = NotSending]
  /\ gap' = IF left = NotSending THEN NoGap ELSE now - left
  /\ left' = now
  /\ burstStart' = IF sentInBurst = 0 THEN now ELSE burstStart

\* A command refused after its wait (the listener died, there is no session,
\* a second login) leaves without having sent.
GiveUp(t) ==
  /\ wakeAt[t] # NotSending
  /\ now >= wakeAt[t]
  /\ wakeAt' = [wakeAt EXCEPT ![t] = NotSending]
  /\ UNCHANGED <<vars, burstStart, left, gap>>

Pass ==
  /\ Tick
  /\ UNCHANGED <<wakeAt, burstStart, left, gap>>

PacingNext ==
  \/ Pass
  \/ \E t \in Threads : BeginWait(t)
  \/ \E t \in Threads : Send(t)
  \/ \E t \in Threads : GiveUp(t)

PacingSpec == PacingInit /\ [][PacingNext]_pacingVars

-----------------------------------------------------------------------------
(* Properties.                                                             *)

\* Every variable has its type: sends are counted up from zero, one at a time.
PacingTypeOK ==
  /\ TypeOK
  /\ wakeAt \in [Threads -> Nat \cup {NotSending}]
  /\ burstStart \in Nat
  /\ left \in Nat \cup {NotSending}
  /\ gap \in Nat \cup {NoGap}

\* Two datagrams never leave closer together than the burst interval.
NeverBackToBack == sentInBurst > 1 => gap >= BURST_DELAY

\* The flood bound itself: of the datagrams of one burst the first FREE_BURST
\* may be BURST_DELAY apart and every later one costs STEADY_DELAY, so the
\* count bounds the time the burst has taken from below.
FloodBound ==
  sentInBurst > 0 =>
    LET n == sentInBurst
        quick == IF n < FREE_BURST THEN n - 1 ELSE FREE_BURST - 1
    IN  left - burstStart >=
          quick * BURST_DELAY + (n - 1 - quick) * STEADY_DELAY
=============================================================================
