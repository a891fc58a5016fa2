------------------------------ MODULE PingTimer ------------------------------
(***************************************************************************)
(* Time, for one connection: the timer, last_ping, and the handlers that   *)
(* compare them.  A ping does not touch last_ping.  It re-arms the timer,  *)
(* which cancels the wait that is outstanding; the handler of that wait    *)
(* runs a little later, takes no notice of the error code, and finds out   *)
(* from last_ping alone whether it has been called because of a ping or    *)
(* because of its absence.                                                 *)
(*                                                                         *)
(* Time passes in units (half seconds in the configurations).  A handler   *)
(* runs at most MaxLatency after its wait has ended.  The program, while   *)
(* it is alive, sends its next request at most PingGap after the last one. *)
(* The timer keeps steady time, but last_ping and now are local times,     *)
(* which daylight saving time or an administrator moves.                   *)
(*                                                                         *)
(* A handler reads now, compares, and sets last_ping, and another handler  *)
(* of the same connection may do so in between: what it compares is the    *)
(* time it has read, which may be earlier than last_ping.  The interval is *)
(* an unsigned number: a negative difference counts as a very long time.   *)
(* The comparison and the setting of last_ping are one step.               *)
(***************************************************************************)
EXTENDS Integers

CONSTANTS ExpirationInterval,  \* PingTimerExpirationIntervalInMilliseconds
          ConnectionInterval,  \* setTimerWaitForConnection
          PingGap,
          MaxLatency,
          MaxShift,            \* bound: how far a clock set back puts last_ping
                               \* into the future
          MaxHandlers          \* bound: waits that end at the same moment

ASSUME TimerAssumption ==
  /\ {ExpirationInterval, ConnectionInterval, PingGap, MaxLatency, MaxShift,
      MaxHandlers} \subseteq Nat
  /\ MaxHandlers > 0
  /\ ConnectionInterval + MaxLatency < ExpirationInterval
  /\ PingGap + MaxLatency < ExpirationInterval

VARIABLES kind,       \* is it a ModuleConnection or a ServiceConnection?
          session,    \* accepted, watched, or closed: timedOut or lost
          alive,      \* the program will go on with its requests
          age,        \* now - last_ping, negative if the clock was set back
          silence,    \* now - the last request that armed the timer
          waiting,    \* an async_wait is outstanding
          left,       \* the time it has left
          due,        \* how many handlers were queued how long ago
          prompt,     \* history: the first request came in good time, and
                      \* the clock is the one last_ping was read from
          slow        \* history: since the last request a handler was late
                      \* when it set last_ping, or the clock was set

timerVars == <<kind, session, alive, age, silence, waiting, left, due, prompt,
               slow>>

Lags == 0..MaxLatency

\* Longer times are not told apart.
LongAge == ExpirationInterval + MaxLatency

LongSilence == ExpirationInterval + MaxLatency + 1

TimerTypeOK ==
  /\ kind \in {"module", "service"}
  /\ session \in {"accepted", "watched", "timedOut", "lost"}
  /\ alive \in BOOLEAN
  /\ age \in -MaxShift..LongAge
  /\ silence \in 0..LongSilence
  /\ waiting \in BOOLEAN
  /\ left \in 0..ExpirationInterval
  /\ due \in [Lags -> Nat]
  /\ prompt \in BOOLEAN
  /\ slow \in BOOLEAN

Open == session \in {"accepted", "watched"}

\* A wait armed by the last request is over, and no other request has come.
IsSilent == session = "watched" /\ silence >= ExpirationInterval

MayQueueHandler == due[0] < MaxHandlers

NoHandler(queued) == \A l \in Lags : queued[l] = 0

\* The outstanding wait ends, and its handler is queued.
EndWait(queued) ==
  due' = IF waiting THEN [queued EXCEPT ![0] = @ + 1] ELSE queued
-----------------------------------------------------------------------------
\* postAccept arms the timer of a module, and then reading starts; the timer
\* of a service is left alone.
TimerInit ==
  /\ kind \in {"module", "service"}
  /\ session = "accepted"
  /\ alive \in BOOLEAN
  /\ age = 0
  /\ silence = 0
  /\ waiting = (kind = "module")
  /\ left = IF kind = "module" THEN ConnectionInterval ELSE 0
  /\ due = [l \in Lags |-> 0]
  /\ prompt = FALSE
  /\ slow = FALSE

\* Mutant: the time is added to what is left of the wait.
RequestProlongs ==
  /\ Open /\ alive
  /\ MayQueueHandler
  /\ session' = "watched"
  /\ silence' = 0
  /\ prompt' = (waiting \/ prompt)
  /\ EndWait(due)
  /\ waiting' = TRUE
  /\ left' = left + ExpirationInterval
  /\ slow' = FALSE
  /\ UNCHANGED <<kind, alive, age>>

\* The first request finds last_ping as it should be.
IsInTime ==
  /\ age >= 0
  /\ \/ waiting /\ age + MaxLatency < ExpirationInterval
     \/ age + PingGap + MaxLatency < ExpirationInterval

\* A Connect, Reconnect or Ping that is accepted calls setTimerExpiration.
\* (On a closed connection, where a handler may be at its end, it would only
\* delay the release of the object.)
\* The first one is prompt if last_ping is not in the future, and if either it
\* cancels a wait, whose handler then sets last_ping in time, or last_ping is
\* recent enough to last until after the next request.  None is prompt that
\* comes before the handlers of earlier waits have run.
Request ==
  /\ Open /\ alive
  /\ MayQueueHandler
  /\ session' = "watched"
  /\ silence' = 0
  /\ prompt' = /\ NoHandler(due)
               /\ IF session = "accepted" THEN IsInTime ELSE prompt
  /\ slow' = (age < 0)
  /\ EndWait(due)
  /\ waiting' = TRUE
  /\ left' = ExpirationInterval
  /\ UNCHANGED <<kind, alive, age>>

\* The program hangs, or its host has gone without a word.
FallsSilent ==
  /\ alive
  /\ alive' = FALSE
  /\ UNCHANGED <<kind, session, age, silence, waiting, left, due, prompt,
                 slow>>

Expires ==
  /\ waiting /\ left = 0
  /\ MayQueueHandler
  /\ EndWait(due)
  /\ waiting' = FALSE
  /\ UNCHANGED <<kind, session, alive, age, silence, left, prompt, slow>>

\* What disconnect() does to the timer: a service cancels its wait, a module
\* cancels a timer of the same name on which nobody waits.
CancelsWait(queued) ==
  IF kind = "service"
  THEN EndWait(queued) /\ waiting' = FALSE
  ELSE due' = queued /\ waiting' = waiting

\* disconnect() for another reason: the read or a write has failed.
IsLost ==
  /\ Open
  /\ MayQueueHandler
  /\ session' = "lost"
  /\ CancelsWait(due)
  /\ UNCHANGED <<kind, alive, age, silence, left, prompt, slow>>

\* What a handler that was queued l ago may compare with the interval: it has
\* read now since.
Differences(l) == {age - d : d \in 0..l}

\* As size_t: a negative difference is longer than the interval.
IsRecent(difference) == difference \in 0..ExpirationInterval - 1

\* Mutant: last_ping stays as it is.
PingWasSeenKeepsAge(l) ==
  LET queued == [due EXCEPT ![l] = @ - 1]
  IN  /\ due[l] > 0
      /\ \E difference \in Differences(l) : IsRecent(difference)
      /\ due' = queued
      /\ slow' = (slow \/ (session = "watched" /\ l > 0))
      /\ prompt' = (prompt \/ (session = "watched" /\ NoHandler(queued)))
      /\ UNCHANGED <<kind, session, alive, age, silence, waiting, left>>

\* onTimerExpiration, last_ping being recent.  It is set anew, by the clock as
\* it is now.
PingWasSeen(l) ==
  LET queued == [due EXCEPT ![l] = @ - 1]
  IN  /\ due[l] > 0
      /\ \E difference \in Differences(l) : IsRecent(difference)
      /\ due' = queued
      /\ age' = 0
      /\ slow' = (slow \/ (session = "watched" /\ l > 0))
      /\ prompt' = (prompt \/ (session = "watched" /\ NoHandler(queued)))
      /\ UNCHANGED <<kind, session, alive, silence, waiting, left>>

\* Mutant: disconnect() is not called.
PingIsMissingIgnored(l) ==
  /\ due[l] > 0
  /\ \E difference \in Differences(l) : ~IsRecent(difference)
  /\ due' = [due EXCEPT ![l] = @ - 1]
  /\ age' = 0
  /\ UNCHANGED <<kind, session, alive, silence, waiting, left, prompt, slow>>

\* onTimerExpiration, last_ping being 8 seconds old, or in the future:
\* disconnect().  The connection may have been closed before.  Two handlers
\* that run at the same time both call disconnect(), which is what the first
\* of them does here.
PingIsMissing(l) ==
  /\ due[l] > 0
  /\ \E difference \in Differences(l) : ~IsRecent(difference)
  /\ session' = IF Open THEN "timedOut" ELSE session
  /\ CancelsWait([due EXCEPT ![l] = @ - 1])
  /\ age' = 0
  /\ UNCHANGED <<kind, alive, silence, left, prompt, slow>>

\* A unit of time passes: no handler is late, no wait is over, no request is.
Tick ==
  /\ due[MaxLatency] = 0
  /\ waiting => left > 0
  /\ alive /\ session = "watched" => silence < PingGap
  /\ age' = IF age < LongAge THEN age + 1 ELSE age
  /\ silence' = IF session = "watched" /\ silence < LongSilence THEN silence + 1
                                                               ELSE silence
  /\ left' = IF waiting THEN left - 1 ELSE left
  /\ due' = [l \in Lags |-> IF l = 0 THEN 0 ELSE due[l - 1]]
  /\ UNCHANGED <<kind, session, alive, waiting, prompt, slow>>

\* The local time is set forward or back: last_ping is no longer comparable
\* with it, until a handler sets last_ping again.
ClockIsSet ==
  /\ age' \in -MaxShift..LongAge
  /\ prompt' = FALSE
  /\ slow' = TRUE
  /\ UNCHANGED <<kind, session, alive, silence, waiting, left, due>>

SteadyNext ==
  \/ Request \/ FallsSilent \/ Expires \/ IsLost \/ Tick
  \/ \E l \in Lags : PingWasSeen(l) \/ PingIsMissing(l)

TimerNext == SteadyNext \/ ClockIsSet

TimerSpec == TimerInit /\ [][TimerNext]_timerVars

\* As long as nobody sets the clock.
SteadySpec == TimerInit /\ [][SteadyNext]_timerVars
-----------------------------------------------------------------------------
(* Properties.                                                             *)

\* A program whose first request was prompt, and which pings as it should, is
\* never taken for a silent one, however late handlers run: as long as none of
\* its requests comes while a handler of an earlier wait has yet to run, which
\* might then find last_ping later than the time it has read.  If that happens
\* or the clock is set, the first handler that keeps the program and leaves no
\* other behind makes it true again (onTimerExpiration,
\* WatchdogConnection.cpp:72).
PromptIsKept ==
  session = "timedOut" /\ prompt => silence >= ExpirationInterval

\* Silence is noticed one expiration interval and one latency after the last
\* request, unless the handler of the wait that this request cancelled was
\* late, so that the last_ping it set is too recent when the next wait expires,
\* or the clock was set (onTimerExpiration, WatchdogConnection.cpp:72).
SilenceIsNoticed ==
  session = "watched" /\ silence > ExpirationInterval + MaxLatency => slow

\* The inductive invariant of the proofs.

\* A wait armed by a request ends one interval after it, and not before.
WaitFollowsRequest ==
  session = "watched" =>
    /\ waiting => left + silence = ExpirationInterval
    /\ silence < ExpirationInterval => waiting
    /\ alive => silence <= PingGap

\* Before the first request nothing is known of last_ping.
NobodyIsPrompt == session = "accepted" => ~prompt

\* A handler is there because of a request just made, or of a wait just over.
HandlerHasReason ==
  session = "watched" =>
    \A l \in Lags : due[l] > 0 => \/ silence <= l
                                  \/ silence >= ExpirationInterval + l

\* last_ping will be recent enough when the next request is handled, or a
\* handler that is queued will set it in time.
PingIsRecent ==
  session = "watched" /\ prompt =>
    \/ age + PingGap + MaxLatency < ExpirationInterval + silence
    \/ \E l \in Lags : /\ due[l] > 0
                       /\ age + MaxLatency < ExpirationInterval + l

\* As long as a prompt program is not silent one handler at most is queued, and
\* the time it reads is not before last_ping.
HandlerIsAlone ==
  session = "watched" /\ prompt /\ silence < ExpirationInterval =>
    /\ age >= 0
    /\ \A l \in Lags : due[l] > 0 => due[l] = 1 /\ l <= age
    /\ \A k, l \in Lags : due[k] > 0 /\ due[l] > 0 => k = l

\* Where no handler was late, last_ping is no later than the last request.
PingIsNoLater ==
  session = "watched" /\ ~slow => age >= silence \/ age = LongAge

\* Silence has been overlooked, or a wait or a handler is about to find it.
SilenceIsPending ==
  IsSilent =>
    \/ slow
    \/ waiting /\ left = 0
    \/ \E l \in Lags : due[l] > 0 /\ silence <= ExpirationInterval + l

TimerInv ==
  /\ TimerTypeOK
  /\ WaitFollowsRequest /\ NobodyIsPrompt /\ HandlerHasReason
  /\ PingIsRecent /\ HandlerIsAlone /\ PingIsNoLater
  /\ SilenceIsPending /\ PromptIsKept

\* What the log lines and comments say, and the choice of last_ping disproves.

\* "Not received ping - disconnecting" (WatchdogConnection.cpp:76): a
\* connection is not closed by the timer if a ping was received in time.
OnlySilentTimesOut == session = "timedOut" => silence >= ExpirationInterval
=============================================================================
