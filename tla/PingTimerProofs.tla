--------------------------- MODULE PingTimerProofs ---------------------------
(***************************************************************************)
(* What the timer does for a prompt program and about a silent one, for    *)
(* every interval, gap and latency that TimerAssumption allows.            *)
(***************************************************************************)
EXTENDS PingTimer, TLAPS

\* The constants as the arithmetic of the proofs needs them.
LEMMA Intervals ==
  /\ ExpirationInterval \in Nat /\ ConnectionInterval \in Nat
  /\ PingGap \in Nat /\ MaxLatency \in Nat /\ MaxShift \in Nat
  /\ MaxHandlers \in Nat
  /\ ConnectionInterval + MaxLatency < ExpirationInterval
  /\ PingGap + MaxLatency < ExpirationInterval
  /\ 0 \in Lags
  /\ Lags \subseteq Nat /\ \A l \in Lags : l <= MaxLatency
BY TimerAssumption DEF Lags

\* Ending a wait queues one handler, and takes none away.
LEMMA WaitEnds ==
  ASSUME NEW queued \in [Lags -> Nat], waiting \in BOOLEAN, EndWait(queued)
  PROVE  /\ due' \in [Lags -> Nat]
         /\ \A l \in Lags : due'[l] >= queued[l] /\ (l # 0 => due'[l] = queued[l])
         /\ due'[0] <= queued[0] + 1
         /\ waiting => due'[0] > 0
BY Intervals DEF EndWait

\* disconnect() ends the wait of a service and not that of a module.
LEMMA WaitIsCancelled ==
  ASSUME NEW queued \in [Lags -> Nat], waiting \in BOOLEAN, CancelsWait(queued)
  PROVE  due' \in [Lags -> Nat] /\ waiting' \in BOOLEAN
BY WaitEnds DEF CancelsWait

\* Running a handler.
LEMMA HandlerRuns ==
  ASSUME TimerTypeOK, NEW l \in Lags, due[l] > 0
  PROVE  /\ [due EXCEPT ![l] = @ - 1] \in [Lags -> Nat]
         /\ \A k \in Lags : [due EXCEPT ![l] = @ - 1][k] > 0 => due[k] > 0
BY Intervals DEF TimerTypeOK

\* How old last_ping must be for a handler to keep the program, whenever it has
\* read the time, and how old for it to disconnect the program.
LEMMA Comparison ==
  ASSUME TimerTypeOK, NEW l \in Lags
  PROVE  /\ \A difference \in Differences(l) : difference \in Int
         /\ (\E difference \in Differences(l) : IsRecent(difference))
              => age >= 0 /\ age < ExpirationInterval + l
         /\ (\E difference \in Differences(l) : ~IsRecent(difference))
              => age < l \/ age >= ExpirationInterval
<1>1. age \in Int /\ l \in Nat /\ ExpirationInterval \in Nat
  BY Intervals DEF TimerTypeOK, LongAge
<1>2. \A difference \in Differences(l) : \E d \in 0..l : difference = age - d
  BY DEF Differences
<1> QED BY <1>1, <1>2 DEF IsRecent

\* The handlers that are queued grow older by one.
LEMMA HandlersWait ==
  ASSUME TimerTypeOK, Tick
  PROVE  /\ due' \in [Lags -> Nat]
         /\ \A l \in Lags : due'[l] > 0 => l - 1 \in Lags /\ due[l - 1] > 0
         /\ \A l \in Lags : due[l] > 0 => l + 1 \in Lags /\ due'[l + 1] = due[l]
<1>1. \A l \in Lags : l # 0 => l - 1 \in Lags
  BY Intervals DEF Lags
<1>2. \A l \in Lags : l # MaxLatency => l + 1 \in Lags /\ (l + 1) - 1 = l /\ l + 1 # 0
  BY Intervals DEF Lags
<1>3. due' = [l \in Lags |-> IF l = 0 THEN 0 ELSE due[l - 1]]
  BY DEF Tick
<1>4. due[MaxLatency] = 0
  BY DEF Tick
<1> QED BY <1>1, <1>2, <1>3, <1>4, Intervals DEF TimerTypeOK

LEMMA TimerStarts == TimerInit => TimerInv
<1> SUFFICES ASSUME TimerInit PROVE TimerInv
  OBVIOUS
<1>1. TimerTypeOK
  <2>1. due \in [Lags -> Nat]
    BY DEF TimerInit
  <2>2. left \in 0..ExpirationInterval
    BY Intervals DEF TimerInit
  <2>3. age \in -MaxShift..LongAge /\ silence \in 0..LongSilence
    BY Intervals DEF TimerInit, LongAge, LongSilence
  <2>4. waiting \in BOOLEAN
    BY DEF TimerInit
  <2> QED BY <2>1, <2>2, <2>3, <2>4 DEF TimerInit, TimerTypeOK
<1>2. NobodyIsPrompt
  BY Intervals DEF TimerInit, NobodyIsPrompt
<1> QED BY <1>1, <1>2 DEF TimerInit, TimerInv, WaitFollowsRequest,
           HandlerHasReason, PingIsRecent, HandlerIsAlone, PingIsNoLater,
       SilenceIsPending, IsSilent, PromptIsKept

LEMMA RequestKeeps ==
  ASSUME TimerInv, Request
  PROVE  TimerInv'
<1> USE Intervals DEF TimerInv
<1>1. /\ due' \in [Lags -> Nat]
      /\ \A l \in Lags : due[l] > 0 => due'[l] > 0
  BY WaitEnds DEF Request, TimerTypeOK
<1>2. waiting => due'[0] > 0
  BY WaitEnds DEF Request, TimerTypeOK
<1>3. TimerTypeOK'
  <2>1. prompt' \in BOOLEAN
    BY DEF Request, TimerTypeOK, IsInTime
  <2>2. left' \in 0..ExpirationInterval /\ silence' \in 0..LongSilence
    BY DEF Request, LongSilence
  <2>3. /\ session' = "watched" /\ waiting' = TRUE
        /\ UNCHANGED <<kind, alive, age>>
    BY DEF Request
  <2>4. age' \in -MaxShift..LongAge /\ alive' \in BOOLEAN /\ slow' \in BOOLEAN
    BY <2>3 DEF Request, TimerTypeOK
  <2>5. kind' \in {"module", "service"}
    BY <2>3 DEF TimerTypeOK
  <2> QED BY <1>1, <2>1, <2>2, <2>3, <2>4, <2>5 DEF TimerTypeOK
<1>4. WaitFollowsRequest' /\ NobodyIsPrompt' /\ HandlerHasReason'
  BY DEF Request, WaitFollowsRequest, NobodyIsPrompt, HandlerHasReason
\* A handler that is queued by this request will set last_ping.
<1>5. ASSUME waiting, age + MaxLatency < ExpirationInterval
      PROVE  PingIsRecent'
  <2>1. due'[0] > 0
    BY <1>2, <1>5
  <2>2. age' + MaxLatency < ExpirationInterval + 0
    BY <1>5 DEF Request, TimerTypeOK, LongAge
  <2> QED BY <2>1, <2>2 DEF PingIsRecent
<1>6. PingIsRecent'
  <2>1. CASE session = "accepted"
    <3>1. CASE waiting /\ age + MaxLatency < ExpirationInterval
      BY <1>5, <3>1
    <3>2. CASE age + PingGap + MaxLatency < ExpirationInterval
      BY <3>2 DEF Request, PingIsRecent
    <3>3. CASE ~prompt'
      BY <3>3 DEF PingIsRecent
    <3>4. prompt' => \/ waiting /\ age + MaxLatency < ExpirationInterval
                     \/ age + PingGap + MaxLatency < ExpirationInterval
      BY <2>1 DEF Request, IsInTime
    <3> QED BY <3>1, <3>2, <3>3, <3>4
  <2>2. CASE session = "watched"
    <3>1. silence <= PingGap /\ waiting
      BY <2>2 DEF Request, WaitFollowsRequest, TimerTypeOK, LongSilence
    <3>2. (prompt' => prompt) /\ age' = age /\ silence' = 0
      BY <2>2 DEF Request
    <3>3. CASE age + PingGap + MaxLatency < ExpirationInterval + silence
      <4>1. age + MaxLatency < ExpirationInterval
        BY <3>1, <3>3 DEF TimerTypeOK, LongAge, LongSilence
      <4> QED BY <1>5, <3>1, <4>1
    <3>4. CASE \E l \in Lags : due[l] > 0 /\ age + MaxLatency < ExpirationInterval + l
      BY <1>1, <3>2, <3>4 DEF PingIsRecent
    <3> QED BY <2>2, <3>2, <3>3, <3>4 DEF PingIsRecent
  <2> QED BY <2>1, <2>2 DEF Request, Open
\* A prompt request leaves its own handler behind and no other.
<1>7. HandlerIsAlone'
  <2> SUFFICES ASSUME prompt'
               PROVE  /\ age' >= 0
                      /\ \A l \in Lags : due'[l] > 0 => due'[l] = 1 /\ l = 0
    BY <1>3 DEF HandlerIsAlone, TimerTypeOK, LongAge
  <2>1. \A l \in Lags : due[l] = 0
    BY DEF Request, NoHandler
  <2>2. \A l \in Lags : due'[l] > 0 => due'[l] = 1 /\ l = 0
    BY <1>1, <2>1, WaitEnds DEF Request, TimerTypeOK
  <2>3. session = "watched" => prompt /\ silence < ExpirationInterval
    <3>1. session = "watched" => prompt
      BY Zenon DEF Request
    <3>2. session = "watched" => silence < ExpirationInterval
      BY DEF Request, WaitFollowsRequest, TimerTypeOK, LongSilence
    <3> QED BY <3>1, <3>2
  <2>4. age' >= 0
    BY <2>3 DEF Request, Open, IsInTime, HandlerIsAlone
  <2> QED BY <2>2, <2>4
<1>8. PingIsNoLater'
  <2>1. (slow' <=> age < 0) /\ age' = age /\ silence' = 0
    BY DEF Request, TimerTypeOK
  <2> QED BY <2>1 DEF PingIsNoLater, TimerTypeOK, LongAge
<1>9. SilenceIsPending' /\ PromptIsKept'
  BY DEF Request, SilenceIsPending, IsSilent, PromptIsKept
<1> QED BY <1>3, <1>4, <1>6, <1>7, <1>8, <1>9

LEMMA FallsSilentKeeps ==
  ASSUME TimerInv, FallsSilent
  PROVE  TimerInv'
BY DEF FallsSilent, TimerInv, TimerTypeOK, WaitFollowsRequest, NobodyIsPrompt,
       HandlerHasReason, PingIsRecent, HandlerIsAlone, PingIsNoLater,
       SilenceIsPending, IsSilent, PromptIsKept

LEMMA ExpiresKeeps ==
  ASSUME TimerInv, Expires
  PROVE  TimerInv'
<1> USE Intervals DEF TimerInv
<1>1. /\ due' \in [Lags -> Nat] /\ due'[0] > 0
      /\ \A l \in Lags : due[l] > 0 => due'[l] > 0
      /\ \A l \in Lags : l # 0 => due'[l] = due[l]
  BY WaitEnds DEF Expires, TimerTypeOK
<1>2. TimerTypeOK'
  BY <1>1 DEF Expires, TimerTypeOK
<1>3. session = "watched" => silence = ExpirationInterval
  BY DEF Expires, WaitFollowsRequest, TimerTypeOK, LongSilence
<1>4. WaitFollowsRequest' /\ NobodyIsPrompt'
  BY <1>3 DEF Expires, WaitFollowsRequest, NobodyIsPrompt
<1>5. HandlerHasReason'
  BY <1>1, <1>3 DEF Expires, HandlerHasReason
<1>6. PingIsRecent'
  BY <1>1 DEF Expires, PingIsRecent
<1>7. HandlerIsAlone' /\ PingIsNoLater'
  BY <1>3 DEF Expires, HandlerIsAlone, PingIsNoLater
<1>8. SilenceIsPending' /\ PromptIsKept'
  BY <1>1, <1>3 DEF Expires, SilenceIsPending, IsSilent, PromptIsKept
<1> QED BY <1>2, <1>4, <1>5, <1>6, <1>7, <1>8

LEMMA IsLostKeeps ==
  ASSUME TimerInv, IsLost
  PROVE  TimerInv'
<1>1. TimerTypeOK'
  BY WaitIsCancelled DEF IsLost, TimerInv, TimerTypeOK
<1> QED BY <1>1 DEF IsLost, TimerInv, WaitFollowsRequest, NobodyIsPrompt,
           HandlerHasReason, PingIsRecent, HandlerIsAlone, PingIsNoLater,
       SilenceIsPending, IsSilent, PromptIsKept

LEMMA PingWasSeenKeeps ==
  ASSUME TimerInv, NEW l \in Lags, PingWasSeen(l)
  PROVE  TimerInv'
<1> USE Intervals DEF TimerInv
<1>1. due' \in [Lags -> Nat] /\ \A k \in Lags : due'[k] > 0 => due[k] > 0
  BY HandlerRuns DEF PingWasSeen
<1>2. TimerTypeOK'
  BY <1>1 DEF PingWasSeen, TimerTypeOK, LongAge
<1>3. WaitFollowsRequest' /\ NobodyIsPrompt' /\ HandlerHasReason'
  BY <1>1 DEF PingWasSeen, WaitFollowsRequest, NobodyIsPrompt, HandlerHasReason,
              TimerTypeOK, LongAge
<1>4. PingIsRecent'
  BY DEF PingWasSeen, PingIsRecent, TimerTypeOK, LongSilence
\* The handler that has run was the only one, or the connection is prompt only
\* from now on, and no other is left.
<1>5. HandlerIsAlone'
  <2> SUFFICES ASSUME session = "watched", prompt', silence < ExpirationInterval
               PROVE  \A k \in Lags : due'[k] = 0
    <3>1. age' = 0
      BY DEF PingWasSeen
    <3> QED BY <1>1, <3>1 DEF HandlerIsAlone, PingWasSeen
  <2>1. CASE prompt
    <3>1. due[l] = 1 /\ \A k \in Lags : due[k] > 0 => k = l
      BY <2>1 DEF HandlerIsAlone, PingWasSeen
    <3> QED BY <1>1, <3>1 DEF PingWasSeen, TimerTypeOK
  <2>2. CASE ~prompt
    BY <2>2 DEF PingWasSeen, NoHandler
  <2> QED BY <2>1, <2>2
\* A handler that is not late and sets last_ping follows a request just made.
<1>6. session = "watched" /\ ~slow' => silence = 0
  <2> SUFFICES ASSUME session = "watched", ~slow, l = 0
               PROVE  silence = 0
    <3>1. slow' = (slow \/ (session = "watched" /\ l > 0))
      BY DEF PingWasSeen
    <3>2. session = "watched" /\ ~slow' => ~slow /\ ~(l > 0)
      BY <3>1, Zenon
    <3> QED BY <3>2
  <2>1. age < ExpirationInterval
    BY Comparison DEF PingWasSeen, TimerTypeOK, LongAge
  <2>2. silence < ExpirationInterval
    BY <2>1 DEF PingIsNoLater, TimerTypeOK, LongAge, LongSilence
  <2> QED BY <2>2 DEF HandlerHasReason, PingWasSeen, TimerTypeOK, LongSilence
<1>7. PingIsNoLater' /\ SilenceIsPending' /\ PromptIsKept'
  <2>1. UNCHANGED <<session, silence>> /\ age' = 0
    BY DEF PingWasSeen
  <2>2. session = "timedOut" => prompt' = prompt
    BY DEF PingWasSeen, TimerTypeOK
  <2> QED BY <1>6, <2>1, <2>2
          DEF PingIsNoLater, SilenceIsPending, IsSilent, PromptIsKept
<1> QED BY <1>2, <1>3, <1>4, <1>5, <1>7

\* A handler that closes a prompt connection has found silence: it cannot be
\* there because of a request just made, since last_ping would be recent, and
\* no later than the time the handler has read.
LEMMA PingIsMissingKeeps ==
  ASSUME TimerInv, NEW l \in Lags, PingIsMissing(l)
  PROVE  TimerInv'
<1> USE Intervals DEF TimerInv
<1>1. due' \in [Lags -> Nat] /\ waiting' \in BOOLEAN
  BY HandlerRuns, WaitIsCancelled DEF PingIsMissing, TimerTypeOK
<1>2. TimerTypeOK'
  BY <1>1 DEF PingIsMissing, TimerTypeOK, LongAge
<1>3. PromptIsKept'
  <2>1. CASE session = "watched" /\ prompt
    <3> SUFFICES ASSUME silence < ExpirationInterval PROVE FALSE
      BY DEF PingIsMissing, PromptIsKept, TimerTypeOK, LongSilence
    <3>1. due[l] > 0 /\ l \in Nat /\ l <= MaxLatency
      BY DEF PingIsMissing
    <3>2. l <= age /\ \A k \in Lags : due[k] > 0 => k = l
      BY <2>1, <3>1 DEF HandlerIsAlone
    <3>3. silence <= l
      BY <2>1, <3>1 DEF HandlerHasReason, TimerTypeOK, LongSilence
    <3>4. age < ExpirationInterval
      BY <2>1, <3>1, <3>2, <3>3 DEF PingIsRecent, TimerTypeOK, LongAge, LongSilence
    <3>5. age < l \/ age >= ExpirationInterval
      BY Comparison DEF PingIsMissing
    <3> QED BY <3>1, <3>2, <3>4, <3>5 DEF TimerTypeOK, LongAge
  <2>2. CASE ~(session = "watched" /\ prompt)
    BY <2>2 DEF PingIsMissing, PromptIsKept, NobodyIsPrompt, Open
  <2> QED BY <2>1, <2>2
<1> QED BY <1>2, <1>3 DEF PingIsMissing, Open, WaitFollowsRequest, NobodyIsPrompt,
           HandlerHasReason, PingIsRecent, HandlerIsAlone, PingIsNoLater,
           SilenceIsPending, IsSilent

LEMMA TickKeeps ==
  ASSUME TimerInv, Tick
  PROVE  TimerInv'
<1> USE Intervals DEF TimerInv
<1>1. TimerTypeOK'
  BY HandlersWait DEF Tick, TimerTypeOK, LongAge, LongSilence
<1>2. WaitFollowsRequest'
  BY DEF Tick, WaitFollowsRequest, TimerTypeOK, LongSilence
<1>3. NobodyIsPrompt'
  BY DEF Tick, NobodyIsPrompt, TimerTypeOK, LongAge
<1>4. HandlerHasReason'
  BY HandlersWait DEF Tick, HandlerHasReason, TimerTypeOK, LongSilence
<1>5. PingIsRecent'
  <2> SUFFICES ASSUME (session = "watched" /\ prompt)'
               PROVE  \/ (age + PingGap + MaxLatency < ExpirationInterval + silence)'
                      \/ \E l \in Lags : (/\ due[l] > 0
                                          /\ age + MaxLatency < ExpirationInterval + l)'
    BY DEF PingIsRecent
  <2>1. CASE age + PingGap + MaxLatency < ExpirationInterval + silence
    BY <2>1 DEF Tick, TimerTypeOK, LongAge, LongSilence
  <2>2. ASSUME NEW l \in Lags, due[l] > 0, age + MaxLatency < ExpirationInterval + l
        PROVE  /\ l + 1 \in Lags /\ due'[l + 1] > 0
               /\ age' + MaxLatency < ExpirationInterval + (l + 1)
    BY <2>2, HandlersWait DEF Tick, TimerTypeOK, LongAge
  <2> QED BY <2>1, <2>2 DEF Tick, PingIsRecent
<1>6. SilenceIsPending'
  <2> SUFFICES ASSUME IsSilent', ~slow
               PROVE  \/ (waiting /\ left = 0)'
                      \/ \E l \in Lags : (due[l] > 0 /\ silence <= ExpirationInterval + l)'
    BY DEF SilenceIsPending, Tick
  <2>1. CASE ~IsSilent
    BY <2>1 DEF Tick, IsSilent, WaitFollowsRequest, TimerTypeOK, LongSilence
  <2>2. CASE IsSilent
    <3>1. PICK l \in Lags : due[l] > 0 /\ silence <= ExpirationInterval + l
      BY <2>2 DEF SilenceIsPending, Tick
    <3>2. l + 1 \in Lags /\ due'[l + 1] > 0 /\ silence' <= ExpirationInterval + (l + 1)
      BY <3>1, HandlersWait DEF Tick, TimerTypeOK, LongSilence
    <3> QED BY <3>2
  <2> QED BY <2>1, <2>2
<1>7. HandlerIsAlone'
  <2> SUFFICES ASSUME (session = "watched" /\ prompt /\ silence < ExpirationInterval)'
               PROVE  /\ age' >= 0
                      /\ \A l \in Lags : due'[l] > 0 => due'[l] = 1 /\ l <= age'
                      /\ \A k, l \in Lags : due'[k] > 0 /\ due'[l] > 0 => k = l
    BY DEF HandlerIsAlone
  <2>1. session = "watched" /\ prompt /\ silence < ExpirationInterval
    BY DEF Tick, TimerTypeOK, LongSilence
  <2>2. age \in 0..LongAge /\ age' = IF age < LongAge THEN age + 1 ELSE age
    BY <2>1 DEF Tick, HandlerIsAlone, TimerTypeOK, LongAge
  <2>3. \A l \in Lags : due[l] > 0 => due[l] = 1 /\ l <= age
    BY <2>1 DEF HandlerIsAlone
  <2>4. \A k, l \in Lags : due[k] > 0 /\ due[l] > 0 => k = l
    BY <2>1 DEF HandlerIsAlone
  <2>5. ASSUME NEW l \in Lags, due'[l] > 0
        PROVE  /\ l - 1 \in Lags /\ due[l - 1] > 0
               /\ due'[l] = 1 /\ l <= age'
    <3>1. l - 1 \in Lags /\ due[l - 1] > 0 /\ (l - 1) + 1 = l
      BY <2>5, HandlersWait
    <3>2. due'[l] = due[l - 1]
      BY <3>1, HandlersWait
    <3> QED BY <2>2, <2>3, <3>1, <3>2 DEF LongAge
  <2>6. \A k, l \in Lags : due'[k] > 0 /\ due'[l] > 0 => k = l
    BY <2>4, <2>5
  <2>7. age' >= 0
    BY <2>2 DEF LongAge
  <2> QED BY <2>5, <2>6, <2>7
<1>8. PingIsNoLater'
  BY DEF Tick, PingIsNoLater, TimerTypeOK, LongAge, LongSilence
<1>9. PromptIsKept'
  BY DEF Tick, PromptIsKept
<1> QED BY <1>1, <1>2, <1>3, <1>4, <1>5, <1>6, <1>7, <1>8, <1>9

\* Setting the clock promises nothing, and disconnects nobody.
LEMMA ClockIsSetKeeps ==
  ASSUME TimerInv, ClockIsSet
  PROVE  TimerInv'
BY DEF ClockIsSet, TimerInv, TimerTypeOK, WaitFollowsRequest, NobodyIsPrompt,
       HandlerHasReason, PingIsRecent, HandlerIsAlone, PingIsNoLater,
       SilenceIsPending, IsSilent, PromptIsKept

LEMMA TimerStutters ==
  ASSUME TimerInv, UNCHANGED timerVars
  PROVE  TimerInv'
BY DEF timerVars, TimerInv, TimerTypeOK, WaitFollowsRequest, NobodyIsPrompt,
       HandlerHasReason, PingIsRecent, HandlerIsAlone, PingIsNoLater,
       SilenceIsPending, IsSilent, PromptIsKept

\* The invariant of the timer, with which the theorems below are proved.
THEOREM TimerInvariance == TimerSpec => []TimerInv
<1>1. TimerInv /\ [TimerNext]_timerVars => TimerInv'
  BY RequestKeeps, FallsSilentKeeps, ExpiresKeeps, IsLostKeeps, PingWasSeenKeeps,
     PingIsMissingKeeps, TickKeeps, ClockIsSetKeeps, TimerStutters
     DEF TimerNext, SteadyNext
<1> QED BY <1>1, TimerStarts, PTL DEF TimerSpec

\* The types of the timer's state (setTimerExpiration, onTimerExpiration).
THEOREM TimerTypeCorrect == TimerSpec => []TimerTypeOK
BY TimerInvariance, PTL DEF TimerInv

\* A prompt program that pings is not disconnected, for all intervals and
\* latencies that leave room for a ping and a handler before the expiration.
\* (onTimerExpiration, the comparison with a negative difference included.)
THEOREM PromptProgramIsKept == TimerSpec => []PromptIsKept
BY TimerInvariance, PTL DEF TimerInv

\* Silence is noticed one interval and one latency after the last request, if
\* the handler of that request was not late and nobody has set the clock.
THEOREM SilentProgramIsNoticed == TimerSpec => []SilenceIsNoticed
<1>1. TimerInv => SilenceIsNoticed
  BY Intervals DEF TimerInv, SilenceIsPending, IsSilent, SilenceIsNoticed,
     WaitFollowsRequest, TimerTypeOK, LongSilence
<1> QED BY <1>1, TimerInvariance, PTL
=============================================================================
