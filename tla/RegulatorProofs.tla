--------------------------- MODULE RegulatorProofs ---------------------------
(***************************************************************************)
(* Theorems about Regulator: the worker never waits for a timer that will  *)
(* not fire, never asks the service faster than its rate allows, and gets  *)
(* its rate back no faster than it should, whatever Rps.                   *)
(***************************************************************************)
EXTENDS Regulator, RangesProofs

\* The least time between two requests.
MinGap == Second \div Rps

\* The types of all variables.
RegType ==
    /\ TypeOK
    /\ worker \in [stops : BOOLEAN, adapts : BOOLEAN]
    /\ closing \in BOOLEAN /\ releasing \in BOOLEAN
    /\ low \in rpsMin .. RateMax /\ sinceLow \in 0 .. OldAge
    /\ recent \in [0 .. Rps -> 0 .. Second]

\* A timer that is off has a value in its channel, unless the worker received
\* it and noted that in ding, or has stopped the timer and is done.
TimerHeard ==
    /\ full => timer = Off /\ ~ding
    /\ ding => timer = Off /\ pc # "wait"
    /\ timer = Off => full \/ ding \/ pc = "done"

\* The delay is the one of the current rate; a worker that waits has a timer
\* that fires when the delay is over, not before, and one that may make a
\* request has waited.
DelayKept ==
    /\ minDelay = DelayAt(val)
    /\ pc = "manipulate" => sinceReq >= minDelay
    /\ pc = "wait" => \/ timer \in 0 .. Second /\ timer + sinceReq >= minDelay
                      \/ full /\ sinceReq >= minDelay

\* The k-th of the last requests is k delays old at least, and older by the
\* time since the last one returned, unless one is under way.
Spaced ==
    LET since == IF pc = "call" THEN 0 ELSE sinceReq
    IN  \A k \in 0 .. Rps :
            recent[k] >= Second \/ recent[k] >= (k * MinGap) + since

\* What the adapter may add to the rate v, for the time a, is covered by the
\* time since the last throttling; a rate that is not adapted does not change.
Covered(v, a, l, since) == since = OldAge \/ v + a <= l + since

RateCovered ==
    IF worker.adapts THEN Covered(val, last, low, sinceLow)
                     ELSE val = RateMax /\ low = RateMax

RegInv == RegType /\ NeverStuck /\ TimerHeard /\ DelayKept /\ Spaced
              /\ RateCovered

(* The delays of rates. *)

\* A larger rate has a smaller delay.
LEMMA DelayBounds ==
    ASSUME NEW v \in rpsMin .. RateMax
    PROVE  DelayAt(v) \in 1 .. Second /\ MinGap <= DelayAt(v)
  <1> DEFINE m == v \div OneRps
  <1>1. /\ Second \in Nat \ {0} /\ Rps \in Nat \ {0} /\ Second % Rps = 0
        /\ OneRps = 2 * Second /\ OneRps \in Nat \ {0}
    BY RateAssumption DEF OneRps
  <1>2. Rps * OneRps \in Int /\ RateMax = Rps * OneRps
    BY <1>1, Z3 DEF RateMax
  <1>3. v \in Int /\ OneRps <= v /\ v <= Rps * OneRps
    BY <1>1, <1>2 DEF rpsMin
  <1>4. m \in Int /\ v % OneRps \in 0 .. OneRps - 1
        /\ v = OneRps * m + (v % OneRps)
    <2>1. v \in Int /\ OneRps \in Nat \ {0}
      BY <1>1, <1>3
    <2>2. QED
      BY <2>1, DivMod, Zenon DEF m
  <1> HIDE DEF m
  <1>5. m \in 1 .. Rps
    <2>1. OneRps * m = m * OneRps /\ m * OneRps \in Int
      BY <1>1, <1>4, Z3
    <2>2. CASE m <= 0
      <3>1. m * OneRps <= 0 * OneRps
        BY <1>1, <1>4, <2>2, TimesMonotonic
      <3>2. QED
        BY <1>1, <1>3, <1>4, <2>1, <3>1
    <2>3. CASE Rps + 1 <= m
      <3>1. (Rps + 1) * OneRps <= m * OneRps
        BY <1>1, <1>4, <2>3, TimesMonotonic
      <3>2. (Rps + 1) * OneRps = (Rps * OneRps) + OneRps
        BY <1>1, Z3
      <3>3. QED
        BY <1>1, <1>2, <1>3, <1>4, <2>1, <3>1, <3>2
    <2>4. QED
      BY <1>1, <1>4, <2>2, <2>3
  <1> DEFINE e == Second \div m
             g == Second \div Rps
  <1>6. e \in Int /\ Second % m \in 0 .. m - 1 /\ Second = m * e + (Second % m)
    <2>1. Second \in Int /\ m \in Nat \ {0}
      BY <1>1, <1>5
    <2>2. QED
      BY <2>1, DivMod, Zenon
  <1>7. g \in Int /\ Second = Rps * g
    <2>1. Second \in Int
      BY <1>1
    <2>2. g \in Int /\ Second = Rps * g + (Second % Rps)
      BY <1>1, <2>1, DivMod, Zenon
    <2>3. Rps * g \in Int
      BY <1>1, <2>2, Z3
    <2> HIDE DEF g
    <2>4. QED
      BY <1>1, <2>2, <2>3
  <1>8. DelayAt(v) = e /\ MinGap = g
    BY DEF DelayAt, MinGap, m
  <1> HIDE DEF e, g
  <1>9. m * e \in Int /\ m * e <= Second /\ Second < (m * e) + m
    BY <1>1, <1>5, <1>6, Z3
  <1>10. g <= e
    <2> SUFFICES ASSUME e + 1 <= g PROVE FALSE
      BY <1>6, <1>7
    <2> DEFINE x == m * e
               y == g * m
    <2>1. x + m <= y /\ x \in Int /\ y \in Int
      <3>1. (e + 1) * m <= g * m /\ (e + 1) * m = (m * e) + m
        BY <1>5, <1>6, <1>7, TimesMonotonic, Z3
      <3>2. QED
        BY <1>5, <1>6, <1>7, <3>1, Z3
    <2>2. CASE g <= 0
      <3>1. g * Rps <= 0 * Rps /\ g * Rps = Rps * g /\ 0 * Rps = 0
        BY <1>1, <1>7, <2>2, TimesMonotonic, Z3
      <3>2. QED
        BY <1>1, <1>7, <3>1
    <2>3. CASE 1 <= g
      <3>1. m * g <= Rps * g
        <4>1. g * m <= g * Rps
          BY <1>1, <1>5, <1>7, <2>3, Z3
        <4>2. QED
          BY <1>1, <1>5, <1>7, <4>1, Z3
      <3>2. y <= Second
        BY <1>1, <1>5, <1>7, <3>1, Z3
      <3>3. Second < x + m
        BY <1>9
      <3> HIDE DEF x, y
      <3>4. QED
        BY <1>1, <1>5, <2>1, <3>2, <3>3
    <2>4. QED
      BY <1>7, <2>2, <2>3
  <1>11. e \in 1 .. Second
    <2>1. CASE e <= 0
      <3>1. m * e <= 0
        <4>1. e * m <= 0 * m /\ e * m = m * e /\ 0 * m = 0
          BY <1>5, <1>6, <2>1, TimesMonotonic, Z3
        <4>2. QED
          BY <4>1
      <3>2. g <= 0
        BY <1>6, <1>7, <1>10, <2>1
      <3>3. Rps * g <= 0
        BY <1>1, <1>7, <3>2, Z3
      <3>4. QED
        BY <1>1, <1>7, <3>3
    <2>2. CASE 1 <= e
      <3>1. e <= m * e
        BY <1>5, <1>6, <2>2, Z3
      <3>2. QED
        BY <1>1, <1>6, <1>9, <2>2, <3>1
    <2>3. QED
      BY <1>6, <2>1, <2>2
  <1>12. QED
    BY <1>8, <1>10, <1>11

\* Rps delays make a second.
LEMMA GapsOfSecond ==
    /\ MinGap \in Nat /\ Rps * MinGap = Second
    /\ Second \in Nat \ {0} /\ Rps \in Nat \ {0}
  <1>1. Second \in Nat \ {0} /\ Rps \in Nat \ {0} /\ Second % Rps = 0
    BY RateAssumption
  <1> DEFINE g == Second \div Rps
  <1>2. g \in Int /\ Second = Rps * g + (Second % Rps)
    BY <1>1, DivMod
  <1> HIDE DEF g
  <1>3. Rps * g = Second /\ g \in Nat
    BY <1>1, <1>2, Z3
  <1>4. QED
    BY <1>1, <1>3 DEF MinGap, g

\* The rates in units, and the cap on ages.
LEMMA Rates ==
    /\ OneRps \in Nat \ {0} /\ rpsMin = OneRps /\ rpsDownStep = OneRps
    /\ RateMax \in Nat /\ rpsMin <= RateMax
    /\ OldAge \in Nat /\ OldAge = RateMax - rpsMin
  <1>1. Second \in Nat \ {0} /\ Rps \in Nat \ {0}
    BY RateAssumption
  <1>2. OneRps \in Nat \ {0}
    BY <1>1 DEF OneRps
  <1>3. RateMax \in Nat /\ OneRps <= RateMax
    <2>1. 1 * OneRps <= Rps * OneRps /\ 1 * OneRps = OneRps
          /\ Rps * OneRps \in Nat
      BY <1>1, <1>2, TimesMonotonic, Z3
    <2>2. QED
      BY <2>1 DEF RateMax
  <1>4. QED
    BY <1>2, <1>3 DEF rpsMin, rpsDownStep, OldAge

(* The invariant. *)

LEMMA InitReg == Init => RegInv
  <1> SUFFICES ASSUME Init PROVE RegInv
    OBVIOUS
  <1>1. /\ Second \in Nat \ {0} /\ Rps \in Nat \ {0}
        /\ RateMax \in rpsMin .. RateMax /\ OldAge \in Nat
        /\ RateMax \in Nat /\ rpsMin \in Nat /\ OldAge + rpsMin = RateMax
    BY Rates, GapsOfSecond
  <1>2. DelayAt(RateMax) \in 1 .. Second
    BY <1>1, DelayBounds
  <1>3. RegType
    <2>1. /\ full \in BOOLEAN /\ ding \in BOOLEAN
          /\ closing \in BOOLEAN /\ releasing \in BOOLEAN
      BY Zenon DEF Init
    <2>2. TypeOK
      BY <1>1, <1>2, <2>1 DEF Init, TypeOK
    <2>3. recent \in [0 .. Rps -> 0 .. Second]
      BY <1>1 DEF Init
    <2>4. QED
      BY <1>1, <2>1, <2>2, <2>3 DEF Init, RegType
  <1>4. NeverStuck /\ TimerHeard /\ DelayKept
    BY DEF Init, NeverStuck, TimerHeard, DelayKept, Never, Off
  <1>5. Spaced
    BY <1>1 DEF Init, Spaced
  <1>6. RateCovered
    BY <1>1 DEF Init, RateCovered, Covered
  <1>7. QED
    BY <1>3, <1>4, <1>5, <1>6 DEF RegInv

LEMMA TickReg == RegInv /\ Tick => RegInv'
  <1> SUFFICES ASSUME RegInv, Tick PROVE RegInv'
    OBVIOUS
  <1>1. /\ Second \in Nat \ {0} /\ Rps \in Nat \ {0} /\ MinGap \in Nat
        /\ RateMax \in Nat /\ rpsMin \in Nat
        /\ OldAge \in Nat /\ OldAge + rpsMin = RateMax
    BY Rates, GapsOfSecond
  <1>2. RegType'
    BY <1>1 DEF RegInv, RegType, TypeOK, Tick, Older, Never, Off
  <1>3. NeverStuck' /\ TimerHeard'
    BY DEF RegInv, RegType, TypeOK, NeverStuck, TimerHeard, Tick, Never, Off
  <1>4. DelayKept'
    <2>1. minDelay' = DelayAt(val)'
      BY DEF RegInv, DelayKept, Tick, DelayAt
    <2>2. sinceReq >= minDelay => sinceReq' >= minDelay'
      BY <1>1 DEF RegInv, RegType, TypeOK, Tick, Older
    <2>3. ASSUME timer \in 0 .. Second, timer + sinceReq >= minDelay
          PROVE  timer' \in 0 .. Second /\ timer' + sinceReq' >= minDelay'
      BY <1>1, <2>3 DEF RegInv, RegType, TypeOK, Tick, Older
    <2>4. full' = full /\ pc' = pc
      BY DEF Tick
    <2>5. QED
      BY <2>1, <2>2, <2>3, <2>4 DEF RegInv, DelayKept
  <1>5. Spaced'
    <2> SUFFICES ASSUME NEW k \in 0 .. Rps
                 PROVE  LET since == IF pc' = "call" THEN 0 ELSE sinceReq'
                        IN  \/ recent'[k] >= Second
                            \/ recent'[k] >= (k * MinGap) + since
      BY DEF Spaced, MinGap
    <2> DEFINE x == k * MinGap
    <2>1. x \in Nat
      BY <1>1, Z3
    <2> HIDE DEF x
    <2>2. recent'[k] = Older(recent[k], Second)
      BY DEF Tick
    <2>3. recent[k] >= Second
              \/ recent[k] >= x + (IF pc = "call" THEN 0 ELSE sinceReq)
      BY DEF RegInv, Spaced, x
    <2>4. recent[k] \in 0 .. Second /\ sinceReq \in 0 .. Second
      BY DEF RegInv, RegType, TypeOK
    <2>5. sinceReq' \in 0 .. sinceReq + 1 /\ pc' = pc
      BY <2>4 DEF Tick, Older
    <2>6. recent'[k] >= Second
              \/ recent'[k] >= x + (IF pc' = "call" THEN 0 ELSE sinceReq')
      BY <1>1, <2>1, <2>2, <2>3, <2>4, <2>5 DEF Older
    <2>7. QED
      BY <2>6 DEF x
  <1>6. RateCovered'
    BY <1>1 DEF RegInv, RegType, TypeOK, RateCovered, Covered, Tick, Older
  <1>7. QED
    BY <1>2, <1>3, <1>4, <1>5, <1>6 DEF RegInv

\* The steps that leave the rate, the requests and their ages alone.
LEMMA SpacedKept ==
    ASSUME RegInv, UNCHANGED <<worker, sinceReq, val, last, low, sinceLow, recent>>,
           pc # "call", pc' # "call"
    PROVE  Spaced' /\ RateCovered'
  BY DEF RegInv, Spaced, RateCovered, MinGap

LEMMA FireReg == RegInv /\ Fire => RegInv'
  <1> SUFFICES ASSUME RegInv, Fire PROVE RegInv'
    OBVIOUS
  <1>1. full' \in BOOLEAN
    BY Zenon DEF Fire
  <1>2. RegType'
    BY <1>1 DEF RegInv, RegType, TypeOK, Fire, rateVars, history
  <1>3. NeverStuck' /\ TimerHeard'
    BY DEF RegInv, NeverStuck, TimerHeard, Fire, Off
  <1>4. DelayKept'
    BY DEF RegInv, RegType, TypeOK, TimerHeard, DelayKept, DelayAt, Fire, rateVars,
           Off
  <1>5. Spaced' /\ RateCovered'
    BY DEF RegInv, Spaced, RateCovered, MinGap, Fire, rateVars, history
  <1>6. QED
    BY <1>2, <1>3, <1>4, <1>5 DEF RegInv

\* A wait begins with a timer set to what is left of the delay, or with none.
LEMMA BeginWaitReg == RegInv /\ BeginWait => RegInv'
  <1> SUFFICES ASSUME RegInv, BeginWait PROVE RegInv'
    OBVIOUS
  <1>1. /\ pc = "loop"
        /\ UNCHANGED <<worker, closing, releasing, sinceReq, minDelay, val, last,
                       low, sinceLow, recent>>
    BY DEF BeginWait, rateVars, history
  <1>2. Spaced' /\ RateCovered'
    <2>1. pc' # "call"
      BY DEF BeginWait, SetTimer
    <2>2. QED
      BY <1>1, <2>1, SpacedKept
  <1>3. CASE sinceReq >= minDelay
    <2>1. pc' = "manipulate" /\ UNCHANGED <<timer, full, ding>>
      BY <1>3 DEF BeginWait, timerVars
    <2>2. RegType' /\ NeverStuck' /\ TimerHeard' /\ DelayKept'
      BY <1>1, <1>3, <2>1 DEF RegInv, RegType, TypeOK, NeverStuck, TimerHeard,
                              DelayKept, DelayAt
    <2>3. QED
      BY <1>2, <2>2 DEF RegInv
  <1>4. CASE ~(sinceReq >= minDelay)
    <2> DEFINE d == minDelay - sinceReq
    <2>1. SetTimer(d)
      BY <1>4 DEF BeginWait
    <2>2. d \in 1 .. Second
      BY <1>4, GapsOfSecond DEF RegInv, RegType, TypeOK
    <2>3. ding \/ timer # Off \/ full
      BY <1>1 DEF RegInv, TimerHeard
    <2>4. pc' = "wait" /\ timer' = d /\ ding' = FALSE
          /\ full' = (full /\ (ding \/ timer # Off))
      BY <2>1, <2>3, Zenon DEF SetTimer
    <2>5. ~full' /\ full' \in BOOLEAN /\ ~ding' /\ ding' \in BOOLEAN
      <3>1. ~(full /\ (ding \/ timer # Off))
        BY DEF RegInv, TimerHeard
      <3>2. full' = FALSE
        BY <2>4, <3>1, Zenon
      <3>3. QED
        BY <2>4, <3>2, Zenon
    <2> HIDE DEF d
    <2>6. RegType'
      BY <1>1, <2>2, <2>4, <2>5 DEF RegInv, RegType, TypeOK
    <2>7. NeverStuck' /\ TimerHeard'
      BY <2>2, <2>4, <2>5 DEF NeverStuck, TimerHeard, Off
    <2>8. DelayKept'
      <3>1. timer' \in 0 .. Second /\ timer' + sinceReq >= minDelay
        BY <2>2, <2>4 DEF RegInv, RegType, TypeOK, d
      <3>2. QED
        BY <1>1, <2>4, <3>1 DEF RegInv, DelayKept, DelayAt
    <2>9. QED
      BY <1>2, <2>6, <2>7, <2>8 DEF RegInv
  <1>5. QED
    BY <1>3, <1>4

\* The worker receives the timer's value, and waited for the whole delay.
LEMMA WaitTimerReg == RegInv /\ WaitTimer => RegInv'
  <1> SUFFICES ASSUME RegInv, WaitTimer PROVE RegInv'
    OBVIOUS
  <1>1. /\ pc = "wait" /\ full /\ pc' = "manipulate"
        /\ UNCHANGED <<worker, closing, releasing, sinceReq, timer, minDelay, val,
                       last, low, sinceLow, recent>>
    BY DEF WaitTimer, rateVars, history
  <1>2. full' \in BOOLEAN /\ ~full' /\ ding' \in BOOLEAN /\ ding'
    BY Zenon DEF WaitTimer
  <1>3. RegType'
    BY <1>1, <1>2 DEF RegInv, RegType, TypeOK
  <1>4. NeverStuck' /\ TimerHeard'
    BY <1>1, <1>2 DEF RegInv, NeverStuck, TimerHeard
  <1>5. DelayKept'
    BY <1>1 DEF RegInv, TimerHeard, DelayKept, DelayAt, Off
  <1>6. Spaced' /\ RateCovered'
    BY <1>1, SpacedKept
  <1>7. QED
    BY <1>3, <1>4, <1>5, <1>6 DEF RegInv

\* What only moves the worker on, between its points that are no wait and make
\* no request, or closes the manager.
LEMMA MoveReg ==
    ASSUME RegInv, UNCHANGED <<worker, sinceReq, timer, full, ding, rateVars, history>>,
           pc' \in {pc, "loop", "dead"}, closing' \in BOOLEAN, releasing' \in BOOLEAN,
           pc' # pc => pc \notin {"call", "done"}
    PROVE  RegInv'
  <1>1. RegType'
    BY DEF RegInv, RegType, TypeOK, rateVars, history
  <1>2. NeverStuck' /\ TimerHeard' /\ DelayKept'
    BY DEF RegInv, NeverStuck, TimerHeard, DelayKept, DelayAt, rateVars
  <1>3. Spaced' /\ RateCovered'
    BY DEF RegInv, Spaced, RateCovered, MinGap, rateVars, history
  <1>4. QED
    BY <1>1, <1>2, <1>3 DEF RegInv

LEMMA MovesReg ==
    RegInv /\ (WaitCancelled \/ WaitClosing \/ Close \/ Skip \/ EndLoop) => RegInv'
  <1> SUFFICES ASSUME RegInv,
                      WaitCancelled \/ WaitClosing \/ Close \/ Skip \/ EndLoop
               PROVE  RegInv'
    OBVIOUS
  <1>1. UNCHANGED <<worker, sinceReq, timer, full, ding, rateVars, history>>
    BY DEF WaitCancelled, WaitClosing, Close, Skip, EndLoop, timerVars
  <1>2. closing' \in BOOLEAN /\ releasing' \in BOOLEAN
    <2>1. closing \in BOOLEAN /\ releasing \in BOOLEAN
      BY DEF RegInv, RegType
    <2>2. QED
      BY <2>1, Zenon DEF WaitCancelled, WaitClosing, Close, Skip, EndLoop
  <1>3. /\ pc' \in {pc, "loop", "dead"}
        /\ pc' # pc => pc \notin {"call", "done"}
    BY DEF WaitCancelled, WaitClosing, Close, Skip, EndLoop
  <1>4. QED
    BY <1>1, <1>2, <1>3, MoveReg

\* A request starts: the rate allows it, so it is a gap after the one before.
LEMMA RequestReg == RegInv /\ Request => RegInv'
  <1> SUFFICES ASSUME RegInv, Request PROVE RegInv'
    OBVIOUS
  <1>1. /\ pc = "manipulate" /\ pc' = "call"
        /\ UNCHANGED <<worker, closing, releasing, sinceReq, timer, full, ding,
                       minDelay, val, last, low, sinceLow>>
        /\ recent' = [k \in 0 .. Rps |-> IF k = 0 THEN 0 ELSE recent[k - 1]]
    BY DEF Request, timerVars, rateVars
  <1>2. /\ Second \in Nat \ {0} /\ Rps \in Nat \ {0} /\ MinGap \in Nat
    BY GapsOfSecond
  <1>3. recent \in [0 .. Rps -> 0 .. Second]
    BY DEF RegInv, RegType
  <1>4. recent' \in [0 .. Rps -> 0 .. Second]
    BY <1>1, <1>2, <1>3
  <1>5. RegType'
    BY <1>1, <1>4 DEF RegInv, RegType, TypeOK
  <1>6. NeverStuck' /\ TimerHeard' /\ DelayKept' /\ RateCovered'
    BY <1>1 DEF RegInv, NeverStuck, TimerHeard, DelayKept, DelayAt, RateCovered
  <1>7. sinceReq \in 0 .. Second /\ MinGap <= sinceReq
    <2>1. val \in rpsMin .. RateMax /\ sinceReq \in 0 .. Second
          /\ sinceReq >= DelayAt(val)
      BY <1>1 DEF RegInv, RegType, TypeOK, DelayKept
    <2>2. QED
      BY <1>2, <2>1, DelayBounds
  <1>8. ASSUME NEW k \in 0 .. Rps
        PROVE  recent'[k] >= Second \/ recent'[k] >= k * MinGap
    <2>1. CASE k = 0
      <3>1. 0 * MinGap = 0 /\ recent'[k] = 0
        BY <1>1, <1>2, <2>1, Z3
      <3>2. QED
        BY <2>1, <3>1
    <2>2. CASE k # 0
      <3> DEFINE j == k - 1
                 x == j * MinGap
                 y == k * MinGap
      <3>1. j \in 0 .. Rps /\ x \in Int /\ y \in Int /\ y = x + MinGap
        BY <1>2, <2>2, Z3
      <3>2. recent[j] >= Second \/ recent[j] >= x + sinceReq
        BY <1>1, <3>1 DEF RegInv, Spaced
      <3>3. recent'[k] = recent[j] /\ recent[j] \in 0 .. Second
        BY <1>1, <1>2, <1>3, <2>2
      <3> HIDE DEF x, j, y
      <3>4. recent'[k] >= Second \/ recent'[k] >= y
        BY <1>2, <1>7, <3>1, <3>2, <3>3
      <3>5. QED
        BY <3>4 DEF y
    <2>3. QED
      BY <2>1, <2>2
  <1>9. Spaced'
    <2> SUFFICES ASSUME NEW k \in 0 .. Rps
                 PROVE  \/ recent'[k] >= Second
                        \/ recent'[k] >= (k * MinGap) + 0
      BY <1>1 DEF Spaced, MinGap
    <2>1. k * MinGap \in Int
      BY <1>2, Z3
    <2>2. QED
      BY <1>8, <2>1
  <1>10. QED
    BY <1>5, <1>6, <1>9 DEF RegInv

\* A request has returned: the gaps count from now on.
LEMMA SpacedAtReturn ==
    ASSUME RegInv, pc = "call", pc' = "loop", sinceReq' = 0, UNCHANGED recent
    PROVE  Spaced'
  BY DEF RegInv, Spaced, MinGap

\* What the adapter makes of its rate: one it knows the delay of, and a time
\* it has used up.
RateOK ==
    /\ val' \in rpsMin .. RateMax /\ last' \in 0 .. OldAge
    /\ minDelay' = DelayAt(val')

LEMMA DecreaseOK ==
    ASSUME RegInv, Decrease
    PROVE  RateOK /\ last' = 0
  <1>1. /\ RateMax \in Nat /\ rpsMin \in Nat /\ rpsMin <= RateMax
        /\ rpsDownStep \in Nat /\ OldAge \in Nat
    BY Rates
  <1>2. val \in rpsMin .. RateMax /\ minDelay = DelayAt(val)
    BY DEF RegInv, RegType, TypeOK, DelayKept
  <1>3. val' \in rpsMin .. RateMax /\ last' = 0
    BY <1>1, <1>2 DEF Decrease
  <1>4. minDelay' = DelayAt(val')
    BY <1>2 DEF Decrease
  <1>5. QED
    BY <1>1, <1>3, <1>4 DEF RateOK

LEMMA IncreaseOK ==
    ASSUME RegInv, Increase
    PROVE  /\ RateOK
           /\ \/ UNCHANGED rateVars
              \/ last' = 0 /\ val' <= val + last
  <1>1. /\ RateMax \in Nat /\ rpsMin \in Nat /\ rpsMin <= RateMax
        /\ OldAge \in Nat
    BY Rates
  <1>2. /\ val \in rpsMin .. RateMax /\ minDelay = DelayAt(val)
        /\ last \in 0 .. OldAge
    BY DEF RegInv, RegType, TypeOK, DelayKept
  <1>3. CASE val < RateMax
    BY <1>1, <1>2, <1>3 DEF Increase, RateOK
  <1>4. CASE ~(val < RateMax)
    <2>1. UNCHANGED rateVars
      BY <1>4 DEF Increase
    <2>2. QED
      BY <1>2, <2>1 DEF RateOK, rateVars
  <1>5. QED
    BY <1>3, <1>4

\* What a returned request leaves of the invariant.
LEMMA ReturnReg ==
    ASSUME RegInv, pc = "call", pc' = "loop", sinceReq' = 0, RateOK,
           low' \in rpsMin .. RateMax, sinceLow' \in 0 .. OldAge,
           RateCovered',
           UNCHANGED <<worker, closing, releasing, timer, full, ding, recent>>
    PROVE  RegInv'
  <1>1. Second \in Nat \ {0}
    BY GapsOfSecond
  <1>2. minDelay' \in 1 .. Second
    BY DelayBounds DEF RateOK
  <1>3. RegType'
    BY <1>1, <1>2 DEF RegInv, RegType, TypeOK, RateOK
  <1>4. NeverStuck' /\ TimerHeard'
    BY DEF RegInv, NeverStuck, TimerHeard
  <1>5. DelayKept'
    BY DEF DelayKept, RateOK, DelayAt
  <1>6. QED
    BY <1>3, <1>4, <1>5, SpacedAtReturn DEF RegInv

LEMMA ThrottledReg == RegInv /\ Throttled => RegInv'
  <1> SUFFICES ASSUME RegInv, Throttled PROVE RegInv'
    OBVIOUS
  <1>1. /\ pc = "call" /\ pc' = "loop" /\ sinceReq' = 0
        /\ low' = val' /\ sinceLow' = 0
        /\ UNCHANGED <<worker, closing, releasing, timer, full, ding, recent>>
    BY DEF Throttled, timerVars
  <1>2. /\ RateMax \in Nat /\ rpsMin \in Nat /\ OldAge \in Nat
    BY Rates
  <1>3. CASE worker.adapts
    <2>1. RateOK /\ last' = 0
      BY <1>3, DecreaseOK DEF Throttled
    <2>2. PICK v \in Int : v = val'
      BY <1>2, <2>1 DEF RateOK
    <2>3. Covered(v, 0, v, 0)
      BY DEF Covered
    <2>4. RateCovered'
      BY <1>1, <1>3, <2>1, <2>2, <2>3 DEF RateCovered
    <2>5. QED
      BY <1>1, <1>2, <2>1, <2>4, ReturnReg DEF RateOK
  <1>4. CASE ~worker.adapts
    <2>1. UNCHANGED <<minDelay, val, last>>
      BY <1>4 DEF Throttled, rateVars
    <2>2. RateOK
      BY <2>1 DEF RateOK, RegInv, RegType, TypeOK, DelayKept
    <2>3. RateCovered'
      BY <1>1, <1>4, <2>1 DEF RegInv, RateCovered
    <2>4. QED
      BY <1>1, <1>2, <2>2, <2>3, ReturnReg DEF RateOK
  <1>5. QED
    BY <1>3, <1>4

LEMMA AnsweredReg == RegInv /\ Answered => RegInv'
  <1> SUFFICES ASSUME RegInv, Answered PROVE RegInv'
    OBVIOUS
  <1>1. /\ pc = "call" /\ pc' = "loop" /\ sinceReq' = 0
        /\ UNCHANGED <<worker, closing, releasing, timer, full, ding, recent, low,
                       sinceLow>>
    BY DEF Answered, timerVars, history
  <1>2. /\ RateMax \in Nat /\ rpsMin \in Nat /\ OldAge \in Nat
        /\ low \in rpsMin .. RateMax /\ sinceLow \in 0 .. OldAge
        /\ val \in rpsMin .. RateMax /\ last \in 0 .. OldAge
    BY Rates DEF RegInv, RegType, TypeOK
  <1>3. CASE UNCHANGED rateVars
    <2>1. RateOK
      BY <1>3 DEF RateOK, RegInv, RegType, TypeOK, DelayKept, rateVars
    <2>2. RateCovered'
      BY <1>1, <1>3 DEF RegInv, RateCovered, rateVars
    <2>3. QED
      BY <1>1, <1>2, <2>1, <2>2, ReturnReg
  <1>4. CASE ~UNCHANGED rateVars
    <2>1. worker.adapts /\ Increase
      BY <1>4 DEF Answered
    <2>2. RateOK /\ last' = 0 /\ val' <= val + last
      BY <1>4, <2>1, IncreaseOK
    <2>3. RateCovered'
      <3>1. PICK v \in Int : v = val' /\ v <= val + last
        BY <1>2, <2>2 DEF RateOK
      <3>2. Covered(val, last, low, sinceLow)
        BY <2>1 DEF RegInv, RateCovered
      <3>3. Covered(v, 0, low, sinceLow)
        <4>1. /\ v \in Int /\ val \in Int /\ last \in Int /\ low \in Int
              /\ sinceLow \in Int
          BY <1>2
        <4>2. v <= val + last
          BY <3>1
        <4>3. QED
          BY <3>2, <4>1, <4>2 DEF Covered
      <3>4. QED
        BY <1>1, <2>1, <2>2, <3>1, <3>3 DEF RateCovered
    <2>4. QED
      BY <1>1, <1>2, <2>2, <2>3, ReturnReg
  <1>5. QED
    BY <1>3, <1>4

LEMMA EndShutdownReg == RegInv /\ EndShutdown => RegInv'
  <1> SUFFICES ASSUME RegInv, EndShutdown PROVE RegInv'
    OBVIOUS
  <1>1. RegType'
    BY DEF RegInv, RegType, TypeOK, EndShutdown, rateVars, history
  <1>2. NeverStuck' /\ TimerHeard' /\ DelayKept'
    BY DEF RegInv, NeverStuck, TimerHeard, DelayKept, DelayAt, EndShutdown, rateVars
  <1>3. Spaced' /\ RateCovered'
    BY DEF RegInv, Spaced, RateCovered, MinGap, EndShutdown, rateVars, history
  <1>4. QED
    BY <1>1, <1>2, <1>3 DEF RegInv

\* For every Rps: what the timer holds, what minDelay says of the rate, and how
\* far apart the recent requests are, in the form that every step preserves.
THEOREM RegulatorInvariant == Spec => []RegInv
  <1>1. RegInv /\ [Next]_regVars => RegInv'
    <2> SUFFICES ASSUME RegInv, [Next]_regVars PROVE RegInv'
      OBVIOUS
    <2>1. CASE UNCHANGED regVars
      BY <2>1 DEF regVars, timerVars, rateVars, history, RegInv, RegType, TypeOK,
                  NeverStuck, TimerHeard, DelayKept, DelayAt, Spaced, RateCovered,
                  MinGap
    <2>2. QED
      BY <2>1, TickReg, FireReg, BeginWaitReg, WaitTimerReg, MovesReg,
         RequestReg, ThrottledReg, AnsweredReg, EndShutdownReg DEF Next
  <1>2. QED
    BY <1>1, InitReg, PTL DEF Spec

(* What follows from it. *)

\* For every Rps: the adapted rate stays between one request per second and
\* Rps, and the delay made of it is never zero and never above a second.
THEOREM RegulatorType == Spec => []TypeOK
  <1>1. RegInv => TypeOK
    BY DEF RegInv, RegType
  <1>2. QED
    BY <1>1, RegulatorInvariant, PTL

\* For every Rps: setTimer, whatever was left of earlier waits, never receives
\* from the channel of a timer whose value was received already.
THEOREM NoStuckWorker == Spec => []NeverStuck
  <1>1. RegInv => NeverStuck
    BY DEF RegInv
  <1>2. QED
    BY <1>1, RegulatorInvariant, PTL

\* For every Rps: no more than Rps requests start in any one second, while
\* the rate adapts, while waits are cut short, and in shutdown.
THEOREM RateLimit == Spec => []RequestsPerSecond
  <1>1. RegInv => RequestsPerSecond
    <2> SUFFICES ASSUME RegInv PROVE RequestsPerSecond
      OBVIOUS
    <2>1. /\ Rps * MinGap = Second /\ Rps \in 0 .. Rps /\ Second \in Nat
      BY GapsOfSecond
    <2>2. recent[Rps] \in 0 .. Second /\ sinceReq \in 0 .. Second
      BY <2>1 DEF RegInv, RegType, TypeOK
    <2>3. \/ recent[Rps] >= Second
          \/ recent[Rps] >= (Rps * MinGap)
                                + (IF pc = "call" THEN 0 ELSE sinceReq)
      BY <2>1 DEF RegInv, Spaced
    <2>4. recent[Rps] = Second
      BY <2>1, <2>2, <2>3
    <2>5. QED
      BY <2>4 DEF RequestsPerSecond
  <1>2. QED
    BY <1>1, RegulatorInvariant, PTL

\* For every Rps: after throttling, the rate recovers by half a request per
\* second in a second at the most, whatever throttled and successful requests
\* it took to get there.
THEOREM SlowRecovery == Spec => []RecoversSlowly
  <1>1. RegInv => RecoversSlowly
    <2> SUFFICES ASSUME RegInv PROVE RecoversSlowly
      OBVIOUS
    <2>1. /\ RateMax \in Nat /\ rpsMin \in Nat /\ OldAge = RateMax - rpsMin
          /\ low \in rpsMin .. RateMax /\ sinceLow \in 0 .. OldAge
          /\ val \in rpsMin .. RateMax /\ last \in 0 .. OldAge
      BY Rates DEF RegInv, RegType, TypeOK
    <2>2. CASE worker.adapts
      BY <2>1, <2>2 DEF RegInv, RateCovered, Covered, RecoversSlowly
    <2>3. CASE ~worker.adapts
      BY <2>1, <2>3 DEF RegInv, RateCovered, RecoversSlowly
    <2>4. QED
      BY <2>2, <2>3
  <1>2. QED
    BY <1>1, RegulatorInvariant, PTL

\* For every Rps: every request waits for the delay of the rate in force at
\* that moment, which minDelay copies.
THEOREM PacedRequests == Spec => Paced
  <1>1. RegInv /\ [Next]_regVars => [Request => sinceReq >= DelayAt(val)]_regVars
    BY DEF RegInv, DelayKept, Request
  <1>2. QED
    BY <1>1, RegulatorInvariant, PTL DEF Spec, Paced
=============================================================================
