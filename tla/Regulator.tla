----------------------------- MODULE Regulator -----------------------------
(***************************************************************************)
(* A worker's rate limit: the regulator and its timer (regulator.go), the  *)
(* adapter of the request rate (adapter.go), and what a worker does with   *)
(* them.  Chunks and the answers of the service are abstracted.            *)
(*                                                                         *)
(* Time goes in ticks, Second ticks to a second.  A rate is a number of    *)
(* units, so that rpsUpPerS, half a request per second gained in a second, *)
(* is one unit per tick.                                                   *)
(*                                                                         *)
(* Timers are those of Go before 1.23 (go.mod says 1.14): a timer that has *)
(* fired keeps its value in its channel until somebody receives it.        *)
(***************************************************************************)
EXTENDS Integers

CONSTANTS
    Second,  \* ticks in a second
    Rps      \* the rate the regulator was made with, in requests per second

ASSUME RateAssumption ==
    /\ Second \in Nat \ {0} /\ Rps \in Nat \ {0}
    /\ Second % Rps = 0

OneRps == 2 * Second        \* one request per second, in units
rpsMin == OneRps
rpsDownStep == OneRps
RateMax == Rps * OneRps

VARIABLES
    worker,    \* which worker: whether it is the stopper, and adapts its rate
    pc,        \* where the worker is in its loop
    closing,   \* the close channel is closed
    releasing, \* the worker is in shutdown
    sinceReq,  \* the age of lastReq, a second or older being the same
    minDelay,
    timer,     \* ticks until the timer fires, or one of Never and Off
    full,      \* the timer's channel holds a value
    ding,
    val,       \* the adapter's value
    last,      \* the age of the adapter's last, capped
    low,       \* history: the rate after the last throttling
    sinceLow,  \* history: the age of the last throttling, capped
    recent     \* history: the ages of the last Rps + 1 requests, newest
               \* first, a second or older, or no request, being the same

\* A timer set to 1<<63 - 1, and one that fired or was stopped.
Never == -2
Off == -1

timerVars == <<timer, full, ding>>
rateVars == <<minDelay, val, last>>
history == <<low, sinceLow, recent>>
regVars == <<worker, pc, closing, releasing, sinceReq, timerVars, rateVars,
             history>>

\* Ages beyond this give any rate the time to recover.
OldAge == RateMax - rpsMin

\* setMinDelay, with the rate v; time.Duration(v) truncates.
DelayAt(v) == Second \div (v \div OneRps)

Init ==
    /\ worker \in [stops : BOOLEAN, adapts : BOOLEAN]
    /\ pc = "loop" /\ closing = FALSE /\ releasing = FALSE
    /\ sinceReq = Second
    /\ timer = Never /\ full = FALSE /\ ding = FALSE
    /\ val = RateMax /\ last = 0 /\ minDelay = DelayAt(RateMax)
    /\ low = RateMax /\ sinceLow = OldAge
    /\ recent = [k \in 0 .. Rps |-> Second]

(* Time. *)

Older(age, cap) == IF age < cap THEN age + 1 ELSE age

Tick ==
    /\ sinceReq' = Older(sinceReq, Second)
    /\ last' = Older(last, OldAge)
    /\ sinceLow' = Older(sinceLow, OldAge)
    /\ timer' = IF timer > 0 THEN timer - 1 ELSE timer
    /\ recent' = [k \in 0 .. Rps |-> Older(recent[k], Second)]
    /\ UNCHANGED <<worker, pc, closing, releasing, full, ding, minDelay, val, low>>

Fire ==
    /\ timer = 0
    /\ timer' = Off /\ full' = TRUE
    /\ UNCHANGED <<worker, pc, closing, releasing, sinceReq, ding, rateVars,
                   history>>

(* The timer. *)

\* Faulty variants of SetTimer: does not empty the channel of a timer that
\* fired unheard, and does not set a timer whose value was received.
SetTimerUndrained(d) ==
    /\ timer' = d /\ ding' = FALSE
    /\ pc' = "wait"
    /\ UNCHANGED full

SetTimerOnce(d) ==
    IF ~ding /\ timer = Off /\ ~full
    THEN pc' = "stuck" /\ UNCHANGED timerVars
    ELSE /\ full' = (full /\ timer # Off)
         /\ timer' = IF ding THEN timer ELSE d
         /\ ding' = FALSE
         /\ pc' = "wait"

\* setTimer, with d > 0.  Stop is false of a timer that is off; its channel is
\* then received from, for ever if there is nothing in it.
SetTimer(d) ==
    IF ~ding /\ timer = Off /\ ~full
    THEN pc' = "stuck" /\ UNCHANGED timerVars
    ELSE /\ full' = (full /\ (ding \/ timer # Off))
         /\ timer' = d
         /\ ding' = FALSE
         /\ pc' = "wait"

\* setTimerRPS, and the start of wait.
BeginWait ==
    /\ pc = "loop" /\ (releasing => worker.stops)
    /\ IF sinceReq >= minDelay
       THEN pc' = "manipulate" /\ UNCHANGED timerVars
       ELSE SetTimer(minDelay - sinceReq)
    /\ UNCHANGED <<worker, closing, releasing, sinceReq, rateVars, history>>

\* Faulty variant of WaitTimer: forgets that it received the timer's value.
WaitTimerUnnoted ==
    /\ pc = "wait" /\ full
    /\ full' = FALSE
    /\ pc' = "manipulate"
    /\ UNCHANGED <<worker, closing, releasing, sinceReq, timer, ding, rateVars,
                   history>>

WaitTimer ==
    /\ pc = "wait" /\ full
    /\ full' = FALSE /\ ding' = TRUE
    /\ pc' = "manipulate"
    /\ UNCHANGED <<worker, closing, releasing, sinceReq, timer, rateVars, history>>

\* The chunk's context is done, as its stream is closed; the stopper's never is.
WaitCancelled ==
    /\ pc = "wait" /\ ~releasing /\ ~worker.stops
    /\ pc' = "dead"
    /\ UNCHANGED <<worker, closing, releasing, sinceReq, timerVars, rateVars,
                   history>>

WaitClosing ==
    /\ pc = "wait" /\ ~releasing /\ closing
    /\ pc' = "loop" /\ releasing' = TRUE
    /\ UNCHANGED <<worker, closing, sinceReq, timerVars, rateVars, history>>

(* The adapter. *)

\* Faulty variant of Decrease: takes a throttling at the lowest rate for no
\* change.
DecreaseIfChanged ==
    /\ val' = IF val - rpsDownStep < rpsMin THEN rpsMin ELSE val - rpsDownStep
    /\ last' = IF val' = val THEN last ELSE 0
    /\ minDelay' = IF val' # val THEN DelayAt(val') ELSE minDelay

\* Faulty variant of Decrease: keeps the delay of the old rate.
DecreaseOnly ==
    /\ val' = IF val - rpsDownStep < rpsMin THEN rpsMin ELSE val - rpsDownStep
    /\ last' = 0
    /\ UNCHANGED minDelay

\* Faulty variant of Decrease: has no lower limit.
DecreaseUnlimited ==
    /\ val' = val - rpsDownStep
    /\ last' = 0
    /\ minDelay' = IF val' >= OneRps THEN DelayAt(val') ELSE minDelay

\* throttled, with a standardAdapter.
Decrease ==
    /\ val' = IF val - rpsDownStep < rpsMin THEN rpsMin ELSE val - rpsDownStep
    /\ last' = 0
    /\ minDelay' = IF val' # val THEN DelayAt(val') ELSE minDelay

\* notThrottled, with a standardAdapter.
Increase ==
    IF val < RateMax
    THEN /\ val' = IF val + last > RateMax THEN RateMax ELSE val + last
         /\ last' = 0
         /\ minDelay' = DelayAt(val')
    ELSE UNCHANGED rateVars

(* The worker. *)

Close ==
    /\ ~closing /\ closing' = TRUE
    /\ UNCHANGED <<worker, pc, releasing, sinceReq, timerVars, rateVars, history>>

\* The stream of the chunk is dead: no request is made.
Skip ==
    /\ \/ pc = "manipulate" /\ ~worker.stops
       \/ pc = "dead"
    /\ pc' = "loop"
    /\ UNCHANGED <<worker, closing, releasing, sinceReq, timerVars, rateVars,
                   history>>

Request ==
    /\ pc = "manipulate"
    /\ pc' = "call"
    /\ recent' = [k \in 0 .. Rps |-> IF k = 0 THEN 0 ELSE recent[k - 1]]
    /\ UNCHANGED <<worker, closing, releasing, sinceReq, timerVars, rateVars, low,
                   sinceLow>>

\* The service answered; while it releases chunks the worker ignores what.
Throttled ==
    /\ pc = "call" /\ ~releasing
    /\ IF worker.adapts THEN Decrease ELSE UNCHANGED rateVars
    /\ low' = val' /\ sinceLow' = 0
    /\ sinceReq' = 0
    /\ pc' = "loop"
    /\ UNCHANGED <<worker, closing, releasing, timerVars, recent>>

Answered ==
    /\ pc = "call"
    /\ IF worker.adapts /\ ~releasing THEN Increase ELSE UNCHANGED rateVars
    /\ sinceReq' = 0
    /\ pc' = "loop"
    /\ UNCHANGED <<worker, closing, releasing, timerVars, history>>

\* The worker's channel is closed: shutdown.
EndLoop ==
    /\ pc = "loop" /\ closing /\ ~releasing
    /\ releasing' = TRUE
    /\ UNCHANGED <<worker, pc, closing, sinceReq, timerVars, rateVars, history>>

\* Nothing is left to release.
EndShutdown ==
    /\ pc = "loop" /\ releasing
    /\ pc' = "done"
    /\ timer' = Off
    /\ UNCHANGED <<worker, closing, releasing, sinceReq, full, ding, rateVars,
                   history>>

Next ==
    \/ Tick \/ Fire \/ Close
    \/ BeginWait \/ WaitTimer \/ WaitCancelled \/ WaitClosing
    \/ Skip \/ Request \/ Throttled \/ Answered
    \/ EndLoop \/ EndShutdown

\* Time passes, timers fire, and who can receive a value does.
Fairness == WF_regVars(Tick) /\ WF_regVars(Fire) /\ WF_regVars(WaitTimer)

Spec == Init /\ [][Next]_regVars /\ Fairness

(***************************************************************************)
(* Properties.                                                             *)
(***************************************************************************)

\* The adapted rate stays between one request per second and Rps.
TypeOK ==
    /\ pc \in {"loop", "wait", "dead", "manipulate", "call", "done", "stuck"}
    /\ sinceReq \in 0 .. Second /\ minDelay \in 1 .. Second
    /\ timer \in (0 .. Second) \cup {Never, Off}
    /\ full \in BOOLEAN /\ ding \in BOOLEAN
    /\ val \in rpsMin .. RateMax /\ last \in 0 .. OldAge

\* The worker never waits for the value of a timer that somebody received
\* already, whatever waits were cut short, skipped or resumed at shutdown.
NeverStuck == pc # "stuck"

\* At most Rps requests start in any one second (incite.go:465-472), in
\* shutdown too: no wait is cut short by what an earlier one left behind, and
\* the last request but Rps is always a second old.
RequestsPerSecond == recent[Rps] = Second

\* A request starts no sooner after the last one returned than the rate that
\* is in force at that moment, after throttling and recovery, allows.
Paced == [][Request => sinceReq >= DelayAt(val)]_regVars

\* After throttling the rate recovers by rpsUpPerS at the most, whatever
\* mixture of throttled and successful requests led to it.
RecoversSlowly == val <= low + sinceLow

\* A wait ends, even if nobody cancels it.
WaitsEnd == pc = "wait" ~> pc # "wait"
=============================================================================
