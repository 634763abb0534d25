----------------------------- MODULE IoPolling -----------------------------
(***************************************************************************)
(* The timing of components/io_cache/io_polling.c: one loop polls the      *)
(* discrete inputs and the ADC, each when its interval has elapsed on the  *)
(* 32-bit tick counter, and sleeps in between.  The loop samples the clock *)
(* once; reading the hardware takes time, during which the other poll      *)
(* waits.  What is read is the business of DiscreteIO.                     *)
(*                                                                         *)
(* tick is the counter of the board and wraps; the variables since... are  *)
(* history: the true time since what the code remembers as a tick count.   *)
(***************************************************************************)
EXTENDS Integers

CONSTANTS
    InputsInterval,     \* POLL_INPUTS_INTERVAL_MS
    AdcInterval,        \* POLL_ADC_INTERVAL_MS
    LoopDelay,          \* vTaskDelay at the end of the loop
    MaxInputsTime,      \* longest read of the two input chips
    MaxAdcTime,         \* longest read of all ADC channels
    MaxLag,             \* longest time to be scheduled again after the delay
    TickModulus         \* 2^32 on the board

Longest(a, b) == IF a >= b THEN a ELSE b

\* The longest time between two polls' samples of the clock that the loop can
\* cause: a poll just missed, the other one, the delay, and the poll itself.
Sleep == LoopDelay + MaxLag
FreshInputs == Longest(MaxInputsTime, InputsInterval - 1)
FreshAdc == Longest(MaxAdcTime, AdcInterval - 1) + MaxInputsTime
InputsBound == FreshInputs + MaxAdcTime + Sleep + MaxInputsTime
AdcBound == FreshAdc + Sleep + MaxInputsTime + MaxAdcTime

ASSUME TimesAssumption ==
    /\ InputsInterval \in Nat \ {0} /\ AdcInterval \in Nat \ {0}
    /\ LoopDelay \in Nat \ {0}
    /\ MaxInputsTime \in Nat /\ MaxAdcTime \in Nat /\ MaxLag \in Nat
ASSUME ModulusAssumption ==
    TickModulus \in Nat /\ TickModulus > InputsBound /\ TickModulus > AdcBound

VARIABLES
    tick,           \* xTaskGetTickCount()
    pc,             \* where the loop is
    left,           \* ticks until the activity at pc ends
    now,            \* xNow
    lastInputs,     \* xLastInputsTime
    lastAdc,        \* xLastAdcTime
    sinceNow, sinceInputs, sinceAdc     \* history: true ages of the three

remembered == <<now, lastInputs, lastAdc>>
ages == <<sinceNow, sinceInputs, sinceAdc>>
vars == <<tick, pc, left, remembered, ages>>

Ticks == 0..(TickModulus - 1)

\* Mutant of Elapsed: an age that cannot be negative, but does not wrap.
ElapsedSaturated(later, earlier) == IF later >= earlier THEN later - earlier ELSE 0

\* Unsigned subtraction of tick counts.
Elapsed(later, earlier) ==
    IF later >= earlier THEN later - earlier ELSE later - earlier + TickModulus

TypeOK ==
    /\ tick \in Ticks /\ now \in Ticks /\ lastInputs \in Ticks /\ lastAdc \in Ticks
    /\ pc \in {"sample", "inputs", "between", "adc", "sleep"}
    /\ left \in Nat
    /\ sinceNow \in Nat /\ sinceInputs \in Nat /\ sinceAdc \in Nat

\* The task starts at any moment, hence at any tick count; the two samples
\* before the loop are taken in the same tick.
Init ==
    /\ tick \in Ticks
    /\ now = tick /\ lastInputs = tick /\ lastAdc = tick
    /\ pc = "sample"
    /\ left = 0
    /\ sinceNow = 0 /\ sinceInputs = 0 /\ sinceAdc = 0

\* Time passes while the task reads hardware or sleeps.
Tick ==
    /\ left > 0
    /\ left' = left - 1
    /\ tick' = IF tick = TickModulus - 1 THEN 0 ELSE tick + 1
    /\ sinceNow' = sinceNow + 1
    /\ sinceInputs' = sinceInputs + 1
    /\ sinceAdc' = sinceAdc + 1
    /\ UNCHANGED <<pc, remembered>>

\* Mutant of InputsDue: a signed comparison.
InputsDueSigned == tick - lastInputs >= InputsInterval

InputsDue == Elapsed(tick, lastInputs) >= InputsInterval

\* Mutant of AdcDue: > interval - 1 written as >=.
AdcDueOneEarly == Elapsed(now, lastAdc) >= AdcInterval - 1

AdcDue == Elapsed(now, lastAdc) >= AdcInterval

\* The top of the loop: the clock is sampled, the inputs are read if due.
Sample ==
    /\ pc = "sample"
    /\ now' = tick
    /\ sinceNow' = 0
    /\ \/ InputsDue /\ pc' = "inputs" /\ left' \in 0..MaxInputsTime
       \/ ~InputsDue /\ pc' = "between" /\ left' = 0
    /\ UNCHANGED <<tick, lastInputs, lastAdc, sinceInputs, sinceAdc>>

\* The inputs are in the cache; the poll counts from the sample of the clock.
InputsPolled ==
    /\ pc = "inputs" /\ left = 0
    /\ lastInputs' = now
    /\ sinceInputs' = sinceNow
    /\ pc' = "between"
    /\ UNCHANGED <<tick, left, now, lastAdc, sinceNow, sinceAdc>>

\* Mutant of GoToSleep: pdMS_TO_TICKS rounds the delay down to no tick at all.
GoToSleepNot == pc' = "sleep" /\ left' = 0

\* Sleeping takes the ticks of vTaskDelay, and some more if the core is busy.
GoToSleep == pc' = "sleep" /\ left' \in LoopDelay..Sleep

\* The second half of the loop compares the same sample of the clock.
CheckAdc ==
    /\ pc = "between"
    /\ \/ AdcDue /\ pc' = "adc" /\ left' \in 0..MaxAdcTime
       \/ ~AdcDue /\ GoToSleep
    /\ UNCHANGED <<tick, remembered, ages>>

AdcPolled ==
    /\ pc = "adc" /\ left = 0
    /\ lastAdc' = now
    /\ sinceAdc' = sinceNow
    /\ GoToSleep
    /\ UNCHANGED <<tick, now, lastInputs, sinceNow, sinceInputs>>

WakeUp ==
    /\ pc = "sleep" /\ left = 0
    /\ pc' = "sample"
    /\ UNCHANGED <<tick, left, remembered, ages>>

Loop == Sample \/ InputsPolled \/ CheckAdc \/ AdcPolled \/ WakeUp

Next == Tick \/ Loop

SafeSpec == Init /\ [][Next]_vars

\* The clock runs and the task, the one of highest priority on its core, is
\* scheduled.
Spec == SafeSpec /\ WF_vars(Tick) /\ WF_vars(Loop)

-----------------------------------------------------------------------------
\* The unsigned difference of tick counts is the true elapsed time, also for
\* the poll during which the counter wraps.
ElapsedIsAge ==
    /\ Elapsed(tick, lastInputs) = sinceInputs
    /\ Elapsed(tick, lastAdc) = sinceAdc
    /\ Elapsed(tick, now) = sinceNow

\* No poll is made before its interval has elapsed since the previous one.
NeitherEarly ==
    [][/\ pc = "sample" /\ pc' = "inputs" => sinceInputs >= InputsInterval
       /\ pc = "between" /\ pc' = "adc" => sinceAdc >= AdcInterval]_vars

\* Neither poll starves the other: both are made within their bounds.
NeitherStarves == sinceInputs <= InputsBound /\ sinceAdc <= AdcBound

\* Both polls are made for ever.
PollsForEver == []<>(pc = "inputs") /\ []<>(pc = "adc")

=============================================================================
