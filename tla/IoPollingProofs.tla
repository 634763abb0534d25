--------------------------- MODULE IoPollingProofs ---------------------------
(***************************************************************************)
(* The timing of the polling loop, for every interval, delay and duration  *)
(* and for every width of the tick counter that exceeds the bounds.        *)
(***************************************************************************)
EXTENDS IoPolling, TLAPS

(* The inductive invariant behind the bounds: how old each sample will be  *)
(* when the activity at each point of the loop ends.                       *)

NowAge ==
    /\ pc = "inputs" => sinceNow + left <= MaxInputsTime
    /\ pc = "between" => sinceNow + left <= MaxInputsTime
    /\ pc = "adc" => sinceNow + left <= MaxInputsTime + MaxAdcTime

InputsAge ==
    /\ pc = "between" => sinceInputs + left <= FreshInputs
    /\ pc = "adc" => sinceInputs + left <= FreshInputs + MaxAdcTime
    /\ pc \in {"sleep", "sample"}
         => sinceInputs + left <= FreshInputs + MaxAdcTime + Sleep
    /\ pc = "inputs" => sinceInputs + left <= InputsBound

AdcAge ==
    /\ pc \in {"sleep", "sample"} => sinceAdc + left <= FreshAdc + Sleep
    /\ pc \in {"inputs", "between"}
         => sinceAdc + left <= FreshAdc + Sleep + MaxInputsTime
    /\ pc = "adc" => sinceAdc + left <= AdcBound

IInv ==
    /\ TypeOK
    /\ ElapsedIsAge
    /\ sinceNow <= sinceInputs /\ sinceNow <= sinceAdc
    /\ pc \in {"sample", "between"} => left = 0
    /\ NowAge /\ InputsAge /\ AdcAge

-----------------------------------------------------------------------------
USE TimesAssumption, ModulusAssumption

\* The bounds in terms of the durations they are made of.
LEMMA Bounds ==
    /\ FreshInputs \in Nat /\ FreshAdc \in Nat /\ Sleep \in Nat
    /\ MaxInputsTime <= FreshInputs /\ InputsInterval - 1 <= FreshInputs
    /\ MaxAdcTime + MaxInputsTime <= FreshAdc
    /\ AdcInterval - 1 + MaxInputsTime <= FreshAdc
    /\ LoopDelay <= Sleep
    /\ InputsBound = FreshInputs + MaxAdcTime + Sleep + MaxInputsTime
    /\ AdcBound = FreshAdc + Sleep + MaxInputsTime + MaxAdcTime
    /\ InputsBound \in Nat /\ AdcBound \in Nat
BY DEF FreshInputs, FreshAdc, Sleep, Longest, InputsBound, AdcBound

\* Sums of bounded durations are bounded.
LEMMA SumsBelow ==
    ASSUME NEW a \in Nat, NEW b \in Nat, NEW c \in Nat, NEW d \in Nat, a <= c, b <= d
    PROVE  a + b <= c + d
OBVIOUS

\* A tick later, every tick count that is not a whole turn old is a tick older.
LEMMA ElapsedTicks ==
    ASSUME NEW t \in Ticks, NEW e \in Ticks, Elapsed(t, e) + 1 < TickModulus
    PROVE  LET next == IF t = TickModulus - 1 THEN 0 ELSE t + 1
           IN  next \in Ticks /\ Elapsed(next, e) = Elapsed(t, e) + 1
BY DEF Ticks, Elapsed

\* The difference of two ages is the time between the two tick counts.
LEMMA ElapsedBetween ==
    ASSUME NEW t \in Ticks, NEW n \in Ticks, NEW e \in Ticks,
           Elapsed(t, n) <= Elapsed(t, e)
    PROVE  Elapsed(n, e) = Elapsed(t, e) - Elapsed(t, n)
BY DEF Ticks, Elapsed

\* A sample just taken is of age zero.
LEMMA ElapsedZero == ASSUME NEW t \in Ticks PROVE Elapsed(t, t) = 0
BY DEF Ticks, Elapsed

USE Bounds

\* While the invariant holds, nothing remembered is a whole turn old: the next
\* tick is counted.
LEMMA AgesBelowModulus ==
    ASSUME IInv
    PROVE  /\ sinceInputs + left <= InputsBound
           /\ sinceAdc + left <= AdcBound
           /\ sinceInputs + left < TickModulus
           /\ sinceAdc + left < TickModulus
           /\ sinceNow + left < TickModulus
<1> USE DEF IInv, TypeOK
<1>1. sinceInputs + left <= InputsBound
  BY DEF InputsAge
<1>2. sinceAdc + left <= AdcBound
  BY DEF AdcAge
<1>3. QED
  BY <1>1, <1>2

\* The invariant holds when io_polling_task enters its loop.
THEOREM InitInv == Init => IInv
BY ElapsedZero DEF Init, IInv, TypeOK, ElapsedIsAge, NowAge, InputsAge, AdcAge

\* Every step of the loop and of the clock preserves the invariant.
LEMMA InvStep == IInv /\ [Next]_vars => IInv'
<1> SUFFICES ASSUME IInv, [Next]_vars PROVE IInv'
  OBVIOUS
<1> USE DEF InputsBound, AdcBound, FreshInputs, FreshAdc, Sleep
<1> USE DEF IInv, TypeOK
<1>1. CASE UNCHANGED vars
  BY <1>1 DEF vars, remembered, ages, ElapsedIsAge, NowAge, InputsAge, AdcAge
<1>2. CASE Tick
  <2>1. /\ Elapsed(tick, now) + 1 < TickModulus
        /\ Elapsed(tick, lastInputs) + 1 < TickModulus
        /\ Elapsed(tick, lastAdc) + 1 < TickModulus
    BY <1>2, AgesBelowModulus DEF Tick, ElapsedIsAge
  <2>2. tick' \in Ticks /\ ElapsedIsAge'
    BY <1>2, <2>1, ElapsedTicks DEF Tick, ElapsedIsAge, remembered
  <2>3. TypeOK' /\ sinceNow' <= sinceInputs' /\ sinceNow' <= sinceAdc'
        /\ ~(pc' \in {"sample", "between"})
    BY <1>2, <2>2 DEF Tick, remembered
  <2>4. sinceNow' + left' = sinceNow + left /\ sinceInputs' + left' = sinceInputs + left
        /\ sinceAdc' + left' = sinceAdc + left /\ pc' = pc
    BY <1>2 DEF Tick
  <2>5. NowAge' /\ InputsAge' /\ AdcAge'
    BY <2>4 DEF NowAge, InputsAge, AdcAge
  <2>6. QED
    BY <2>2, <2>3, <2>5
<1>3. CASE Sample
  <2>1. TypeOK' /\ ElapsedIsAge' /\ sinceNow' = 0
    BY <1>3, ElapsedZero DEF Sample, ElapsedIsAge
  <2>2. InputsDue <=> sinceInputs >= InputsInterval
    BY DEF InputsDue, ElapsedIsAge
  <2>3. CASE InputsDue /\ pc' = "inputs" /\ left' \in 0..MaxInputsTime
    <3>1. sinceNow' + left' <= MaxInputsTime
      <4>1. left' \in Nat /\ left' <= MaxInputsTime
        BY <2>3
      <4>2. sinceNow' \in Nat /\ sinceNow' <= 0
        BY <2>1
      <4>3. sinceNow' + left' <= 0 + MaxInputsTime
        BY <4>1, <4>2, SumsBelow
      <4>4. QED
        BY <4>3
    <3>2. /\ sinceInputs <= FreshInputs + MaxAdcTime + Sleep
          /\ sinceInputs' = sinceInputs /\ left' <= MaxInputsTime
      BY <1>3, <2>3 DEF Sample, InputsAge
    <3>3. InputsAge'
      BY <2>1, <2>3, <3>2 DEF InputsAge
    <3>4. AdcAge'
      BY <1>3, <2>1, <2>3 DEF Sample, AdcAge
    <3>5. NowAge'
      BY <2>3, <3>1, Zenon DEF NowAge
    <3>6. QED
      BY <1>3, <2>1, <2>3, <3>3, <3>4, <3>5 DEF Sample
  <2>4. CASE ~InputsDue /\ pc' = "between" /\ left' = 0
    BY <1>3, <2>1, <2>2, <2>4
       DEF Sample, NowAge, InputsAge, AdcAge
  <2>5. QED
    BY <1>3, <2>3, <2>4 DEF Sample
<1>4. CASE InputsPolled
  BY <1>4 DEF InputsPolled, ElapsedIsAge, NowAge, InputsAge, AdcAge
<1>5. CASE CheckAdc
  <2>1. ElapsedIsAge'
    BY <1>5 DEF CheckAdc, remembered, ages, ElapsedIsAge
  <2>2. CASE AdcDue /\ pc' = "adc" /\ left' \in 0..MaxAdcTime
    <3>1. /\ sinceNow <= MaxInputsTime /\ sinceNow' = sinceNow
          /\ sinceInputs <= FreshInputs /\ sinceInputs' = sinceInputs
          /\ left' \in Nat /\ left' <= MaxAdcTime
      BY <1>5, <2>2 DEF CheckAdc, ages, NowAge, InputsAge
    <3>2. sinceNow' + left' <= MaxInputsTime + MaxAdcTime
      BY <3>1, SumsBelow
    <3>3. InputsAge'
      BY <2>2, <3>1 DEF InputsAge
    <3>4. AdcAge'
      BY <1>5, <2>2 DEF CheckAdc, remembered, ages, AdcAge
    <3>5. NowAge'
      BY <2>2, <3>2, Zenon DEF NowAge
    <3>6. QED
      BY <1>5, <2>1, <2>2, <3>3, <3>4, <3>5 DEF CheckAdc, remembered, ages
  <2>3. CASE ~AdcDue /\ GoToSleep
    <3>1. Elapsed(now, lastAdc) = sinceAdc - sinceNow
      BY ElapsedBetween DEF ElapsedIsAge
    <3>2. sinceAdc - sinceNow <= AdcInterval - 1
      BY <2>3, <3>1 DEF AdcDue
    <3>3. NowAge' /\ InputsAge'
      BY <1>5, <2>3 DEF CheckAdc, GoToSleep, remembered, ages, NowAge, InputsAge
    <3>4. AdcAge'
      BY <1>5, <2>3, <3>2 DEF CheckAdc, GoToSleep, remembered, ages, NowAge, AdcAge
    <3>5. left' \in Nat /\ pc' = "sleep"
      BY <2>3 DEF GoToSleep, Sleep
    <3>6. QED
      BY <1>5, <2>1, <3>3, <3>4, <3>5 DEF CheckAdc, remembered, ages
  <2>4. QED
    BY <1>5, <2>2, <2>3 DEF CheckAdc
<1>6. CASE AdcPolled
  <2>1. left' \in Nat /\ pc' = "sleep" /\ ElapsedIsAge' /\ NowAge'
    BY <1>6 DEF AdcPolled, GoToSleep, ElapsedIsAge, NowAge
  <2>2. InputsAge'
    BY <1>6 DEF AdcPolled, GoToSleep, InputsAge
  <2>3. AdcAge'
    BY <1>6 DEF AdcPolled, GoToSleep, NowAge, AdcAge
  <2>4. QED
    BY <1>6, <2>1, <2>2, <2>3 DEF AdcPolled
<1>7. CASE WakeUp
  BY <1>7 DEF WakeUp, remembered, ages, ElapsedIsAge, NowAge, InputsAge, AdcAge
<1>8. QED
  BY <1>1, <1>2, <1>3, <1>4, <1>5, <1>6, <1>7 DEF Next, Loop

\* The inductive invariant of the polling loop.
THEOREM Invariance == SafeSpec => []IInv
BY InitInv, InvStep, PTL DEF SafeSpec

\* Unsigned subtraction of tick counts gives the true elapsed time, across the
\* wrap of the counter, wherever the loop uses it.
THEOREM SubtractionIsAge == SafeSpec => []ElapsedIsAge
BY Invariance, PTL DEF IInv

\* Neither poll delays the other beyond its bound.
THEOREM PollsNotLate == SafeSpec => []NeitherStarves
<1>1. IInv => NeitherStarves
  BY AgesBelowModulus DEF NeitherStarves, IInv, TypeOK, InputsBound
<1>2. QED
  BY <1>1, Invariance, PTL

\* No poll is made before its interval has truly elapsed.
THEOREM PollsNotEarly == SafeSpec => NeitherEarly
<1> DEFINE Early == /\ pc = "sample" /\ pc' = "inputs" => sinceInputs >= InputsInterval
                    /\ pc = "between" /\ pc' = "adc" => sinceAdc >= AdcInterval
<1>1. ASSUME IInv, [Next]_vars, pc = "sample", pc' = "inputs"
      PROVE  sinceInputs >= InputsInterval
  BY <1>1 DEF IInv, TypeOK, ElapsedIsAge, InputsDue, Next, Loop, Tick, Sample,
     InputsPolled, CheckAdc, AdcPolled, GoToSleep, WakeUp, vars, remembered
<1>2. ASSUME IInv, [Next]_vars, pc = "between", pc' = "adc"
      PROVE  sinceAdc >= AdcInterval
  <2>1. CheckAdc /\ AdcDue
    BY <1>2 DEF Next, Loop, Tick, Sample, InputsPolled, CheckAdc, AdcPolled,
       GoToSleep, WakeUp, vars, remembered
  <2>2. Elapsed(now, lastAdc) = sinceAdc - sinceNow
    BY <1>2, ElapsedBetween DEF ElapsedIsAge, IInv, TypeOK
  <2>3. QED
    BY <1>2, <2>1, <2>2 DEF AdcDue, IInv, TypeOK
<1>3. IInv /\ [Next]_vars => [Early]_vars
  BY <1>1, <1>2
<1>4. QED
  BY <1>3, Invariance, PTL DEF SafeSpec, NeitherEarly

-----------------------------------------------------------------------------
(* Both polls are made for ever.  Fairness is stated without ENABLED: the    *)
(* ticks end every activity, and the loop goes on when one has ended.        *)

Ends == []<>(left = 0)
Runs == []<>~(left = 0) \/ []<><<Loop>>_vars

\* The loop comes round.
LEMMA RoundStep ==
    /\ TypeOK => \/ pc = "sample" \/ pc = "inputs" \/ pc = "between" \/ pc = "adc"
                 \/ pc = "sleep"
    /\ left = 0 /\ [Next]_vars => (left = 0)' \/ <<Loop>>_vars
    /\ pc = "sample" /\ [Next]_vars
         => (pc = "sample")' \/ (pc = "inputs")' \/ (pc = "between")'
    /\ pc = "inputs" /\ [Next]_vars => (pc = "inputs")' \/ (pc = "between")'
    /\ pc = "between" /\ [Next]_vars
         => (pc = "between")' \/ (pc = "adc")' \/ (pc = "sleep")'
    /\ pc = "adc" /\ [Next]_vars => (pc = "adc")' \/ (pc = "sleep")'
    /\ pc = "sleep" /\ [Next]_vars => (pc = "sleep")' \/ (pc = "sample")'
    /\ pc = "sample" /\ <<Loop>>_vars => ~(pc = "sample")'
    /\ pc = "inputs" /\ <<Loop>>_vars => ~(pc = "inputs")'
    /\ pc = "between" /\ <<Loop>>_vars => ~(pc = "between")'
    /\ pc = "adc" /\ <<Loop>>_vars => ~(pc = "adc")'
    /\ pc = "sleep" /\ <<Loop>>_vars => ~(pc = "sleep")'
<1> USE DEF Loop, Sample, InputsPolled, CheckAdc, AdcPolled, GoToSleep, WakeUp
<1>1. Loop => \/ pc = "sample" /\ pc' \in {"inputs", "between"}
              \/ pc = "inputs" /\ pc' = "between"
              \/ pc = "between" /\ pc' \in {"adc", "sleep"}
              \/ pc = "adc" /\ pc' = "sleep"
              \/ pc = "sleep" /\ pc' = "sample"
  OBVIOUS
<1>2. left = 0 /\ [Next]_vars => (left = 0)' \/ <<Loop>>_vars
  BY <1>1 DEF Next, Tick, vars
<1>3. [Next]_vars => pc' = pc \/ Loop
  BY DEF Next, Tick, vars
<1>4. TypeOK => \/ pc = "sample" \/ pc = "inputs" \/ pc = "between" \/ pc = "adc"
                \/ pc = "sleep"
  BY DEF TypeOK
<1> HIDE DEF Loop
<1>5. QED
  BY <1>1, <1>2, <1>3, <1>4

\* The age of the inputs as far as it is known: it grows by LoopDelay with
\* every sleep.
InputsAhead(a) ==
    /\ pc \in {"sample", "between", "adc"} => sinceInputs >= a
    /\ pc = "sleep" => sinceInputs + left >= a + LoopDelay

\* The same for the ADC, whose age is compared as of the clock's sample.
AdcAhead(a) ==
    /\ pc = "sample" => sinceAdc >= a
    /\ pc \in {"inputs", "between"} => sinceAdc - sinceNow >= a
    /\ pc = "sleep" => sinceAdc + left >= a + LoopDelay

\* From a loop without a poll to the next, the age has grown.
OneInputsLoop(a, b) ==
    /\ IInv /\ InputsAhead(a) /\ ~(pc = "inputs") /\ [Next]_vars
         => InputsAhead(a)' \/ (pc = "inputs")'
    /\ IInv /\ InputsAhead(a) /\ pc = "sleep" /\ [Next]_vars
         => (pc = "sleep")' \/ InputsAhead(b)'
OneAdcLoop(a, b) ==
    /\ IInv /\ AdcAhead(a) /\ ~(pc = "adc") /\ [Next]_vars
         => AdcAhead(a)' \/ (pc = "adc")'
    /\ IInv /\ AdcAhead(a) /\ pc = "sleep" /\ [Next]_vars
         => (pc = "sleep")' \/ AdcAhead(b)'

LEMMA InputsLoop ==
    ASSUME NEW a \in Nat, NEW b \in Nat, b = a + LoopDelay
    PROVE  OneInputsLoop(a, b)
<1> SUFFICES ASSUME IInv, InputsAhead(a), ~(pc = "inputs"), [Next]_vars
             PROVE  /\ InputsAhead(a)' \/ (pc = "inputs")'
                    /\ pc = "sleep" => (pc = "sleep")' \/ InputsAhead(b)'
  BY DEF OneInputsLoop
<1> USE DEF IInv, TypeOK, InputsAhead, remembered, ages
<1>1. CASE UNCHANGED vars
  BY <1>1 DEF vars
<1>2. CASE Tick
  BY <1>2 DEF Tick
<1>3. CASE Sample
  BY <1>3 DEF Sample
<1>4. CASE CheckAdc
  BY <1>4 DEF CheckAdc, GoToSleep
<1>5. CASE AdcPolled
  <2>1. /\ sinceInputs' = sinceInputs /\ sinceInputs >= a /\ pc' = "sleep"
        /\ left' \in Nat /\ left' >= LoopDelay
    BY <1>5 DEF AdcPolled, GoToSleep
  <2>2. a + LoopDelay <= sinceInputs + left'
    BY <2>1, SumsBelow
  <2>3. QED
    BY <1>5, <2>1, <2>2 DEF AdcPolled
<1>6. CASE WakeUp
  BY <1>6 DEF WakeUp
<1>7. QED
  BY <1>1, <1>2, <1>3, <1>4, <1>5, <1>6 DEF Next, Loop, InputsPolled

LEMMA AdcLoop ==
    ASSUME NEW a \in Nat, NEW b \in Nat, b = a + LoopDelay
    PROVE  OneAdcLoop(a, b)
<1> SUFFICES ASSUME IInv, AdcAhead(a), ~(pc = "adc"), [Next]_vars
             PROVE  /\ AdcAhead(a)' \/ (pc = "adc")'
                    /\ pc = "sleep" => (pc = "sleep")' \/ AdcAhead(b)'
  BY DEF OneAdcLoop
<1> USE DEF IInv, TypeOK, AdcAhead, remembered, ages
<1>1. CASE UNCHANGED vars
  BY <1>1 DEF vars
<1>2. CASE Tick
  BY <1>2 DEF Tick
<1>3. CASE Sample
  BY <1>3 DEF Sample
<1>4. CASE InputsPolled
  BY <1>4 DEF InputsPolled
<1>5. CASE CheckAdc
  BY <1>5 DEF CheckAdc, GoToSleep
<1>6. CASE WakeUp
  BY <1>6 DEF WakeUp
<1>7. QED
  BY <1>1, <1>2, <1>3, <1>4, <1>5, <1>6 DEF Next, Loop, AdcPolled

\* Both polls are made for ever: with the intervals and the delay of
\* io_polling.c (20 ms, 100 ms and 5 ms) the inputs are polled in the fifth loop
\* at the latest and the ADC in the twenty-first, however long a poll or the
\* other one takes.
THEOREM PollsGoOn ==
    ASSUME InputsInterval <= 4 * LoopDelay, AdcInterval <= 20 * LoopDelay
    PROVE  SafeSpec /\ Ends /\ Runs => PollsForEver
<1> DEFINE Safe == [][Next]_vars /\ []IInv
           Round == []<>(pc = "sleep") /\ []<>(pc = "sample") /\ []<>(pc = "between")
           L == LoopDelay
<1>1. SafeSpec => Safe
  BY Invariance, PTL DEF SafeSpec
<1>2. IInv => TypeOK
  BY DEF IInv
<1>3. Safe /\ Ends /\ Runs => []<><<Loop>>_vars
  BY RoundStep, PTL DEF Ends, Runs
<1>4. Safe /\ []<><<Loop>>_vars => Round
  BY RoundStep, <1>2, PTL
<1>5. ~(pc = "sample" /\ pc = "sleep") /\ ~(pc = "between" /\ pc = "sleep")
  OBVIOUS
<1>6. Safe /\ Round => []<>(pc = "inputs")
  <2>1. /\ OneInputsLoop(0, L) /\ OneInputsLoop(L, 2 * L)
        /\ OneInputsLoop(2 * L, 3 * L) /\ OneInputsLoop(3 * L, 4 * L)
        /\ OneInputsLoop(4 * L, 5 * L)
    BY InputsLoop
  <2>2. IInv /\ pc = "sample" => InputsAhead(0)
    BY DEF InputsAhead, IInv, TypeOK
  <2>3. ASSUME IInv, InputsAhead(4 * L), pc = "sample", [Next]_vars
        PROVE  (pc = "sample")' \/ (pc = "inputs")'
    <3>1. sinceInputs >= InputsInterval
      BY <2>3 DEF InputsAhead, IInv, TypeOK
    <3>2. InputsDue
      BY <2>3, <3>1 DEF InputsDue, IInv, ElapsedIsAge
    <3>3. QED
      BY <2>3, <3>2 DEF Next, Loop, Tick, Sample, InputsPolled, CheckAdc, AdcPolled,
         WakeUp, vars
  <2>4. QED
    BY <1>5, <2>1, <2>2, <2>3, PTL DEF OneInputsLoop
<1>7. Safe /\ Round => []<>(pc = "adc")
  <2>1. /\ OneAdcLoop(0, L) /\ OneAdcLoop(L, 2 * L) /\ OneAdcLoop(2 * L, 3 * L)
        /\ OneAdcLoop(3 * L, 4 * L) /\ OneAdcLoop(4 * L, 5 * L)
        /\ OneAdcLoop(5 * L, 6 * L) /\ OneAdcLoop(6 * L, 7 * L)
        /\ OneAdcLoop(7 * L, 8 * L) /\ OneAdcLoop(8 * L, 9 * L)
        /\ OneAdcLoop(9 * L, 10 * L) /\ OneAdcLoop(10 * L, 11 * L)
        /\ OneAdcLoop(11 * L, 12 * L) /\ OneAdcLoop(12 * L, 13 * L)
        /\ OneAdcLoop(13 * L, 14 * L) /\ OneAdcLoop(14 * L, 15 * L)
        /\ OneAdcLoop(15 * L, 16 * L) /\ OneAdcLoop(16 * L, 17 * L)
        /\ OneAdcLoop(17 * L, 18 * L) /\ OneAdcLoop(18 * L, 19 * L)
        /\ OneAdcLoop(19 * L, 20 * L) /\ OneAdcLoop(20 * L, 21 * L)
    BY AdcLoop
  <2>2. IInv /\ pc = "sample" => AdcAhead(0)
    BY DEF AdcAhead, IInv, TypeOK
  <2>3. ASSUME IInv, AdcAhead(20 * L), pc = "between", [Next]_vars
        PROVE  (pc = "between")' \/ (pc = "adc")'
    <3>1. sinceAdc - sinceNow >= AdcInterval
      BY <2>3 DEF AdcAhead, IInv, TypeOK
    <3>2. AdcDue
      BY <2>3, <3>1, ElapsedBetween DEF AdcDue, IInv, TypeOK, ElapsedIsAge
    <3>3. QED
      BY <2>3, <3>2 DEF Next, Loop, Tick, Sample, InputsPolled, CheckAdc, AdcPolled,
         WakeUp, vars
  <2>4. Safe /\ Round /\ []~(pc = "adc") => <>[]AdcAhead(7 * L)
    BY <1>5, <2>1, <2>2, PTL DEF OneAdcLoop
  <2>5. Safe /\ Round /\ []~(pc = "adc") /\ <>[]AdcAhead(7 * L) => <>[]AdcAhead(14 * L)
    BY <1>5, <2>1, PTL DEF OneAdcLoop
  <2>6. Safe /\ Round /\ []~(pc = "adc") /\ <>[]AdcAhead(14 * L) => <>[]AdcAhead(20 * L)
    BY <1>5, <2>1, PTL DEF OneAdcLoop
  <2>7. Safe /\ Round => <>(pc = "adc")
    BY <1>5, <2>3, <2>4, <2>5, <2>6, PTL
  <2>8. QED
    BY <2>7, PTL
<1>8. QED
  BY <1>1, <1>3, <1>4, <1>6, <1>7, PTL DEF PollsForEver
=============================================================================
