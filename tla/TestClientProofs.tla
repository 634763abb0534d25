-------------------------- MODULE TestClientProofs --------------------------
(* Proofs about TestClient, for any width of the words and any number of     *)
(* cycles and resets.                                                        *)
EXTENDS TestClient, TLAPS

\* The numbers that have a bound only because the statistics add up.
Loose ==
    /\ pc \in {"loop", "send", "wait", "done"} /\ step \in Steps
    /\ key \in BOOLEAN /\ open \in BOOLEAN /\ session \in BOOLEAN
    /\ word \in Word /\ square \in Word /\ cycles \in 0..MaxCycles
    /\ reads \in [Tags -> Nat] /\ errors \in [Tags -> Nat]
    /\ adcReads \in Nat /\ adcErrors \in Nat
    /\ request \in Message /\ reply \in Message
    /\ counter \in Word /\ loopIn \in Word /\ loopOut \in Word /\ outputs \in Word
    /\ resets \in 0..MaxResets /\ written \in Nat

\* Which calls belong to which part of the program.
Places ==
    /\ pc \in {"send", "wait"} /\ step <= 10 => cycles < MaxCycles
    /\ pc = "loop" => step \in {0, 10}
    /\ pc = "done" => step = 12
    /\ pc = "wait" => open
    /\ reply # None => pc = "wait" /\ session /\ request = None

\* The writes made before call n of a cycle or of the clean-up, and once it is
\* made.
Sent(n) == IF n \in {0, 11} THEN 0 ELSE IF n \in {1, 12} THEN 1 ELSE 2
Made(n) == IF n \in {0, 11} THEN 1 ELSE 2

Pending == IF request.op = "write" THEN 1 ELSE 0

\* While the channel is open every call so far has been answered.
InStep ==
    /\ written + Pending <= 2 * cycles + 2
    /\ open =>
        /\ pc # "wait" => request = None
        /\ pc = "loop" => written = 2 * cycles
        /\ pc = "send" => written = 2 * cycles + Sent(step)
        /\ reply # None => written = 2 * cycles + Made(step)
        /\ request # None =>
              request = RequestOf(step) /\ written = 2 * cycles + Sent(step)

\* A closed channel fails the next read.
Clean == \A i \in Tags : errors[i] = 0
ClosedLate == Clean /\ ~open => pc = "done" \/ (pc = "send" /\ step \in {1, 2, 12})

\* What the server has for a client it still hears.
Counted == IF pc = "wait" /\ step = 2 /\ reply # None THEN reads[0] + 1 ELSE reads[0]
Values ==
    open /\ session =>
        /\ pc # "wait" \/ request # None \/ reply # None
              => pc = "done" \/ counter = Counted % WordModulus
        /\ (pc \in {"send", "wait"} /\ step \in 2..10)
              \/ (pc = "wait" /\ step = 1 /\ reply # None)
              => loopIn = word /\ loopOut = word
        /\ reply # None /\ step \in 2..4
              => reply.word = IF step = 2 THEN Counted % WordModulus ELSE word

Cleared ==
    open /\ (step = 12 \/ (pc = "wait" /\ step = 11 /\ reply # None)) => outputs = 0

IInv == Loose /\ Places /\ TallyAddsUp /\ InStep /\ ClosedLate /\ Values /\ Cleared

-----------------------------------------------------------------------------
LEMMA Remainder ==
    ASSUME NEW w \in Nat \ {0}, NEW q \in Nat, NEW r \in 0..(w - 1), NEW x \in Nat,
           x = q * w + r
    PROVE  x % w = r
  OBVIOUS

LEMMA NextRemainder ==
    ASSUME NEW w \in Nat \ {0}, NEW x \in Nat
    PROVE  ((x % w) + 1) % w = (x + 1) % w
<1> DEFINE q == x \div w
           r == x % w
<1>1. q \in Nat /\ r \in 0..(w - 1) /\ x = q * w + r
  OBVIOUS
<1> HIDE DEF q, r
<1>2. CASE r + 1 < w
  <2>1. r + 1 \in 0..(w - 1) /\ x + 1 = q * w + (r + 1) /\ r + 1 = 0 * w + (r + 1)
    BY <1>1, <1>2
  <2>2. (x + 1) % w = r + 1
    BY <1>1, <2>1, Remainder
  <2>3. (r + 1) % w = r + 1
    BY <1>1, <2>1, Remainder
  <2>4. QED
    BY <2>2, <2>3 DEF r
<1>3. CASE r + 1 = w
  <2>1. x + 1 = (q + 1) * w + 0 /\ r + 1 = 1 * w + 0 /\ 0 \in 0..(w - 1)
    BY <1>1, <1>3
  <2>2. (x + 1) % w = 0
    BY <1>1, <2>1, Remainder
  <2>3. (r + 1) % w = 0
    BY <1>1, <2>1, Remainder
  <2>4. QED
    BY <2>2, <2>3 DEF r
<1>4. QED
  BY <1>1, <1>2, <1>3

LEMMA WordFacts ==
    /\ 0 \in Word /\ WordModulus \in Nat \ {0}
    /\ \A n \in Nat : n % WordModulus \in Word
    /\ \A n \in Word : n \in Nat /\ WordModulus - 1 - n \in Word
  BY WordAssumption DEF Word

LEMMA MessageFacts ==
    /\ None \in Message
    /\ word \in Word /\ square \in Word =>
         \A n \in Steps : RequestOf(n) \in Message /\ RequestOf(n) # None
  BY WordFacts DEF None, Message, RequestOf, CleanUp, Tags, Steps

-----------------------------------------------------------------------------
LEMMA InitHolds == Init => IInv
<1> SUFFICES ASSUME Init PROVE IInv
  OBVIOUS
<1> USE WordFacts, MessageFacts, BoundsAssumption DEF Init
<1>1. Loose
  <2>1. /\ pc \in {"loop", "send", "wait", "done"} /\ step \in Steps
        /\ cycles \in 0..MaxCycles /\ resets \in 0..MaxResets /\ written \in Nat
    BY DEF Steps
  <2>2. /\ reads \in [Tags -> Nat] /\ errors \in [Tags -> Nat]
        /\ adcReads \in Nat /\ adcErrors \in Nat
    OBVIOUS
  <2>3. key \in BOOLEAN /\ open \in BOOLEAN /\ session \in BOOLEAN
    OBVIOUS
  <2>4. QED
    BY <2>1, <2>2, <2>3 DEF Loose
<1>2. Places /\ ClosedLate /\ Cleared
  BY DEF Places, ClosedLate, Cleared
<1>3. InStep
  BY DEF InStep, Pending, None
<1>4. TallyAddsUp
  BY DEF TallyAddsUp, Tags
<1>5. 0 % WordModulus = 0
  BY Remainder DEF Word
<1>6. Values
  BY <1>5 DEF Values, Counted, Tags
<1>7. QED
  BY <1>1, <1>2, <1>3, <1>4, <1>6 DEF IInv

\* A call that returns keeps the types.
LEMMA SettleTypes ==
    ASSUME Loose, Places, NEW good \in BOOLEAN, Settle(good), pc \in {"send", "wait"}
    PROVE  /\ pc' \in {"loop", "send", "done"} /\ step' \in Steps
           /\ square' \in Word /\ cycles' \in 0..MaxCycles
           /\ reads' \in [Tags -> Nat] /\ errors' \in [Tags -> Nat]
           /\ adcReads' \in Nat /\ adcErrors' \in Nat
           /\ UNCHANGED <<word, key, board, resets>>
<1> USE DEF Loose, Settle
<1>1. step' \in Steps /\ pc' \in {"loop", "send", "done"}
  BY DEF Steps
<1>2. square' \in Word
  BY WordFacts
<1>3. cycles' \in 0..MaxCycles
  BY BoundsAssumption DEF Places
<1>4. /\ reads' \in [Tags -> Nat] /\ errors' \in [Tags -> Nat]
      /\ adcReads' \in Nat /\ adcErrors' \in Nat
  <2>1. CASE step \in 2..10
    <3>1. Count(good) /\ step - 2 \in Tags
      BY <2>1 DEF Tags
    <3>2. reads[step - 2] \in Nat /\ errors[step - 2] \in Nat
      BY <3>1
    <3>3. QED
      BY <3>1, <3>2 DEF Count
  <2>2. CASE step \notin 2..10
    BY <2>2 DEF tally
  <2>3. QED
    BY <2>1, <2>2
<1>5. QED
  BY <1>1, <1>2, <1>3, <1>4

LEMMA ExecuteTypes == Loose /\ Execute => Loose'
<1> SUFFICES ASSUME Loose, Execute PROVE Loose'
  OBVIOUS
<1> USE DEF Loose
<1>1. request.word \in Word /\ request.tag \in Tags
  BY DEF Message
<1>2. CounterRead \in Word
  <2>1. counter + 1 \in Nat
    <3>1. counter \in Word
      OBVIOUS
    <3>2. QED
      BY <3>1, WordAssumption DEF Word
  <2>2. QED
    BY <2>1, WordFacts DEF CounterRead
<1>3. \A n \in Tags : ValueOf(n) \in Word
  BY <1>2, WordFacts DEF ValueOf
<1>4. reply' \in Message
  BY <1>1, <1>3, WordFacts, MessageFacts DEF Execute, Message
<1>5. /\ counter' \in Word /\ outputs' \in Word /\ loopIn' \in Word
      /\ loopOut' \in Word /\ written' \in Nat
  BY <1>1, <1>2 DEF Execute
<1>6. request' \in Message /\ UNCHANGED <<client, key, session, resets>>
  BY MessageFacts DEF Execute
<1>7. QED
  BY <1>4, <1>5, <1>6 DEF client, tally

LEMMA LooseStep == IInv /\ [Next]_vars => Loose'
<1> SUFFICES ASSUME IInv, [Next]_vars PROVE Loose'
  OBVIOUS
<1>0. Loose /\ Places
  BY DEF IInv
<1> USE <1>0
<1>1. CASE UNCHANGED vars
  BY <1>1 DEF Loose, vars, client, tally, board
<1>2. CASE PressKey
  BY <1>2 DEF Loose, PressKey, client, tally, board
<1>3. CASE Turn
  <2>1. word' \in Word
    <3>1. word + 1 \in Nat /\ word \in Word
      BY WordAssumption DEF Loose, Word
    <3>2. QED
      BY <1>3, <3>1, WordFacts DEF Turn
  <2>2. step' \in Steps
    BY <1>3 DEF Turn, Steps
  <2>3. QED
    BY <1>3, <2>1, <2>2 DEF Loose, Turn, tally, board
<1>4. CASE Send
  BY <1>4, MessageFacts DEF Loose, Send, tally, board
<1>5. CASE Refuse
  <2>1. Settle(FALSE) /\ pc = "send" /\ UNCHANGED <<open, request, reply>>
    BY <1>5 DEF Refuse
  <2>2. QED
    BY <2>1, SettleTypes DEF Loose, board
<1>6. CASE Receive
  <2>1. Settle(TRUE) /\ pc = "wait" /\ reply' = None /\ UNCHANGED <<open, request>>
    BY <1>6 DEF Receive
  <2>2. QED
    BY <2>1, SettleTypes, MessageFacts DEF Loose, board
<1>7. CASE TimeOut
  <2>1. Settle(FALSE) /\ pc = "wait" /\ reply' = None /\ open' = FALSE
        /\ UNCHANGED request
    BY <1>7 DEF TimeOut
  <2>2. QED
    BY <2>1, SettleTypes, MessageFacts DEF Loose, board
<1>8. CASE Execute
  BY <1>8, ExecuteTypes
<1>9. CASE Lose
  BY <1>9, MessageFacts DEF Loose, Lose, client, tally, board
<1>10. CASE Reset
  <2>1. resets' \in 0..MaxResets
    BY <1>10, BoundsAssumption DEF Loose, Reset
  <2>2. session' \in BOOLEAN
    BY <1>10 DEF Reset
  <2>3. UNCHANGED <<client, key, written>> /\ request' \in Message /\ reply' \in Message
    BY <1>10, MessageFacts DEF Reset
  <2>4. counter' \in Word /\ loopIn' \in Word /\ loopOut' \in Word /\ outputs' \in Word
    BY <1>10, WordFacts DEF Reset
  <2>5. QED
    BY <2>1, <2>2, <2>3, <2>4 DEF Loose, client, tally
<1>11. QED
  BY <1>1, <1>2, <1>3, <1>4, <1>5, <1>6, <1>7, <1>8, <1>9, <1>10 DEF Next, Calling

LEMMA PlacesStep == IInv /\ [Next]_vars => Places'
<1> SUFFICES ASSUME IInv, [Next]_vars PROVE Places'
  OBVIOUS
<1>0. Loose /\ Places
  BY DEF IInv
<1> USE <1>0, BoundsAssumption DEF Places
<1>1. CASE UNCHANGED vars \/ PressKey
  BY <1>1 DEF vars, PressKey, client, tally, board
<1>2. CASE Turn
  BY <1>2 DEF Turn, Loose, board
<1>3. CASE Send
  <2>1. request = None => reply' = reply
    BY <1>3 DEF Send
  <2>2. reply = None
    BY <1>3 DEF Send
  <2>3. QED
    BY <1>3, <2>2 DEF Send, board
<1>4. CASE Refuse \/ Receive \/ TimeOut
  <2>1. PICK good \in BOOLEAN : Settle(good)
    BY <1>4 DEF Refuse, Receive, TimeOut
  <2>2. reply' = None /\ pc \in {"send", "wait"}
    BY <1>4 DEF Refuse, Receive, TimeOut
  <2>3. QED
    BY <2>1, <2>2 DEF Settle, Loose, Steps
<1>5. CASE Execute
  <2>1. reply' # None => pc = "wait" /\ session' /\ request' = None
    BY <1>5 DEF Execute
  <2>2. UNCHANGED client
    BY <1>5 DEF Execute
  <2>3. QED
    BY <2>1, <2>2 DEF client
<1>6. CASE Lose \/ Reset
  <2>1. UNCHANGED client /\ (reply' # None => reply' = reply)
    BY <1>6 DEF Lose, Reset
  <2>2. reply' # None => session' = session /\ request = None /\ request' = request
    BY <1>6 DEF Lose, Reset, board
  <2>3. QED
    BY <2>1, <2>2 DEF client
<1>7. QED
  BY <1>1, <1>2, <1>3, <1>4, <1>5, <1>6 DEF Next, Calling

\* A call that returns counts its read, if it is one, once.
LEMMA SettleTally ==
    ASSUME Loose, TallyAddsUp, NEW good \in BOOLEAN, Settle(good),
           pc \in {"send", "wait"}
    PROVE  TallyAddsUp'
<1> USE DEF Loose, Settle
<1>1. CASE step \in 2..10
  <2> DEFINE i == step - 2
  <2>1. Count(good) /\ i \in Tags
    BY <1>1 DEF Tags
  <2>2. \A j \in Tags : reads'[j] + errors'[j] =
             IF j = i THEN reads[j] + errors[j] + 1 ELSE reads[j] + errors[j]
    BY <2>1 DEF Count
  <2>3. \A j \in Tags : reads[j] \in Nat /\ errors[j] \in Nat
    OBVIOUS
  <2>4. \A j \in Tags : reads'[j] + errors'[j] =
             IF pc' # "loop" /\ step' \in (j + 3)..10 THEN cycles' + 1 ELSE cycles'
    <3>1. SUFFICES ASSUME NEW j \in Tags
                   PROVE reads'[j] + errors'[j] = IF pc' # "loop" /\ step' \in (j + 3)..10
                                                  THEN cycles' + 1 ELSE cycles'
      OBVIOUS
    <3>2. j \in 0..8 /\ step \in Nat /\ cycles \in Nat
      BY <1>1 DEF Tags
    <3>3. reads[j] + errors[j] =
             IF step \in (j + 3)..10 THEN cycles + 1 ELSE cycles
      BY DEF TallyAddsUp
    <3>4. CASE step = 10
      <4>1. cycles' = cycles + 1 /\ pc' = "loop"
        BY <3>4
      <4>2. reads'[j] + errors'[j] = cycles + 1
        <5>1. CASE j = 8
          BY <2>2, <2>3, <3>2, <3>3, <3>4, <5>1
        <5>2. CASE j # 8
          <6>1. step \in (j + 3)..10 /\ j # i
            BY <3>2, <3>4, <5>2
          <6>2. QED
            BY <2>2, <3>3, <6>1
        <5>3. QED
          BY <5>1, <5>2
      <4>3. QED
        BY <4>1, <4>2
    <3>5. CASE step < 10
      <4>1. cycles' = cycles /\ pc' = "send" /\ step' = step + 1
        BY <1>1, <3>2, <3>5
      <4>2. step + 1 \in (j + 3)..10 <=> (step \in (j + 3)..10 \/ j = i)
        BY <1>1, <3>2, <3>5
      <4>3. j = i => step \notin (j + 3)..10
        BY <3>2
      <4>4. CASE j = i
        BY <2>2, <3>3, <4>1, <4>2, <4>3, <4>4
      <4>5. CASE j # i
        BY <2>2, <3>3, <4>1, <4>2, <4>5
      <4>6. QED
        BY <4>4, <4>5
    <3>6. QED
      BY <1>1, <3>4, <3>5
  <2>5. /\ adcReads' = reads'[5] + reads'[6] + reads'[7] + reads'[8]
        /\ adcErrors' = errors'[5] + errors'[6] + errors'[7] + errors'[8]
    <3>1. /\ adcReads = reads[5] + reads[6] + reads[7] + reads[8]
          /\ adcErrors = errors[5] + errors[6] + errors[7] + errors[8]
      BY DEF TallyAddsUp
    <3>2. \A j \in 5..8 : j \in Tags /\ reads[j] \in Nat /\ errors[j] \in Nat
      BY DEF Tags
    <3>3. CASE good
      <4>1. errors' = errors /\ adcErrors' = adcErrors
        BY <2>1, <3>3 DEF Count
      <4>2. reads' = [reads EXCEPT ![i] = @ + 1]
            /\ adcReads' = IF i \in AdcTags THEN adcReads + 1 ELSE adcReads
        BY <2>1, <3>3 DEF Count
      <4>3. QED
        BY <2>1, <3>1, <3>2, <4>1, <4>2 DEF AdcTags
    <3>4. CASE ~good
      <4>1. reads' = reads /\ adcReads' = adcReads
        BY <2>1, <3>4 DEF Count
      <4>2. errors' = [errors EXCEPT ![i] = @ + 1]
            /\ adcErrors' = IF i \in AdcTags THEN adcErrors + 1 ELSE adcErrors
        BY <2>1, <3>4 DEF Count
      <4>3. QED
        BY <2>1, <3>1, <3>2, <4>1, <4>2 DEF AdcTags
    <3>5. QED
      BY <3>3, <3>4
  <2>6. QED
    BY <2>4, <2>5 DEF TallyAddsUp
<1>2. CASE step \notin 2..10
  <2>1. UNCHANGED tally /\ cycles' = cycles /\ pc' \in {"send", "done"}
    BY <1>2
  <2>2. step \in {0, 1, 11, 12} /\ step' \in {1, 2, 12}
    BY <1>2 DEF Steps
  <2>3. \A i \in Tags : step' \notin (i + 3)..10 /\ step \notin (i + 3)..10
    BY <2>2 DEF Tags
  <2>4. QED
    BY <2>1, <2>3 DEF TallyAddsUp, tally
<1>3. QED
  BY <1>1, <1>2

LEMMA TallyStep == IInv /\ [Next]_vars => TallyAddsUp'
<1> SUFFICES ASSUME IInv, [Next]_vars PROVE TallyAddsUp'
  OBVIOUS
<1>0. Loose /\ Places /\ TallyAddsUp
  BY DEF IInv
<1>1. CASE UNCHANGED client
  BY <1>0, <1>1 DEF client, tally, TallyAddsUp
<1>2. CASE Turn
  <2>1. UNCHANGED <<tally, cycles>> /\ pc = "loop" /\ step' \in {0, 11}
    BY <1>2 DEF Turn
  <2>2. \A i \in Tags : step' \notin (i + 3)..10
    BY <2>1 DEF Tags
  <2>3. QED
    BY <1>0, <2>1, <2>2 DEF tally, TallyAddsUp
<1>3. CASE Send
  BY <1>0, <1>3 DEF Send, tally, TallyAddsUp
<1>4. CASE Refuse \/ Receive \/ TimeOut
  <2>1. PICK good \in BOOLEAN : Settle(good)
    BY <1>4 DEF Refuse, Receive, TimeOut
  <2>2. pc \in {"send", "wait"}
    BY <1>4 DEF Refuse, Receive, TimeOut
  <2>3. QED
    BY <1>0, <2>1, <2>2, SettleTally
<1>5. QED
  BY <1>1, <1>2, <1>3, <1>4 DEF Next, Calling, vars, PressKey, Execute, Lose, Reset

-----------------------------------------------------------------------------
\* The calls by their numbers.
LEMMA CallFacts ==
    ASSUME NEW n \in Steps
    PROVE  /\ RequestOf(n).op = "write" <=> n \in {0, 1, 11, 12}
           /\ Sent(n) \in Nat /\ Made(n) \in Nat /\ Made(n) <= 2
           /\ Made(n) = Sent(n) + (IF RequestOf(n).op = "write" THEN 1 ELSE 0)
           /\ n \notin {10, 12} => n + 1 \in Steps /\ (n + 1 # 11 => Made(n) = Sent(n + 1))
           /\ n = 10 => Made(n) = 2
  BY DEF RequestOf, CleanUp, Sent, Made, Steps

\* A call returns to its program at the next call.
LEMMA SettleFacts ==
    ASSUME Loose, Places, NEW good \in BOOLEAN, Settle(good), pc \in {"send", "wait"}
    PROVE  /\ step = 10 => pc' = "loop" /\ step' = 10 /\ cycles' = cycles + 1
           /\ step = 12 => pc' = "done" /\ step' = 12 /\ cycles' = cycles
           /\ step \notin {10, 12} =>
                 pc' = "send" /\ step' = step + 1 /\ cycles' = cycles
           /\ UNCHANGED <<word, session, counter, loopIn, loopOut, outputs, written>>
           /\ ~good /\ step \in 2..10 => errors'[step - 2] = errors[step - 2] + 1
           /\ \A i \in Tags : errors[i] <= errors'[i]
           /\ reads'[0] = IF good /\ step = 2 THEN reads[0] + 1 ELSE reads[0]
<1> USE DEF Loose, Settle, board
<1>1. step \in 2..10 => step - 2 \in Tags
  BY DEF Tags
<1>2. \A i \in Tags : errors[i] \in Nat /\ reads[i] \in Nat
  OBVIOUS
<1>3. CASE step \in 2..10
  <2>1. Count(good)
    BY <1>3
  <2>2. ~good => errors'[step - 2] = errors[step - 2] + 1
    BY <1>1, <1>2, <1>3, <2>1 DEF Count
  <2>3. \A i \in Tags : errors[i] <= errors'[i]
    BY <1>1, <1>2, <1>3, <2>1 DEF Count
  <2>4. reads'[0] = IF good /\ step = 2 THEN reads[0] + 1 ELSE reads[0]
    BY <1>1, <1>2, <1>3, <2>1 DEF Count, Tags
  <2>5. QED
    BY <1>3, <2>2, <2>3, <2>4
<1>4. CASE step \notin 2..10
  <2>1. UNCHANGED tally
    BY <1>4
  <2>2. QED
    BY <1>2, <1>4, <2>1 DEF tally
<1>5. QED
  BY <1>3, <1>4

LEMMA InStepStep == IInv /\ [Next]_vars => InStep'
<1> SUFFICES ASSUME IInv, [Next]_vars PROVE InStep'
  OBVIOUS
<1>0. /\ Loose /\ Places /\ InStep /\ step \in Steps /\ cycles \in Nat /\ written \in Nat
      /\ Pending \in Nat /\ written + Pending <= 2 * cycles + 2
  BY DEF IInv, Loose, Pending, InStep
<1>1. CASE UNCHANGED vars \/ PressKey
  BY <1>0, <1>1 DEF vars, PressKey, client, tally, board, InStep, Pending,
     RequestOf, CleanUp
<1>2. CASE Turn
  <2>1. /\ UNCHANGED <<cycles, open, request, reply, written>>
        /\ pc = "loop" /\ pc' = "send" /\ step' \in {0, 11}
    BY <1>2 DEF Turn, board
  <2>2. Sent(step') = 0
    BY <2>1 DEF Sent
  <2>3. Pending' = Pending
    BY <2>1 DEF Pending
  <2>4. reply = None
    BY <1>0, <2>1 DEF Places
  <2>5. open => request = None /\ written = 2 * cycles
    BY <1>0, <2>1 DEF InStep
  <2>6. QED
    BY <1>0, <2>1, <2>2, <2>3, <2>4, <2>5 DEF InStep
<1>3. CASE Send
  <2>1. /\ UNCHANGED <<cycles, step, word, square, open, reply, written>>
        /\ pc = "send" /\ open /\ request' = RequestOf(step) /\ pc' = "wait"
    BY <1>3 DEF Send, board
  <2>2. request = None /\ reply = None /\ written = 2 * cycles + Sent(step)
    BY <1>0, <2>1 DEF InStep, Places
  <2>3. request' = RequestOf(step)'
    BY <2>1 DEF RequestOf, CleanUp
  <2>4. written' + Pending' <= 2 * cycles' + 2
    <3>1. Pending' = IF RequestOf(step).op = "write" THEN 1 ELSE 0
      BY <2>1 DEF Pending
    <3>2. Sent(step) + Pending' <= 2 /\ Sent(step) \in Nat /\ Pending' \in Nat
      BY <1>0, <3>1, CallFacts
    <3>3. QED
      BY <1>0, <2>1, <2>2, <3>2
  <2>5. QED
    BY <2>1, <2>2, <2>3, <2>4 DEF InStep, Sent
<1>4. CASE Refuse \/ TimeOut
  <2>1. Settle(FALSE) /\ pc \in {"send", "wait"} /\ request' = request /\ ~open'
    <3>1. CASE Refuse
      BY <3>1 DEF Refuse
    <3>2. CASE TimeOut
      BY <3>2 DEF TimeOut
    <3>3. QED
      BY <1>4, <3>1, <3>2
  <2>2. written' = written /\ cycles' \in {cycles, cycles + 1} /\ Pending' = Pending
    BY <1>0, <2>1, SettleFacts DEF Pending
  <2>3. written' + Pending' <= 2 * cycles' + 2
    <3>1. CASE cycles' = cycles
      BY <1>0, <2>2, <3>1
    <3>2. CASE cycles' = cycles + 1
      BY <1>0, <2>2, <3>2
    <3>3. QED
      BY <2>2, <3>1, <3>2
  <2>4. QED
    BY <2>1, <2>3 DEF InStep
<1>5. CASE Receive
  <2>1. /\ Settle(TRUE) /\ pc = "wait" /\ reply # None /\ reply' = None
        /\ UNCHANGED <<open, request>>
    BY <1>5 DEF Receive
  <2>2. open /\ request = None /\ written = 2 * cycles + Made(step)
    BY <1>0, <2>1 DEF Places, InStep
  <2>3. written' = written /\ Pending' = 0 /\ request' = None
    BY <1>0, <2>1, <2>2, SettleFacts DEF Pending, None
  <2>4. CASE step = 10
    <3>1. pc' = "loop" /\ cycles' = cycles + 1 /\ Made(step) = 2
      BY <1>0, <2>1, <2>4, SettleFacts, CallFacts
    <3>2. QED
      BY <1>0, <2>1, <2>2, <2>3, <3>1 DEF InStep
  <2>5. CASE step = 12
    <3>1. pc' = "done" /\ cycles' = cycles
      BY <1>0, <2>1, <2>5, SettleFacts
    <3>2. QED
      BY <1>0, <2>1, <2>2, <2>3, <3>1 DEF InStep, Pending
  <2>6. CASE step \notin {10, 12}
    <3>1. pc' = "send" /\ step' = step + 1 /\ cycles' = cycles
      BY <1>0, <2>1, <2>6, SettleFacts
    <3>2. Made(step) = Sent(step + 1) /\ Made(step) \in Nat /\ Made(step) <= 2
      BY <1>0, <2>6, CallFacts DEF Steps
    <3>3. QED
      BY <1>0, <2>1, <2>2, <2>3, <3>1, <3>2 DEF InStep
  <2>7. QED
    BY <2>4, <2>5, <2>6
<1>6. CASE Execute
  <2>1. /\ UNCHANGED client /\ request # None /\ request' = None
        /\ written' = IF request.op = "write" THEN written + 1 ELSE written
        /\ pc # "wait" => reply' = None
    BY <1>6 DEF Execute
  <2>2. written' = written + Pending
    BY <1>0, <2>1 DEF Pending
  <2>3. Pending' = 0
    BY <2>1 DEF Pending, None
  <2>4. open => /\ request = RequestOf(step) /\ written = 2 * cycles + Sent(step)
                /\ pc = "wait"
    BY <1>0, <2>1 DEF InStep
  <2>5. open => written + Pending = 2 * cycles + Made(step)
    <3>1. open => Made(step) = Sent(step) + Pending
      BY <1>0, <2>4, CallFacts DEF Pending
    <3>2. Sent(step) \in Nat
      BY <1>0, CallFacts
    <3>3. QED
      BY <1>0, <2>4, <3>1, <3>2
  <2>6. written' + Pending' <= 2 * cycles + 2
    BY <1>0, <2>2, <2>3
  <2>7. QED
    BY <2>1, <2>2, <2>4, <2>5, <2>6 DEF InStep, client, Made
<1>7. CASE Lose \/ Reset
  <2>1. /\ UNCHANGED <<client, written>>
        /\ request' \in {request, None} /\ (reply' # None => reply' = reply)
    BY <1>7 DEF Lose, Reset, board
  <2>2. request' # None => request' = request
    BY <2>1
  <2>3. written' + Pending' <= 2 * cycles' + 2
    <3>1. cycles' = cycles /\ written' = written
      BY <2>1 DEF client
    <3>2. Pending' = 0 \/ Pending' = Pending
      BY <1>0, <2>1 DEF Pending, None
    <3>3. QED
      BY <1>0, <3>1, <3>2
  <2>4. QED
    BY <1>0, <2>1, <2>2, <2>3 DEF InStep, client, RequestOf, CleanUp, Sent, Made
<1>8. QED
  BY <1>1, <1>2, <1>3, <1>4, <1>5, <1>6, <1>7 DEF Next, Calling

LEMMA ClosedLateStep == IInv /\ [Next]_vars => ClosedLate'
<1> SUFFICES ASSUME IInv, [Next]_vars, Clean', ~open'
             PROVE  pc' = "done" \/ (pc' = "send" /\ step' \in {1, 2, 12})
  BY DEF ClosedLate
<1>0. /\ Loose /\ Places /\ ClosedLate /\ step \in Steps
      /\ \A i \in Tags : errors[i] \in Nat
  BY DEF IInv, Loose
<1>1. CASE UNCHANGED client
  BY <1>0, <1>1 DEF client, tally, ClosedLate, Clean
<1>2. CASE Turn
  <2>1. Clean /\ ~open /\ pc = "loop"
    BY <1>2 DEF Turn, tally, Clean
  <2>2. QED
    BY <1>0, <2>1 DEF ClosedLate
<1>3. CASE Send
  BY <1>3 DEF Send
<1>4. ASSUME NEW good \in BOOLEAN, Settle(good), pc \in {"send", "wait"}
      PROVE  /\ Clean
             /\ good \/ step \notin 2..10
  <2>1. \A i \in Tags : errors'[i] = 0 /\ errors[i] <= errors'[i]
    BY <1>0, <1>4, SettleFacts DEF Clean
  <2>2. Clean
    <3>1. SUFFICES ASSUME NEW i \in Tags PROVE errors[i] = 0
      BY DEF Clean
    <3>2. errors[i] \in Nat /\ errors'[i] = 0 /\ errors[i] <= errors'[i]
      BY <1>0, <2>1
    <3>3. QED
      BY <3>2
  <2>3. ~good => step \notin 2..10
    <3>1. SUFFICES ASSUME ~good, step \in 2..10 PROVE FALSE
      OBVIOUS
    <3>2. step - 2 \in Tags
      BY <3>1 DEF Tags
    <3>3. errors'[step - 2] = errors[step - 2] + 1
      BY <1>0, <1>4, <3>1, SettleFacts
    <3>4. errors'[step - 2] = 0 /\ errors[step - 2] = 0
      BY <2>1, <2>2, <3>2 DEF Clean
    <3>5. QED
      BY <3>3, <3>4
  <2>4. QED
    BY <2>2, <2>3
<1>5. CASE Refuse
  <2>1. Settle(FALSE) /\ pc = "send" /\ ~open
    BY <1>5 DEF Refuse
  <2>2. Clean /\ step \notin 2..10
    BY <1>4, <2>1
  <2>3. step \in {1, 12}
    BY <1>0, <2>1, <2>2 DEF ClosedLate
  <2>4. /\ step = 12 => pc' = "done"
        /\ step \notin {10, 12} => pc' = "send" /\ step' = step + 1
    BY <1>0, <2>1, SettleFacts
  <2>5. QED
    BY <2>3, <2>4
<1>6. CASE TimeOut
  <2>1. Settle(FALSE) /\ pc = "wait"
    BY <1>6 DEF TimeOut
  <2>2. step \notin 2..10
    BY <1>4, <2>1
  <2>3. step \in {0, 1, 11, 12}
    BY <1>0, <2>2 DEF Steps
  <2>4. /\ step = 12 => pc' = "done"
        /\ step # 10 /\ step # 12 => pc' = "send" /\ step' = step + 1
    BY <1>0, <2>1, SettleFacts
  <2>5. QED
    BY <2>3, <2>4
<1>7. CASE Receive
  BY <1>0, <1>7 DEF Receive, Places
<1>8. QED
  BY <1>1, <1>2, <1>3, <1>5, <1>6, <1>7 DEF Next, Calling, vars, PressKey, Execute,
     Lose, Reset

LEMMA ClearedStep == IInv /\ [Next]_vars => Cleared'
<1> SUFFICES ASSUME IInv, [Next]_vars PROVE Cleared'
  OBVIOUS
<1>0. Loose /\ Places /\ InStep /\ Cleared
  BY DEF IInv
<1>1. CASE UNCHANGED vars \/ PressKey
  BY <1>0, <1>1 DEF vars, PressKey, client, board, Cleared
<1>2. CASE Turn
  BY <1>2 DEF Turn, Cleared
<1>3. CASE Send
  <2>1. reply' = None
    BY <1>0, <1>3 DEF Send, Places
  <2>2. QED
    BY <1>0, <1>3, <2>1 DEF Send, board, Cleared
<1>4. CASE Refuse \/ TimeOut
  <2>1. ~open'
    <3>1. CASE Refuse
      BY <3>1 DEF Refuse
    <3>2. CASE TimeOut
      BY <3>2 DEF TimeOut
    <3>3. QED
      BY <1>4, <3>1, <3>2
  <2>2. QED
    BY <2>1 DEF Cleared
<1>5. CASE Receive
  <2>1. Settle(TRUE) /\ pc = "wait" /\ reply # None /\ reply' = None /\ UNCHANGED open
    BY <1>5 DEF Receive
  <2>2. outputs' = outputs /\ (step' = 12 => step \in {11, 12})
    <3>1. step \in Nat
      BY <1>0 DEF Loose, Steps
    <3>2. /\ outputs' = outputs /\ (step = 10 => step' = 10)
          /\ step \notin {10, 12} => step' = step + 1
      BY <1>0, <2>1, SettleFacts
    <3>3. QED
      BY <3>1, <3>2
  <2>3. QED
    BY <1>0, <2>1, <2>2 DEF Cleared
<1>6. CASE Execute
  <2>1. /\ UNCHANGED client /\ request # None
        /\ outputs' = IF request.op = "write" /\ request.tag = 4 THEN request.word
                                                                 ELSE outputs
    BY <1>6 DEF Execute
  <2>2. open => request = RequestOf(step)
    BY <1>0, <2>1 DEF InStep
  <2>3. CASE open /\ step \in {11, 12}
    <3>1. step = 11 => outputs' = 0
      BY <2>1, <2>2, <2>3 DEF RequestOf, CleanUp
    <3>2. step = 12 => outputs' = outputs
      BY <2>1, <2>2, <2>3 DEF RequestOf, CleanUp
    <3>3. QED
      BY <1>0, <2>1, <2>3, <3>1, <3>2 DEF Cleared, client
  <2>4. CASE ~(open /\ step \in {11, 12})
    BY <2>1, <2>4 DEF Cleared, client
  <2>5. QED
    BY <2>3, <2>4
<1>7. CASE Lose
  BY <1>0, <1>7 DEF Lose, client, board, Cleared
<1>8. CASE Reset
  BY <1>8 DEF Reset, Cleared
<1>9. QED
  BY <1>1, <1>2, <1>3, <1>4, <1>5, <1>6, <1>7, <1>8 DEF Next, Calling

LEMMA ValuesStep == IInv /\ [Next]_vars => Values'
<1> SUFFICES ASSUME IInv, [Next]_vars PROVE Values'
  OBVIOUS
<1>0. /\ Loose /\ Places /\ InStep /\ Values /\ step \in Steps
      /\ \A i \in Tags : reads[i] \in Nat
  BY DEF IInv, Loose
<1>1. CASE UNCHANGED vars \/ PressKey
  BY <1>0, <1>1 DEF vars, PressKey, client, tally, board, Values, Counted
<1>2. CASE Turn
  <2>1. /\ pc = "loop" /\ pc' = "send" /\ step' \in {0, 11}
        /\ UNCHANGED <<reads, counter, reply, open, session>>
    BY <1>2 DEF Turn, tally, board
  <2>2. reply = None
    BY <1>0, <2>1 DEF Places
  <2>3. QED
    BY <1>0, <2>1, <2>2 DEF Values, Counted
<1>3. CASE Send
  <2>1. /\ pc = "send" /\ pc' = "wait"
        /\ UNCHANGED <<step, word, reads, reply, open, session, counter, loopIn, loopOut>>
    BY <1>3 DEF Send, tally, board
  <2>2. reply = None
    BY <1>0, <2>1 DEF Places
  <2>3. QED
    BY <1>0, <2>1, <2>2 DEF Values, Counted
<1>4. CASE Refuse \/ TimeOut
  <2>1. ~open'
    <3>1. CASE Refuse
      BY <3>1 DEF Refuse
    <3>2. CASE TimeOut
      BY <3>2 DEF TimeOut
    <3>3. QED
      BY <1>4, <3>1, <3>2
  <2>2. QED
    BY <2>1 DEF Values
<1>5. CASE Receive
  <2>1. Settle(TRUE) /\ pc = "wait" /\ reply # None /\ reply' = None /\ UNCHANGED open
    BY <1>5 DEF Receive
  <2>2. /\ UNCHANGED <<word, session, counter, loopIn, loopOut>>
        /\ reads'[0] = IF step = 2 THEN reads[0] + 1 ELSE reads[0]
        /\ pc' # "wait"
        /\ step' \in 2..10 /\ pc' = "send" => step \in 1..9
    <3>1. step \in Nat
      BY <1>0 DEF Steps
    <3>2. /\ UNCHANGED <<word, session, counter, loopIn, loopOut>>
          /\ reads'[0] = IF step = 2 THEN reads[0] + 1 ELSE reads[0]
          /\ step = 10 => pc' = "loop"
          /\ step = 12 => pc' = "done"
          /\ step \notin {10, 12} => pc' = "send" /\ step' = step + 1
      BY <1>0, <2>1, SettleFacts
    <3>3. QED
      BY <3>1, <3>2
  <2>3. Counted' = Counted
    BY <2>1, <2>2 DEF Counted
  <2>4. open /\ session => counter = Counted % WordModulus
    BY <1>0, <2>1 DEF Values
  <2>5. open /\ session /\ step \in 1..9 => loopIn = word /\ loopOut = word
    BY <1>0, <2>1 DEF Values
  <2>6. QED
    BY <2>1, <2>2, <2>3, <2>4, <2>5 DEF Values
<1>6. CASE Execute
  <2>1. CASE ~open
    BY <1>6, <2>1 DEF Execute, client, Values
  <2>2. CASE open
    <3>1. /\ UNCHANGED client /\ session /\ session' = session /\ request # None
          /\ request' = None
      BY <1>6 DEF Execute
    <3>2. request = RequestOf(step) /\ pc = "wait" /\ reply = None
      BY <1>0, <2>2, <3>1 DEF InStep, Places
    <3>3. reply' = [op |-> "good", tag |-> request.tag,
                    word |-> IF request.op = "read" THEN ValueOf(request.tag) ELSE 0]
      BY <1>6, <3>2 DEF Execute
    <3>4. reply' # None
      BY <3>3 DEF None
    <3>5. /\ UNCHANGED <<pc, step, word, reads, open>>
          /\ counter = reads[0] % WordModulus
      BY <1>0, <2>2, <3>1, <3>2 DEF Values, Counted, client, tally
    <3>6. CASE step = 2
      <4>1. request.op = "read" /\ request.tag = 0
        BY <3>2, <3>6 DEF RequestOf, CleanUp
      <4>2. counter' = (reads[0] + 1) % WordModulus /\ reply'.word = counter'
            /\ loopIn' = loopIn /\ loopOut' = loopOut
        <5>1. reads[0] \in Nat
          BY <1>0 DEF Tags
        <5>2. CounterRead = (reads[0] + 1) % WordModulus
          BY <3>5, <5>1, WordAssumption, NextRemainder DEF CounterRead
        <5>3. QED
          BY <1>6, <3>3, <4>1, <5>2 DEF Execute, ValueOf
      <4>3. Counted' = reads[0] + 1
        BY <3>2, <3>4, <3>5, <3>6 DEF Counted
      <4>4. loopIn = word /\ loopOut = word
        BY <1>0, <2>2, <3>1, <3>2, <3>6 DEF Values
      <4>5. QED
        BY <3>5, <3>6, <4>2, <4>3, <4>4 DEF Values
    <3>7. CASE step # 2
      <4>1. ~(request.op = "read" /\ request.tag = 0)
        BY <1>0, <3>2, <3>7 DEF RequestOf, CleanUp, Steps
      <4>2. counter' = counter /\ Counted' = reads[0]
        BY <1>6, <3>5, <3>7, <4>1 DEF Execute, Counted
      <4>3. step = 1 => loopIn' = word /\ loopOut' = word
        BY <1>6, <3>2 DEF Execute, RequestOf, CleanUp
      <4>4. step \in 3..10 => /\ loopIn' = loopIn /\ loopOut' = loopOut
                              /\ loopIn = word /\ loopOut = word
        <5>1. step \in 3..10 => request.op = "read"
          BY <3>2 DEF RequestOf, CleanUp
        <5>2. QED
          BY <1>0, <1>6, <2>2, <3>1, <3>2, <5>1 DEF Execute, Values
      <4>5. step \in 3..4 => reply'.word = word
        <5>1. step \in 3..4 => request.op = "read" /\ request.tag \in {1, 2}
          BY <3>2 DEF RequestOf, CleanUp
        <5>2. step \in 3..4 => ValueOf(request.tag) = word
          BY <4>4, <5>1 DEF ValueOf
        <5>3. QED
          BY <3>3, <5>1, <5>2
      <4>6. QED
        BY <1>0, <3>5, <3>7, <4>2, <4>3, <4>4, <4>5 DEF Values, Steps
    <3>8. QED
      BY <3>6, <3>7
  <2>3. QED
    BY <2>1, <2>2
<1>7. CASE Lose
  <2>1. /\ UNCHANGED <<client, board>>
        /\ (reply' # None => reply' = reply) /\ (request' # None => request' = request)
    BY <1>7 DEF Lose
  <2>2. reply # None => request = None
    BY <1>0 DEF Places
  <2>3. UNCHANGED <<pc, step, word, reads, open, session, counter, loopIn, loopOut>>
    BY <2>1 DEF client, tally, board
  <2>4. pc = "wait" /\ (request' # None \/ reply' # None) => Counted' = Counted
    BY <2>1, <2>2, <2>3 DEF Counted
  <2>5. pc # "wait" => Counted' = Counted
    BY <2>3 DEF Counted
  <2>6. QED
    BY <1>0, <2>1, <2>3, <2>4, <2>5 DEF Values
<1>8. CASE Reset
  BY <1>8 DEF Reset, Values
<1>9. QED
  BY <1>1, <1>2, <1>3, <1>4, <1>5, <1>6, <1>7, <1>8 DEF Next, Calling

-----------------------------------------------------------------------------
LEMMA NextKeeps == IInv /\ [Next]_vars => IInv'
  BY LooseStep, PlacesStep, TallyStep, InStepStep, ClosedLateStep, ValuesStep,
     ClearedStep DEF IInv

\* Every reachable state of client and server satisfies IInv.
THEOREM Invariance == Spec => []IInv
  BY InitHolds, NextKeeps, PTL DEF Spec

\* The types: every counter stays within what the cycles allow.
THEOREM TypeCorrect == Spec => []TypeOK
<1>1. ASSUME IInv PROVE TypeOK
  <2>1. Loose /\ TallyAddsUp /\ InStep /\ Places
    BY <1>1 DEF IInv
  <2>2. \A i \in Tags : reads[i] \in 0..MaxCycles /\ errors[i] \in 0..MaxCycles
    <3>1. SUFFICES ASSUME NEW i \in Tags
                   PROVE reads[i] \in 0..MaxCycles /\ errors[i] \in 0..MaxCycles
      OBVIOUS
    <3>2. reads[i] \in Nat /\ errors[i] \in Nat /\ cycles \in Nat /\ cycles <= MaxCycles
      BY <2>1, BoundsAssumption DEF Loose
    <3>3. reads[i] + errors[i] <= MaxCycles
      <4>1. CASE pc # "loop" /\ step \in (i + 3)..10
        <5>1. cycles < MaxCycles
          BY <2>1, <4>1 DEF Places, Loose
        <5>2. reads[i] + errors[i] = cycles + 1
          BY <2>1, <4>1 DEF TallyAddsUp
        <5>3. QED
          BY <3>2, <5>1, <5>2, BoundsAssumption
      <4>2. CASE ~(pc # "loop" /\ step \in (i + 3)..10)
        BY <2>1, <3>2, <4>2 DEF TallyAddsUp
      <4>3. QED
        BY <4>1, <4>2
    <3>4. QED
      BY <3>2, <3>3, BoundsAssumption
  <2>3. adcReads \in 0..(4 * MaxCycles) /\ adcErrors \in 0..(4 * MaxCycles)
    <3>1. /\ adcReads = reads[5] + reads[6] + reads[7] + reads[8]
          /\ adcErrors = errors[5] + errors[6] + errors[7] + errors[8]
      BY <2>1 DEF TallyAddsUp
    <3>2. \A i \in 5..8 : reads[i] \in 0..MaxCycles /\ errors[i] \in 0..MaxCycles
      BY <2>2 DEF Tags
    <3>3. QED
      BY <3>1, <3>2, BoundsAssumption
  <2>4. written \in 0..(2 * MaxCycles + 2)
    BY <2>1, BoundsAssumption DEF Loose, InStep, Pending
  <2>5. reads \in [Tags -> 0..MaxCycles] /\ errors \in [Tags -> 0..MaxCycles]
    BY <2>1, <2>2 DEF Loose
  <2>6. QED
    BY <2>1, <2>3, <2>4, <2>5 DEF Loose, TypeOK
<1>2. QED
  BY Invariance, <1>1, PTL

\* The statistics of the client add up, whatever is lost and whenever it stops.
THEOREM StatisticsAddUp == Spec => []TallyAddsUp
<1>1. IInv => TallyAddsUp
  BY DEF IInv
<1>2. QED
  BY Invariance, <1>1, PTL

\* A run without read errors has had all its writes executed.
THEOREM NoErrorsNoLoss == Spec => []ReliableMeansWritten
<1>1. ASSUME IInv, pc = "loop" \/ (pc = "send" /\ step = 11), Clean
      PROVE  written = 2 * cycles
  <2>1. open
    BY <1>1 DEF IInv, ClosedLate
  <2>2. pc = "send" => written = 2 * cycles + 0
    BY <1>1, <2>1 DEF IInv, InStep, Sent
  <2>3. QED
    BY <1>1, <2>1, <2>2 DEF IInv, InStep, Loose
<1>2. IInv => ReliableMeansWritten
  BY <1>1 DEF ReliableMeansWritten, Clean
<1>3. QED
  BY Invariance, <1>2, PTL

\* The outputs are off when the client says so, unless a call has timed out.
THEOREM OutputsAreReset == Spec => []OutputsReset
<1>1. IInv => OutputsReset
  BY DEF IInv, Cleared, Places, OutputsReset
<1>2. QED
  BY Invariance, <1>1, PTL

\* What a read that succeeds returns of the diagnostic tags is up to date.
THEOREM ReadsAreCurrent == Spec => GoodReadsAreCurrent
<1> DEFINE Current == \A i \in 0..2 : reads'[i] # reads[i] =>
               reply.word = IF i = 0 THEN reads'[0] % WordModulus ELSE word
<1>1. ASSUME IInv, [Next]_vars, NEW i \in 0..2, reads'[i] # reads[i]
      PROVE  reply.word = IF i = 0 THEN reads'[0] % WordModulus ELSE word
  <2>0. /\ Loose /\ Places /\ Values /\ step \in Steps /\ i \in Tags
        /\ reads \in [Tags -> Nat]
    BY <1>1 DEF IInv, Loose, Tags
  <2>1. PICK good \in BOOLEAN : Settle(good) /\ (good => Receive)
    BY <1>1 DEF Next, Calling, vars, PressKey, Turn, Send, Execute, Lose, Reset, client,
       tally, Refuse, Receive, TimeOut
  <2>2. step \in 2..10 /\ Count(good)
    BY <1>1, <2>1 DEF Settle, tally
  <2>3. good /\ i = step - 2
    BY <1>1, <2>0, <2>2 DEF Count
  <2>4. pc = "wait" /\ reply # None
    BY <2>1, <2>3 DEF Receive
  <2>5. open /\ session
    BY <2>0, <2>4 DEF Places
  <2>6. step \in 2..4 /\ (step = 2 <=> i = 0)
    BY <2>0, <2>2, <2>3
  <2>7. reply.word = IF i = 0 THEN Counted % WordModulus ELSE word
    BY <2>0, <2>4, <2>5, <2>6 DEF Values
  <2>8. i = 0 => Counted = reads'[0]
    BY <2>0, <2>1, <2>3, <2>4, <2>6, SettleFacts DEF Counted
  <2>9. QED
    BY <2>7, <2>8
<1>2. IInv /\ [Next]_vars => [Current]_vars
  BY <1>1
<1>3. Spec => [][Current]_vars
  BY Invariance, <1>2, PTL DEF Spec
<1>4. QED
  BY <1>3 DEF GoodReadsAreCurrent

-----------------------------------------------------------------------------
(* The key.  The provers have no ENABLED: that the client's program runs is  *)
(* stated as WF_vars(Calling) with the states it can take no step in named.  *)

Runs == []<>(pc = "done" \/ (pc = "loop" /\ ~key)) \/ []<><<Calling>>_vars

\* The most steps the client takes from here, once a key is pressed.
StepsLeft ==
    LET ofCall == IF pc = "send" THEN 2 ELSE 1
    IN  IF pc = "done" THEN 0
        ELSE IF pc = "loop" THEN 5
        ELSE IF step > 10 THEN 2 * (12 - step) + ofCall
        ELSE 5 + 2 * (10 - step) + ofCall

\* A key is pressed, and n steps are left, or at most n.
Exactly(n) == key /\ StepsLeft = n
Within(n) == key /\ StepsLeft <= n

\* With n steps left each step of the client leaves fewer, whatever comes of the
\* call, and nothing the server or the network does adds to them.
OneLess(n, m) ==
    /\ IInv /\ Exactly(n) /\ [Next]_vars => Exactly(n)' \/ Within(m)'
    /\ IInv /\ Exactly(n) /\ <<Calling>>_vars => Within(m)'
    /\ IInv => (Within(n) <=> Exactly(n) \/ Within(m))
    /\ Exactly(n) => ~(pc = "done" \/ (pc = "loop" /\ ~key))

LEMMA CallingLeavesLess ==
    ASSUME IInv, key, Calling
    PROVE  key' /\ StepsLeft' \in Nat /\ StepsLeft' < StepsLeft
<1> USE DEF StepsLeft
<1>0. Loose /\ Places /\ step \in 0..12
  BY DEF IInv, Loose, Steps
<1>1. CASE Turn
  BY <1>0, <1>1 DEF Turn
<1>2. CASE Send
  BY <1>0, <1>2 DEF Send
<1>3. CASE Refuse \/ Receive \/ TimeOut
  <2>1. PICK good \in BOOLEAN : Settle(good)
    BY <1>3 DEF Refuse, Receive, TimeOut
  <2>2. pc \in {"send", "wait"} /\ key' = key
    BY <1>3 DEF Refuse, Receive, TimeOut, Settle
  <2>3. QED
    BY <1>0, <2>1, <2>2, SettleFacts
<1>4. QED
  BY <1>1, <1>2, <1>3 DEF Calling

LEMMA StepsLeftBounds ==
    IInv => /\ StepsLeft \in 0..27
            /\ StepsLeft = 0 <=> pc = "done"
            /\ key /\ pc = "loop" => StepsLeft = 5
  BY DEF StepsLeft, IInv, Loose, Steps

LEMMA EachStepLess ==
    ASSUME NEW n \in 1..27, NEW m \in 0..26, n = m + 1
    PROVE  OneLess(n, m)
<1> USE DEF Exactly, Within
<1>1. ASSUME IInv PROVE Within(n) <=> Exactly(n) \/ Within(m)
  BY <1>1, StepsLeftBounds
<1>2. ASSUME IInv, Exactly(n), Calling PROVE Within(m)'
  <2>1. key' /\ StepsLeft' \in Nat /\ StepsLeft' < n
    BY <1>2, CallingLeavesLess
  <2>2. QED
    BY <2>1
<1>3. ASSUME IInv, Exactly(n), [Next]_vars PROVE Exactly(n)' \/ Within(m)'
  <2>1. CASE Calling
    BY <1>2, <1>3, <2>1
  <2>2. CASE PressKey \/ Execute \/ Lose \/ Reset \/ UNCHANGED vars
    <3>1. pc' = pc /\ step' = step /\ key'
      BY <1>3, <2>2 DEF PressKey, Execute, Lose, Reset, vars, client
    <3>2. QED
      BY <1>3, <3>1 DEF StepsLeft
  <2>3. QED
    BY <1>3, <2>1, <2>2 DEF Next
<1>4. Exactly(n) => ~(pc = "done" \/ (pc = "loop" /\ ~key))
  BY DEF StepsLeft
<1>5. QED
  BY <1>1, <1>2, <1>3, <1>4 DEF OneLess

\* "Press any key to stop": the client stops within 27 of its steps, whatever
\* becomes of its calls, if its program runs.
THEOREM KeyStopsClient == Spec /\ Runs => KeyStops
<1>1. /\ OneLess(1, 0) /\ OneLess(2, 1) /\ OneLess(3, 2) /\ OneLess(4, 3)
      /\ OneLess(5, 4) /\ OneLess(6, 5) /\ OneLess(7, 6) /\ OneLess(8, 7)
      /\ OneLess(9, 8)
  BY EachStepLess
<1>2. /\ OneLess(10, 9) /\ OneLess(11, 10) /\ OneLess(12, 11) /\ OneLess(13, 12)
      /\ OneLess(14, 13) /\ OneLess(15, 14) /\ OneLess(16, 15) /\ OneLess(17, 16)
      /\ OneLess(18, 17)
  BY EachStepLess
<1>3. /\ OneLess(19, 18) /\ OneLess(20, 19) /\ OneLess(21, 20) /\ OneLess(22, 21)
      /\ OneLess(23, 22) /\ OneLess(24, 23) /\ OneLess(25, 24) /\ OneLess(26, 25)
      /\ OneLess(27, 26)
  BY EachStepLess
<1>4. Spec /\ Runs => (Within(9) ~> Within(0))
  BY <1>1, Invariance, PTL DEF Spec, Runs, OneLess
<1>5. Spec /\ Runs => (Within(18) ~> Within(9))
  BY <1>2, Invariance, PTL DEF Spec, Runs, OneLess
<1>6. Spec /\ Runs => (Within(27) ~> Within(18))
  BY <1>3, Invariance, PTL DEF Spec, Runs, OneLess
<1>7. IInv /\ key => Within(27)
  BY StepsLeftBounds DEF Within
<1>8. IInv /\ Within(0) => pc = "done"
  BY StepsLeftBounds DEF Within
<1>9. QED
  BY <1>4, <1>5, <1>6, <1>7, <1>8, Invariance, PTL DEF KeyStops
=============================================================================
