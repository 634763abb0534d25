--------------------------- MODULE Pcf8574Proofs ---------------------------
(* Proofs about Pcf8574, for any number of callers, bits and faults.        *)
EXTENDS Pcf8574, TLAPS

\* A transaction under way has a valid bit position and no failure behind it.
Sound(c) ==
    /\ pc[c] = "read" /\ call[c].kind \in bitCalls => call[c].bit \in Bits
    /\ pc[c] \in {"read", "write"} => ~failed[c]

\* What is about to be written is the latched byte with one bit changed, as
\* long as the byte that was read is the latched one.
Prepared(c) == Setting(c) /\ exact[c] => data[c] = Modified(call[c], latch)

IInv == TypeOK /\ \A c \in Callers : Sound(c) /\ Prepared(c)

LEMMA CallFacts ==
    /\ Calls \subseteq Call /\ NoCall \in Call
    /\ \A k \in Call : /\ k.kind \in {"set", "clear", "get", "write", "read"}
                       /\ k.bit \in Bits \cup {8} /\ k.byte \in SUBSET Bits
  BY CallsAssumption DEF Call, NoCall, bitCalls

LEMMA InitHolds == Init => IInv
<1> SUFFICES ASSUME Init PROVE IInv
  OBVIOUS
<1>1. TypeOK
  BY CallFacts, CallsAssumption DEF Init, TypeOK
<1>2. \A c \in Callers : Sound(c) /\ Prepared(c)
  BY DEF Init, Sound, Prepared, Setting
<1>3. QED
  BY <1>1, <1>2 DEF IInv

\* Every step keeps the types: a bit function that reaches its first
\* transaction has a position the chip has.
LEMMA TypeStep == IInv /\ [Next]_vars => TypeOK'
<1> SUFFICES ASSUME IInv, [Next]_vars PROVE TypeOK'
  OBVIOUS
<1> USE DEF IInv, TypeOK, Goto
<1>1. CASE UNCHANGED vars
  BY <1>1 DEF vars
<1>2. CASE Pull
  BY <1>2 DEF Pull
<1>3. ASSUME NEW c \in Callers, Begin(c) PROVE TypeOK'
  <2>1. PICK k \in Calls :
           /\ call' = [call EXCEPT ![c] = k]
           /\ data' = [data EXCEPT ![c] =
                IF k.kind = "read" /\ ~k.dev THEN Bits ELSE k.byte]
           /\ pc' = [pc EXCEPT ![c] =
                IF ~Valid(k) THEN "ret"
                ELSE IF k.kind = "write" THEN "write" ELSE "read"]
    BY <1>3 DEF Begin
  <2>2. k \in Call /\ k.byte \in SUBSET Bits
    BY CallFacts
  <2>3. pc' \in [Callers -> {"idle", "read", "write", "ret"}]
    BY <2>1
  <2>4. QED
    BY <1>3, <2>1, <2>2, <2>3 DEF Begin
<1>4. ASSUME NEW c \in Callers, Read(c) PROVE TypeOK'
  <2>1. PICK byte \in SUBSET Bits :
          /\ \/ /\ exact' = [exact EXCEPT ![c] = (byte = latch)]
                /\ UNCHANGED <<faults, failed>>
             \/ /\ faults < MaxFaults /\ faults' = faults + 1
                /\ failed' = [failed EXCEPT ![c] = TRUE]
                /\ UNCHANGED exact
          /\ \/ /\ data' = [data EXCEPT ![c] = byte]
                /\ Goto(c, "ret") /\ UNCHANGED result
             \/ /\ data' = [data EXCEPT ![c] = byte]
                /\ result' = [result EXCEPT ![c] = call[c].bit \in byte]
                /\ Goto(c, "ret")
             \/ /\ call[c].kind \in {"set", "clear"}
                /\ data' = [data EXCEPT ![c] = Modified(call[c], byte)]
                /\ Goto(c, "write") /\ UNCHANGED result
    BY <1>4 DEF Read
  <2>2. data' \in [Callers -> SUBSET Bits]
    <3>1. CASE data' = [data EXCEPT ![c] = byte]
      BY <3>1
    <3>2. CASE /\ call[c].kind \in {"set", "clear"}
               /\ data' = [data EXCEPT ![c] = Modified(call[c], byte)]
      <4>1. call[c].bit \in Bits
        BY <1>4, <3>2 DEF Read, Sound, bitCalls
      <4>2. Modified(call[c], byte) \in SUBSET Bits
        BY <4>1 DEF Modified
      <4>3. QED
        BY <3>2, <4>2
    <3>3. QED
      BY <2>1, <3>1, <3>2
  <2>3. pc' \in [Callers -> {"idle", "read", "write", "ret"}]
    BY <2>1
  <2>4. result' \in [Callers -> BOOLEAN]
    <3>1. (call[c].bit \in byte) \in BOOLEAN
      OBVIOUS
    <3>2. CASE result' = [result EXCEPT ![c] = call[c].bit \in byte]
      BY <3>1, <3>2, Zenon
    <3>3. QED
      BY <2>1, <3>2
  <2>5. faults' \in 0..MaxFaults
    BY <2>1, CallsAssumption
  <2>6. exact' \in [Callers -> BOOLEAN] /\ failed' \in [Callers -> BOOLEAN]
    BY <2>1
  <2>7. QED
    BY <1>4, <2>2, <2>3, <2>4, <2>5, <2>6 DEF Read
<1>5. ASSUME NEW c \in Callers, Write(c) PROVE TypeOK'
  <2>1. latch' \in SUBSET Bits /\ faults' \in 0..MaxFaults
    BY <1>5, CallsAssumption DEF Write
  <2>2. exact' \in [Callers -> BOOLEAN]
    BY <1>5 DEF Write
  <2>3. result' \in [Callers -> BOOLEAN] /\ failed' \in [Callers -> BOOLEAN]
    BY <1>5 DEF Write
  <2>4. QED
    BY <1>5, <2>1, <2>2, <2>3 DEF Write
<1>6. ASSUME NEW c \in Callers, Return(c) PROVE TypeOK'
  BY <1>6 DEF Return
<1>7. QED
  BY <1>1, <1>2, <1>3, <1>4, <1>5, <1>6 DEF Next

LEMMA CallersStep ==
    IInv /\ [Next]_vars => \A c \in Callers : Sound(c)' /\ Prepared(c)'
<1> SUFFICES ASSUME IInv, [Next]_vars, NEW c \in Callers
             PROVE  Sound(c)' /\ Prepared(c)'
  OBVIOUS
<1> USE DEF IInv, TypeOK, Goto, Sound, Prepared, Setting, bitCalls
<1>1. CASE UNCHANGED vars \/ Pull
  BY <1>1 DEF vars, Pull, Modified
<1>2. ASSUME NEW d \in Callers, Begin(d) PROVE Sound(c)' /\ Prepared(c)'
  <2>1. PICK k \in Calls :
           /\ call' = [call EXCEPT ![d] = k]
           /\ pc' = [pc EXCEPT ![d] =
                IF ~Valid(k) THEN "ret"
                ELSE IF k.kind = "write" THEN "write" ELSE "read"]
    BY <1>2 DEF Begin
  <2>2. CASE c = d
    <3>1. pc'[c] = "read" /\ k.kind \in bitCalls => k.bit \in Bits
      BY <2>1, <2>2 DEF Valid
    <3>2. pc'[c] = "write" => k.kind = "write"
      BY <2>1, <2>2
    <3>3. call'[c] = k /\ ~failed'[c]
      BY <1>2, <2>1, <2>2 DEF Begin
    <3>4. QED
      BY <3>1, <3>2, <3>3
  <2>3. CASE c # d
    BY <1>2, <2>1, <2>3 DEF Begin, Modified
  <2>4. QED
    BY <2>2, <2>3
<1>3. ASSUME NEW d \in Callers, Read(d) PROVE Sound(c)' /\ Prepared(c)'
  <2>1. CASE c = d
    <3>1. CASE pc'[c] = "ret"
      BY <3>1
    <3>2. CASE pc'[c] # "ret"
      <4>1. PICK byte \in SUBSET Bits :
               /\ \/ /\ exact' = [exact EXCEPT ![d] = (byte = latch)]
                     /\ UNCHANGED <<faults, failed>>
                  \/ byte = Bits
               /\ call[d].kind \in {"set", "clear"} /\ ~Refused(byte)
               /\ data' = [data EXCEPT ![d] = Modified(call[d], byte)]
               /\ Goto(d, "write")
        BY <1>3, <2>1, <3>2 DEF Read
      <4>2. exact' = [exact EXCEPT ![d] = (byte = latch)] /\ failed' = failed
        BY <4>1 DEF Refused
      <4>3. QED
        BY <1>3, <2>1, <4>1, <4>2 DEF Read, Modified
    <3>3. QED
      BY <3>1, <3>2
  <2>2. CASE c # d
    <3>1. /\ pc'[c] = pc[c] /\ call'[c] = call[c] /\ data'[c] = data[c]
          /\ exact'[c] = exact[c] /\ failed'[c] = failed[c] /\ latch' = latch
      BY <1>3, <2>2 DEF Read
    <3>2. QED
      BY <3>1 DEF Modified
  <2>3. QED
    BY <2>1, <2>2
<1>4. ASSUME NEW d \in Callers, Write(d) PROVE Sound(c)' /\ Prepared(c)'
  <2>1. CASE c = d
    BY <1>4, <2>1 DEF Write
  <2>2. CASE c # d
    <3>1. /\ pc'[c] = pc[c] /\ call' = call /\ data' = data
          /\ failed'[c] = failed[c] /\ (exact'[c] => exact[c] /\ latch' = latch)
      BY <1>4, <2>2 DEF Write
    <3>2. QED
      BY <3>1 DEF Modified
  <2>3. QED
    BY <2>1, <2>2
<1>5. ASSUME NEW d \in Callers, Return(d) PROVE Sound(c)' /\ Prepared(c)'
  BY <1>5 DEF Return, Modified
<1>6. QED
  BY <1>1, <1>2, <1>3, <1>4, <1>5 DEF Next

\* Every reachable state of the chip and its callers satisfies IInv.
THEOREM Invariance == Spec => []IInv
<1>1. IInv /\ [Next]_vars => IInv'
  BY TypeStep, CallersStep DEF IInv
<1>2. QED
  BY InitHolds, <1>1, PTL DEF Spec

\* The types, among them that no bit beyond the port is ever set.
THEOREM TypeCorrect == Spec => []TypeOK
<1>1. IInv => TypeOK
  BY DEF IInv
<1>2. QED
  BY Invariance, <1>1, PTL

\* pcf8574_set_bit never writes back a byte whose read failed.
THEOREM NeverBlind == Spec => []NoBlindWrite
<1>1. IInv => NoBlindWrite
  BY DEF IInv, NoBlindWrite, Sound, Setting
<1>2. QED
  BY Invariance, <1>1, PTL

\* pcf8574_set_bit leaves the other bits of the port alone if the byte it read
\* is still the latched one.
THEOREM OthersAreKept == Spec => OthersKept
<1> DEFINE Keeps == \A c \in Callers : Setting(c) /\ exact[c] /\ pc'[c] = "ret"
                       => \A b \in Bits \ {call[c].bit} : b \in latch' <=> b \in latch
<1>1. ASSUME IInv, [Next]_vars, NEW c \in Callers,
             Setting(c), exact[c], pc'[c] = "ret"
      PROVE  \A b \in Bits \ {call[c].bit} : b \in latch' <=> b \in latch
  <2> USE <1>1 DEF IInv, TypeOK, Goto, Setting
  <2>1. data[c] = Modified(call[c], latch)
    BY DEF Prepared
  <2>2. latch' = latch \/ latch' = data[c]
    <3>1. ASSUME NEW d \in Callers, Write(d) PROVE latch' \in {latch, data[c]}
      <4>1. d = c
        BY <3>1 DEF Write
      <4>2. QED
        BY <3>1, <4>1 DEF Write
    <3>2. QED
      BY <3>1 DEF Next, vars, Pull, Begin, Read, Return
  <2>3. QED
    BY <2>1, <2>2 DEF Modified
<1>2. IInv /\ [Next]_vars => [Keeps]_vars
  BY <1>1
<1>3. Spec => [][Keeps]_vars
  BY Invariance, <1>2, PTL DEF Spec
<1>4. QED
  BY <1>3 DEF OthersKept
=============================================================================
