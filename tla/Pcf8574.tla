------------------------------ MODULE Pcf8574 ------------------------------
(***************************************************************************)
(* components/esp32-pcf8574/pcf8574.c: bytes and single bits of one        *)
(* expander.  A byte is the set of its high bits.  The ports are quasi-    *)
(* bidirectional: a pin is high if its latch is and nothing outside pulls  *)
(* it low, and a read returns the pins.  The firmware's tasks move whole   *)
(* bytes (see DiscreteIO); the bit functions, which the header offers and  *)
(* explains, read, modify and write in two transactions without a lock.    *)
(***************************************************************************)
EXTENDS Naturals

CONSTANTS
    Callers,        \* tasks that share the chip
    Bits,           \* 0..7
    Calls,          \* the calls they make
    MaxFaults       \* bound of the model: failing transactions

bitCalls == {"set", "clear", "get"}

\* 8 stands for every bit position the chip has not; dev says whether a device
\* is passed or NULL.
Call == [dev : {TRUE}, kind : bitCalls, bit : Bits \cup {8}, byte : {{}}]
          \cup [dev : {TRUE}, kind : {"write"}, bit : {8}, byte : SUBSET Bits]
          \cup [dev : {TRUE}, kind : {"read"}, bit : {8}, byte : {{}}]
          \cup [dev : {FALSE}, kind : bitCalls \cup {"write", "read"},
               bit : {8}, byte : {{}}]
NoCall == [dev |-> FALSE, kind |-> "read", bit |-> 8, byte |-> {}]

ASSUME BitsAssumption == Bits \subseteq 0..7 /\ Bits # {}
ASSUME CallsAssumption == Calls \subseteq Call /\ MaxFaults \in Nat

VARIABLES
    latch,          \* the bits written high
    pulled,         \* the pins something outside pulls low
    pc, call,       \* of each caller: control point, call in progress
    data,           \* the byte it has read, or is to write
    result,         \* what the function returns
    faults,         \* how many so far
    failed,         \* history: has a transaction of the call failed?
    exact           \* history: is what the call read what is latched now?

vars == <<latch, pulled, pc, call, data, result, faults, failed, exact>>

TypeOK ==
    /\ latch \in SUBSET Bits /\ pulled \in SUBSET Bits
    /\ pc \in [Callers -> {"idle", "read", "write", "ret"}]
    /\ call \in [Callers -> Call]
    /\ data \in [Callers -> SUBSET Bits]
    /\ result \in [Callers -> BOOLEAN]
    /\ faults \in 0..MaxFaults
    /\ failed \in [Callers -> BOOLEAN] /\ exact \in [Callers -> BOOLEAN]

\* The chip powers up with all latches high.
Init ==
    /\ latch = Bits /\ pulled = {}
    /\ pc = [c \in Callers |-> "idle"] /\ call = [c \in Callers |-> NoCall]
    /\ data = [c \in Callers |-> {}] /\ result = [c \in Callers |-> FALSE]
    /\ faults = 0
    /\ failed = [c \in Callers |-> FALSE] /\ exact = [c \in Callers |-> FALSE]

Goto(c, label) == pc' = [pc EXCEPT ![c] = label]

\* Something outside pulls a pin low, or lets go of it.
Pull ==
    /\ \E b \in Bits : pulled' = IF b \in pulled THEN pulled \ {b} ELSE pulled \cup {b}
    /\ UNCHANGED <<latch, pc, call, data, result, faults, failed, exact>>

\* ~(dev == NULL || bit > 7)
Valid(k) == k.dev /\ (k.kind \in bitCalls => k.bit \in Bits)

\* The first statement of each function.  A refused read gives 0xFF, like one
\* that fails.
Begin(c) ==
    /\ pc[c] = "idle"
    /\ \E k \in Calls :
          /\ call' = [call EXCEPT ![c] = k]
          /\ data' = [data EXCEPT ![c] =
                        IF k.kind = "read" /\ ~k.dev THEN Bits ELSE k.byte]
          /\ Goto(c, IF ~Valid(k) THEN "ret"
                     ELSE IF k.kind = "write" THEN "write" ELSE "read")
    /\ result' = [result EXCEPT ![c] = FALSE]
    /\ failed' = [failed EXCEPT ![c] = FALSE]
    /\ exact' = [exact EXCEPT ![c] = FALSE]
    /\ UNCHANGED <<latch, pulled, faults>>

\* Mutant of Refused: the byte is used as it comes.
RefusedNever(byte) == FALSE

\* 0xFF is "Read error" to the bit functions.
Refused(byte) == byte = Bits

\* Mutant of Modified: the mask is not inverted.
ModifiedByMask(k, byte) == IF k.kind = "set" THEN byte \cup {k.bit} ELSE byte \cap {k.bit}

\* Mutant of Modified: 1 << (bit + 1).
ModifiedNext(k, byte) == IF k.kind = "set" THEN byte \cup {k.bit + 1} ELSE byte \ {k.bit}

\* current |= (1 << bit), current &= ~(1 << bit)
Modified(k, byte) == IF k.kind = "set" THEN byte \cup {k.bit} ELSE byte \ {k.bit}

\* pcf8574_read, and what its caller does with the byte.
Read(c) ==
    /\ pc[c] = "read"
    /\ \E byte \in SUBSET Bits :
          /\ \/ /\ byte = latch \ pulled
                /\ exact' = [exact EXCEPT ![c] = (byte = latch)]
                /\ UNCHANGED <<faults, failed>>
             \/ /\ byte = Bits
                /\ faults < MaxFaults /\ faults' = faults + 1
                /\ failed' = [failed EXCEPT ![c] = TRUE]
                /\ UNCHANGED exact
          /\ \/ /\ call[c].kind = "read" \/ Refused(byte)
                /\ data' = [data EXCEPT ![c] = byte]
                /\ Goto(c, "ret") /\ UNCHANGED result
             \/ /\ call[c].kind = "get" /\ ~Refused(byte)
                /\ data' = [data EXCEPT ![c] = byte]
                /\ result' = [result EXCEPT ![c] = call[c].bit \in byte]
                /\ Goto(c, "ret")
             \/ /\ call[c].kind \in {"set", "clear"} /\ ~Refused(byte)
                /\ data' = [data EXCEPT ![c] = Modified(call[c], byte)]
                /\ Goto(c, "write") /\ UNCHANGED result
    /\ UNCHANGED <<latch, pulled, call>>

\* pcf8574_write; a transaction that fails may still have reached the latch.
Write(c) ==
    /\ pc[c] = "write"
    /\ \/ /\ latch' = data[c]
          /\ result' = [result EXCEPT ![c] = TRUE]
          /\ UNCHANGED <<faults, failed>>
       \/ /\ latch' \in {latch, data[c]}
          /\ faults < MaxFaults /\ faults' = faults + 1
          /\ failed' = [failed EXCEPT ![c] = TRUE]
          /\ UNCHANGED result
    /\ exact' = [d \in Callers |-> exact[d] /\ (d = c \/ latch' = latch)]
    /\ Goto(c, "ret")
    /\ UNCHANGED <<pulled, call, data>>

Return(c) ==
    /\ pc[c] = "ret"
    /\ Goto(c, "idle")
    /\ UNCHANGED <<latch, pulled, call, data, result, faults, failed, exact>>

Next == Pull \/ \E c \in Callers : Begin(c) \/ Read(c) \/ Write(c) \/ Return(c)
Spec == Init /\ [][Next]_vars

-----------------------------------------------------------------------------
Setting(c) == pc[c] = "write" /\ call[c].kind \in {"set", "clear"}

\* pcf8574_set_bit works "without affecting others", if the byte it read was
\* the latched one (no pin was pulled low) and nobody has written since.
OthersKept ==
    [][\A c \in Callers : Setting(c) /\ exact[c] /\ pc'[c] = "ret"
          => \A b \in Bits \ {call[c].bit} : b \in latch' <=> b \in latch]_vars

\* It never writes back a byte it has not read: the test for 0xFF stops every
\* failed read.
NoBlindWrite == \A c \in Callers : Setting(c) => ~failed[c]

\* The header says of pcf8574_set_bit: "false if operation failed (invalid
\* parameters, I2C error)".
SetBitSucceeds ==
    \A c \in Callers :
        pc[c] = "ret" /\ call[c].kind \in {"set", "clear"} /\ ~result[c]
          => failed[c] \/ ~Valid(call[c])
=============================================================================
