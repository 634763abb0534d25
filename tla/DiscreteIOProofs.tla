--------------------------- MODULE DiscreteIOProofs ---------------------------
(***************************************************************************)
(* Theorems about DiscreteIO, for every set of commands, every byte width  *)
(* and any number of failures and resets.                                  *)
(***************************************************************************)
EXTENDS DiscreteIO, TLAPS

SafeSpec == Init /\ [][Next]_vars

-----------------------------------------------------------------------------
(* Types.                                                                  *)

\* Complementing a byte gives a byte, twice gives it back.
LEMMA NotByte == \A b \in Byte : Not(b) \in Byte /\ Not(Not(b)) = b
BY TopAssumption DEF Byte, Not

LEMMA Ports == /\ AllOff \in Word /\ AllOn \in Word
               /\ Not(0) = Top /\ \A p \in Port : AllOff[p] = 0 /\ AllOn[p] = Top
               /\ \A label : Addressed(label) \in Port
BY TopAssumption DEF AllOff, AllOn, Word, Byte, Port, Addressed, Not

LEMMA AfterControl ==
    \A label \in Safing \cup Moving : After(label) \in Control
BY DEF After, Safing, Moving, Control

\* A failure is counted within the bound; success counts nothing.
LEMMA Counted ==
    ASSUME TypeOK, NEW kind, NEW side \in Sides, Fails(kind, side) \/ Works
    PROVE  faults' \in 0..MaxFaults /\ resets' \in 0..MaxResets /\ spoilt' \in SUBSET Sides
BY BoundsAssumption DEF TypeOK, Fails, Works, count

LEMMA InitType == Init => TypeOK
<1> SUFFICES ASSUME Init PROVE TypeOK
  OBVIOUS
<1>1. faults \in 0..MaxFaults /\ resets \in 0..MaxResets
  BY BoundsAssumption DEF Init
<1>2. pc \in [Tasks -> Control]
  BY DEF Init, Control
<1>3. seen \in [Port -> SUBSET Byte]
  BY DEF Init
<1>4. QED
  BY <1>1, <1>2, <1>3, Ports DEF Init, TypeOK

LEMMA TypeStep == TypeOK /\ [Next]_vars => TypeOK'
<1> SUFFICES ASSUME TypeOK, [Next]_vars PROVE TypeOK'
  OBVIOUS
<1> USE DEF TypeOK
<1>1. CASE UNCHANGED vars
  BY <1>1 DEF vars, chips, flags, image, count, history
<1>2. CASE Plant
  <2>1. seen' \in [Port -> SUBSET Byte] /\ pins' \in Word
    BY <1>2 DEF Plant, Word
  <2>2. QED
    BY <1>2, <2>1 DEF Plant, flags, image, count
<1>3. CASE Poll
  <2>1. \A p \in Port : pins[p] \in Byte
    BY DEF Word
  <2>2. QED
    BY <1>3, <2>1 DEF Poll, Goto, Control, Tasks, chips, flags, image, count
<1>4. CASE Command
  BY <1>4, CommandsAssumption
     DEF Command, Goto, Control, Tasks, chips, flags, image, count
<1>5. CASE Reset
  <2>1. resets' \in 0..MaxResets /\ faults' \in 0..MaxFaults
    BY <1>5, BoundsAssumption DEF Reset
  <2>2. QED
    BY <1>5, <2>1, Ports DEF Reset, Reset0, Control, chips
<1>6. ASSUME NEW t \in Tasks, Step(t) PROVE TypeOK'
  <2>1. CASE Check(t) \/ EnterInit(t) \/ CheckBus(t) \/ BusReady(t) \/ InitDone(t)
    BY <2>1 DEF Check, EnterInit, CheckBus, BusReady, InitDone, Goto, Control,
       Safing, Moving, Tasks, chips, flags, image, count, history
  <2>2. CASE Install(t)
    <3>1. faults' \in 0..MaxFaults /\ resets' \in 0..MaxResets /\ spoilt' \in SUBSET Sides
      BY <2>2, Counted DEF Install, Side, Sides
    <3>2. QED
      BY <2>2, <3>1 DEF Install, Goto, Control, Tasks, chips, image, history
  <2>3. CASE MakeSafe(t)
    <3>1. Top \in Byte /\ Addressed(pc[t]) \in Port
      BY Ports, TopAssumption DEF Byte
    <3>2. faults' \in 0..MaxFaults /\ resets' \in 0..MaxResets /\ spoilt' \in SUBSET Sides
      BY <2>3, Counted DEF MakeSafe, WritePort, Sides
    <3>3. latch' \in Word
      BY <2>3, <3>1 DEF MakeSafe, WritePort, Word
    <3>4. pc' \in [Tasks -> Control]
      BY <2>3, AfterControl DEF MakeSafe, Goto
    <3>5. QED
      BY <2>3, <3>2, <3>3, <3>4 DEF MakeSafe, flags, image, history
  <2>4. CASE Recheck(t)
    BY <2>4, Ports DEF Recheck, Goto, Control, Moving, Tasks, chips, flags, image, count, history
  <2>5. CASE Store(t)
    <3>1. faults' \in 0..MaxFaults /\ resets' \in 0..MaxResets /\ spoilt' \in SUBSET Sides
      BY <2>5, Counted DEF Store, Side, Sides
    <3>2. seen' \in [Port -> SUBSET Byte]
      BY <2>5 DEF Store
    <3>3. QED
      BY <2>5, <3>1, <3>2, Ports DEF Store, Goto, Control, Tasks, chips, flags
  <2>6. CASE t = "poll" /\ ReadPort
    <3>1. PICK b \in Byte :
             /\ Works \/ Fails("read", "inputs")
             /\ data' = [data EXCEPT !["poll"][Addressed(pc["poll"])] = Not(b)]
      BY <2>6 DEF ReadPort
    <3>2. data' \in [Tasks -> Word]
      BY <3>1, NotByte, Ports DEF Tasks, Word
    <3>3. faults' \in 0..MaxFaults /\ resets' \in 0..MaxResets /\ spoilt' \in SUBSET Sides
      BY <3>1, Counted DEF Sides
    <3>4. pc' \in [Tasks -> Control]
      BY <2>6, AfterControl DEF ReadPort, Goto
    <3>5. QED
      BY <2>6, <3>2, <3>3, <3>4 DEF ReadPort, chips, flags, image, history
  <2>7. CASE t = "opc" /\ OutputPort
    <3>1. /\ Addressed(pc["opc"]) \in Port
          /\ Not(data["opc"][Addressed(pc["opc"])]) \in Byte
      BY Ports, NotByte DEF Tasks, Word
    <3>2. faults' \in 0..MaxFaults /\ resets' \in 0..MaxResets /\ spoilt' \in SUBSET Sides
      BY <2>7, Counted DEF OutputPort, WritePort, Sides
    <3>3. latch' \in Word
      BY <2>7, <3>1 DEF OutputPort, WritePort, Word
    <3>4. pc' \in [Tasks -> Control]
      BY <2>7, AfterControl DEF OutputPort, Goto
    <3>5. QED
      BY <2>7, <3>2, <3>3, <3>4 DEF OutputPort, flags, image, history
  <2>8. QED
    BY <1>6, <2>1, <2>2, <2>3, <2>4, <2>5, <2>6, <2>7 DEF Step
<1>7. QED
  BY <1>1, <1>2, <1>3, <1>4, <1>5, <1>6 DEF Next

\* Every variable keeps its type.
THEOREM TypeCorrect == SafeSpec => []TypeOK
BY InitType, TypeStep, PTL DEF SafeSpec

-----------------------------------------------------------------------------
(* The control flow of a call.                                             *)

\* Where a task that is in a call can get to by its own step.
Ways(t, label) ==
    CASE label = "check" -> {"init", "port1"}
      [] label = "init" -> {"recheck", "bus"}
      [] label = "bus" -> {"safe1", "install"}
      [] label = "install" -> {"ready", "recheck"}
      [] label = "ready" -> {"safe1"}
      [] label = "safe1" -> {"safe2"}
      [] label = "safe2" -> {"done"}
      [] label = "done" -> {"recheck"}
      [] label = "recheck" -> {"port1", "store"}
      [] label = "port1" -> {"port2"}
      [] label = "port2" -> {"store"}
      [] label = "store" -> {"idle"}

LEMMA StepWays ==
    ASSUME TypeOK, NEW t \in Tasks, Step(t)
    PROVE  /\ pc[t] # "idle" /\ pc'[t] \in Ways(t, pc[t])
           /\ \A u \in Tasks : u # t => pc'[u] = pc[u]
           /\ UNCHANGED resets
<1> USE DEF TypeOK, Goto, Ways, Works, Fails, count
<1>1. CASE Check(t) \/ EnterInit(t) \/ CheckBus(t)
  BY <1>1 DEF Check, EnterInit, CheckBus
<1>2. CASE Install(t)
  BY <1>2 DEF Install
<1>3. CASE BusReady(t) \/ InitDone(t)
  BY <1>3 DEF BusReady, InitDone
<1>4. CASE MakeSafe(t)
  BY <1>4 DEF MakeSafe, WritePort, Safing, After
<1>5. CASE Recheck(t) \/ Store(t)
  BY <1>5 DEF Recheck, Store
<1>6. CASE (t = "poll" /\ ReadPort) \/ (t = "opc" /\ OutputPort)
  BY <1>6 DEF ReadPort, OutputPort, WritePort, Moving, After
<1>7. QED
  BY <1>1, <1>2, <1>3, <1>4, <1>5, <1>6 DEF Step

-----------------------------------------------------------------------------
(* The driver and the flags.                                               *)

\* Both flags promise the driver.
DriverPromised == (i2cReady \/ dioReady => driver) /\ DriverBeforeUse

LEMMA DriverStep == TypeOK /\ DriverPromised /\ [Next]_vars => DriverPromised'
<1> SUFFICES ASSUME TypeOK, DriverPromised, [Next]_vars PROVE DriverPromised'
  OBVIOUS
<1> USE DEF TypeOK, DriverPromised, DriverBeforeUse, Goto, Tasks, Safing, Moving
<1>1. CASE UNCHANGED vars \/ Plant \/ Poll \/ Command \/ Reset
  BY <1>1 DEF vars, flags, Plant, Poll, Command, Reset, Reset0
<1>2. ASSUME NEW t \in Tasks, Step(t) PROVE DriverPromised'
  <2>1. CASE Check(t) \/ EnterInit(t) \/ CheckBus(t) \/ BusReady(t) \/ InitDone(t)
    BY <2>1 DEF Check, EnterInit, CheckBus, BusReady, InitDone, flags
  <2>2. CASE Install(t)
    BY <2>2 DEF Install
  <2>3. CASE MakeSafe(t)
    BY <2>3 DEF MakeSafe, After, flags
  <2>4. CASE Recheck(t) \/ Store(t)
    BY <2>4 DEF Recheck, Store, flags
  <2>5. CASE (t = "poll" /\ ReadPort) \/ (t = "opc" /\ OutputPort)
    BY <2>5 DEF ReadPort, OutputPort, After, flags
  <2>6. QED
    BY <1>2, <2>1, <2>2, <2>3, <2>4, <2>5 DEF Step
<1>3. QED
  BY <1>1, <1>2 DEF Next

\* No chip is addressed before the driver is installed, in whatever order two
\* tasks pass the unlocked flags and whatever fails.
THEOREM DriverFirst == SafeSpec => []DriverBeforeUse
<1>1. Init => DriverPromised
  BY DEF Init, DriverPromised, DriverBeforeUse, Safing, Moving
<1>2. QED
  BY <1>1, TypeCorrect, DriverStep, PTL DEF SafeSpec, DriverPromised

\* An installed driver is known, or about to be.
DriverKnown == driver => i2cReady \/ \E t \in Tasks : pc[t] = "ready"

LEMMA KnownStep ==
    TypeOK /\ DriverKnown /\ [Next]_vars => DriverKnown'
<1> SUFFICES ASSUME TypeOK, DriverKnown, [Next]_vars PROVE DriverKnown'
  OBVIOUS
<1> USE DEF TypeOK, DriverKnown, Goto
<1>1. CASE UNCHANGED vars \/ Plant \/ Poll \/ Command \/ Reset
  BY <1>1 DEF vars, flags, Plant, Poll, Command, Reset, Reset0
<1>2. ASSUME NEW t \in Tasks, Step(t) PROVE DriverKnown'
  <2>1. CASE BusReady(t)
    BY <2>1 DEF BusReady
  <2>2. CASE Install(t)
    BY <2>2 DEF Install
  <2>3. CASE ~BusReady(t) /\ ~Install(t)
    <3>1. UNCHANGED <<driver, i2cReady>> /\ pc[t] # "ready"
      BY <1>2, <2>3 DEF Step, Check, EnterInit, CheckBus, MakeSafe, InitDone, Recheck,
         Store, ReadPort, OutputPort, flags, Safing, Moving
    <3>2. QED
      BY <1>2, <3>1, StepWays
  <2>4. QED
    BY <2>1, <2>2, <2>3
<1>3. QED
  BY <1>1, <1>2 DEF Next

LEMMA Known == SafeSpec => []DriverKnown
<1>1. Init => DriverKnown
  BY DEF Init, DriverKnown
<1>2. QED
  BY <1>1, TypeCorrect, KnownStep, PTL DEF SafeSpec

-----------------------------------------------------------------------------
(* A finished initialisation has switched everything off.                  *)

\* None of these failures has happened: nothing has failed, or they cannot.
None(kinds) == faults = 0 \/ kinds \cap Faults = {}

\* Words are moved after the initialisation only, and one in progress has
\* switched off what it has come to.
SafedSoFar ==
    /\ \A t \in Tasks : pc[t] \in Moving => dioReady
    /\ None({"write"}) /\ ~dioReady =>
          \A t \in Tasks : /\ pc[t] \in {"safe2", "done"} => latch[1] = Top
                           /\ pc[t] = "done" => latch[2] = Top

LEMMA SafedStep == TypeOK /\ SafedSoFar /\ [Next]_vars => SafedSoFar'
<1> SUFFICES ASSUME TypeOK, SafedSoFar, [Next]_vars PROVE SafedSoFar'
  OBVIOUS
<1> USE DEF TypeOK, SafedSoFar, Goto, Tasks, Moving
<1>1. CASE UNCHANGED vars \/ Plant \/ Poll \/ Command \/ Reset
  BY <1>1 DEF vars, chips, flags, count, Plant, Poll, Command, Reset, Reset0, None
<1>2. ASSUME NEW t \in Tasks, Step(t) PROVE SafedSoFar'
  <2>1. CASE Check(t) \/ EnterInit(t) \/ CheckBus(t) \/ BusReady(t) \/ InitDone(t)
    BY <2>1 DEF Check, EnterInit, CheckBus, BusReady, InitDone, chips, flags, count,
       None
  <2>2. CASE Install(t)
    BY <2>2 DEF Install, Works, Fails, chips, count, None
  <2>3. CASE MakeSafe(t)
    <3>1. None({"write"})' => /\ None({"write"})
                             /\ latch' = [latch EXCEPT ![Addressed(pc[t])] = Top]
      BY <2>3 DEF MakeSafe, WritePort, Works, Fails, count, None
    <3>2. latch \in [Port -> Byte]
      BY DEF Word
    <3>3. QED
      BY <2>3, <3>1, <3>2 DEF MakeSafe, Safing, After, Addressed, flags, Port
  <2>4. CASE Recheck(t) \/ Store(t)
    BY <2>4 DEF Recheck, Store, Works, Fails, chips, flags, count, None
  <2>5. CASE (t = "poll" /\ ReadPort) \/ (t = "opc" /\ OutputPort)
    BY <2>5 DEF ReadPort, OutputPort, After, flags, WritePort, Works,
       Fails, count, None
  <2>6. QED
    BY <1>2, <2>1, <2>2, <2>3, <2>4, <2>5 DEF Step
<1>3. QED
  BY <1>1, <1>2 DEF Next

LEMMA Safed == SafeSpec => []SafedSoFar
<1>1. Init => SafedSoFar
  BY DEF Init, SafedSoFar, Moving
<1>2. QED
  BY <1>1, TypeCorrect, SafedStep, PTL DEF SafeSpec

\* The end of discrete_io_init.
LEMMA ReadyStep ==
    ASSUME TypeOK, SafedSoFar, [Next]_vars, None({"write"}), ~dioReady, dioReady'
    PROVE  latch' = AllOn
<1>1. PICK t \in Tasks : InitDone(t)
  BY DEF Next, vars, flags, Plant, Poll, Command, Reset, Reset0, Step, Check,
     EnterInit, CheckBus, Install, BusReady, MakeSafe, Recheck, Store, ReadPort,
     OutputPort
<1>2. latch' = latch /\ latch[1] = Top /\ latch[2] = Top
  BY <1>1 DEF InitDone, SafedSoFar, chips
<1>3. latch \in [Port -> Byte]
  BY DEF TypeOK, Word
<1>4. QED
  BY <1>2, <1>3 DEF AllOn, Port

\* Nothing has failed, or no write can: then the outputs are off at the end of
\* discrete_io_init.
THEOREM SafeAtReady == SafeSpec => SafeWhenReady
<1>1. TypeOK /\ SafedSoFar /\ [Next]_vars
        => [faults = 0 /\ ~dioReady /\ dioReady' => latch' = AllOn]_vars
  BY ReadyStep DEF None
<1>2. QED
  BY <1>1, TypeCorrect, Safed, PTL DEF SafeSpec, SafeWhenReady

\* Failed installations, reads and waits for the mutex make no difference to it,
\* also after a reset and with both tasks initialising.
THEOREM SafeUnlessWritesFail ==
    ASSUME "write" \notin Faults
    PROVE  SafeSpec => [][~dioReady /\ dioReady' => latch' = AllOn]_vars
<1>1. TypeOK /\ SafedSoFar /\ [Next]_vars
        => [~dioReady /\ dioReady' => latch' = AllOn]_vars
  BY ReadyStep DEF None
<1>2. QED
  BY <1>1, TypeCorrect, Safed, PTL DEF SafeSpec

-----------------------------------------------------------------------------
(* Relays and cache, pins and readings: what is unspoilt.                  *)

\* A task with nothing spoilt on its side is alone in the initialisation, gets
\* through it, and has the driver to install if it comes to that.
Alone ==
    \A t \in Tasks : Side(t) \notin spoilt =>
        /\ pc[t] \in Initialising => \A u \in Tasks \ {t} : pc[u] \notin Initialising
        /\ pc[t] = "recheck" => dioReady
        /\ pc[t] = "install" => ~i2cReady

\* The relays follow the command, as far as it has come; between commands, and
\* when the polling task has initialised, they are what the cache says.
RelaysFollow ==
    "outputs" \notin spoilt =>
        /\ dioReady => pc["poll"] \notin Initialising
        /\ pc["opc"] \in {"port2", "store"} => latch[1] = Not(data["opc"][1])
        /\ pc["opc"] = "store" => dioReady /\ latch[2] = Not(data["opc"][2])
        /\ pc["opc"] = "idle" /\ dioReady => \A p \in Port : latch[p] = Not(cacheOut[p])
        /\ pc["opc"] = "idle" /\ ~dioReady =>
              /\ cacheOut = AllOff
              /\ pc["poll"] \in {"safe2", "done"} => latch[1] = Top
              /\ pc["poll"] = "done" => latch[2] = Top

\* What has been read are levels the pins had.
ReadSoFar ==
    /\ pc["poll"] # "idle" => \A p \in Port : pins[p] \in seen[p]
    /\ "inputs" \notin spoilt =>
          /\ pc["poll"] \in {"port2", "store"}
                => \E level \in seen[1] : data["poll"][1] = Not(level)
          /\ pc["poll"] = "store"
                => \E level \in seen[2] : data["poll"][2] = Not(level)

\* No step of a task makes anything good again, and a failure spoils something.
LEMMA StepSpoils ==
    ASSUME TypeOK, NEW t \in Tasks, Step(t)
    PROVE  spoilt \subseteq spoilt'
<1> USE DEF TypeOK, Works, Fails
<1>1. CASE Check(t) \/ CheckBus(t) \/ BusReady(t) \/ InitDone(t) \/ Recheck(t)
  BY <1>1 DEF Check, CheckBus, BusReady, InitDone, Recheck, history
<1>2. CASE EnterInit(t)
  BY <1>2 DEF EnterInit
<1>3. CASE Install(t) \/ Store(t)
  BY <1>3 DEF Install, Store
<1>4. CASE MakeSafe(t)
  BY <1>4 DEF MakeSafe, WritePort
<1>5. CASE (t = "poll" /\ ReadPort) \/ (t = "opc" /\ OutputPort)
  BY <1>5 DEF ReadPort, OutputPort, WritePort
<1>6. QED
  BY <1>1, <1>2, <1>3, <1>4, <1>5 DEF Step

LEMMA AloneStep == TypeOK /\ DriverKnown /\ Alone /\ [Next]_vars => Alone'
<1> SUFFICES ASSUME TypeOK, DriverKnown, Alone, [Next]_vars,
                    NEW s \in Tasks, Side(s) \notin spoilt'
             PROVE  /\ pc'[s] \in Initialising
                          => \A u \in Tasks \ {s} : pc'[u] \notin Initialising
                    /\ pc'[s] = "recheck" => dioReady'
                    /\ pc'[s] = "install" => ~i2cReady'
  BY DEF Alone
<1> USE DEF Goto, Initialising, Safing
<1>1. pc \in [Tasks -> Control]
  BY DEF TypeOK
<1>2. CASE UNCHANGED vars \/ Plant
  BY <1>2 DEF Alone, vars, flags, history, Plant
<1>3. CASE Reset
  BY <1>3 DEF Reset, Reset0
<1>4. CASE Poll
  BY <1>1, <1>4 DEF Alone, Poll, flags, Side, Tasks
<1>5. CASE Command
  BY <1>1, <1>5 DEF Alone, Command, flags, Side, Tasks
<1>6. ASSUME NEW t \in Tasks, Step(t)
      PROVE  /\ pc'[s] \in Initialising
                   => \A u \in Tasks \ {s} : pc'[u] \notin Initialising
             /\ pc'[s] = "recheck" => dioReady'
             /\ pc'[s] = "install" => ~i2cReady'
  <2> Side(s) \notin spoilt
    BY <1>6, StepSpoils
  <2>1. CASE Check(t)
    BY <1>1, <2>1 DEF Alone, Check, flags
  <2>2. CASE EnterInit(t)
    BY <1>1, <2>2 DEF Alone, EnterInit, flags, Side, Sides
  <2>3. CASE CheckBus(t)
    BY <1>1, <2>3 DEF Alone, CheckBus, flags
  <2>4. CASE Install(t)
    <3>1. s = t => ~driver /\ ~Fails("install", Side(t))
      BY <1>1, <2>4 DEF Alone, DriverKnown, Install, Fails
    <3>2. QED
      BY <1>1, <2>4, <3>1 DEF Alone, Install
  <2>5. CASE BusReady(t) \/ InitDone(t)
    BY <1>1, <2>5 DEF Alone, BusReady, InitDone
  <2>6. CASE MakeSafe(t)
    BY <1>1, <2>6 DEF Alone, MakeSafe, After, flags
  <2>7. CASE Recheck(t) \/ Store(t)
    BY <1>1, <2>7 DEF Alone, Recheck, Store, flags
  <2>8. CASE (t = "poll" /\ ReadPort) \/ (t = "opc" /\ OutputPort)
    BY <1>1, <2>8 DEF Alone, ReadPort, OutputPort, Moving, After, flags
  <2>9. QED
    BY <1>6, <2>1, <2>2, <2>3, <2>4, <2>5, <2>6, <2>7, <2>8 DEF Step
<1>7. QED
  BY <1>2, <1>3, <1>4, <1>5, <1>6 DEF Next

LEMMA RelaysStep ==
    TypeOK /\ SafedSoFar /\ Alone /\ RelaysFollow /\ [Next]_vars => RelaysFollow'
<1> SUFFICES ASSUME TypeOK, SafedSoFar, Alone, RelaysFollow, [Next]_vars,
                    "outputs" \notin spoilt'
             PROVE  RelaysFollow'
  BY DEF RelaysFollow
<1> USE DEF RelaysFollow, Goto
<1>1. /\ pc \in [Tasks -> Control] /\ data \in [Tasks -> Word]
      /\ latch \in [Port -> Byte] /\ "poll" \in Tasks /\ "opc" \in Tasks
      /\ 1 \in Port /\ 2 \in Port /\ Side("opc") = "outputs"
  BY DEF TypeOK, Word, Tasks, Port, Side
<1>2. CASE UNCHANGED vars \/ Plant
  BY <1>2 DEF vars, chips, flags, image, history, Plant
<1>3. CASE Reset
  BY <1>3 DEF Reset, Reset0, Initialising, Safing, Tasks, chips
<1>4. CASE Poll
  BY <1>1, <1>4 DEF Poll, chips, flags, image, Initialising, Safing
<1>5. CASE Command
  BY <1>1, <1>5 DEF Command, chips, flags, image
<1>6. ASSUME NEW t \in Tasks, Step(t) PROVE RelaysFollow'
  <2> "outputs" \notin spoilt
    BY <1>6, StepSpoils
  <2>1. CASE Check(t) \/ EnterInit(t) \/ CheckBus(t) \/ BusReady(t) \/ Install(t)
    BY <1>1, <2>1 DEF Check, EnterInit, CheckBus, BusReady, Install, chips, flags, image,
       Initialising, Safing
  <2>2. CASE InitDone(t)
    <3>1. CASE t = "opc"
      BY <1>1, <2>2, <3>1 DEF InitDone, Alone, Initialising, chips, image
    <3>2. CASE t = "poll"
      <4>1. ~dioReady /\ latch' = latch /\ cacheOut' = cacheOut
        BY <2>2, <3>2 DEF InitDone, Initialising, chips, image
      <4>2. pc["opc"] = "idle" => \A p \in Port : latch'[p] = Not(cacheOut'[p])
        BY <2>2, <3>2, <4>1, Ports DEF InitDone, Port
      <4>3. QED
        BY <1>1, <2>2, <3>2, <4>1, <4>2 DEF InitDone, Initialising, Safing
    <3>3. QED
      BY <3>1, <3>2 DEF Tasks
  <2>3. CASE MakeSafe(t)
    <3>1. latch' = [latch EXCEPT ![Addressed(pc[t])] = Top]
      BY <2>3 DEF MakeSafe, WritePort, Works, Fails
    <3>2. CASE t = "opc"
      BY <1>1, <2>3, <3>1, <3>2 DEF MakeSafe, Safing, After, Initialising, flags, image
    <3>3. CASE t = "poll"
      <4>1. ~dioReady /\ pc["opc"] \notin {"port2", "store"}
        BY <2>3, <3>3 DEF MakeSafe, Initialising, SafedSoFar, Moving, Tasks
      <4>2. QED
        BY <1>1, <2>3, <3>1, <3>3, <4>1 DEF MakeSafe, Safing, Addressed, After,
           Initialising, flags, image
    <3>4. QED
      BY <3>2, <3>3 DEF Tasks
  <2>4. CASE Recheck(t)
    <3>1. CASE t = "opc"
      BY <1>1, <2>4, <3>1 DEF Recheck, Alone, chips, flags, image
    <3>2. CASE t = "poll"
      BY <1>1, <2>4, <3>2 DEF Recheck, Initialising, Safing, chips, flags, image
    <3>3. QED
      BY <3>1, <3>2 DEF Tasks
  <2>5. CASE Store(t)
    <3>1. CASE t = "poll"
      BY <1>1, <2>5, <3>1 DEF Store, Initialising, Safing, chips, flags
    <3>2. CASE t = "opc"
      <4>1. cacheOut' = data["opc"] /\ latch' = latch
        BY <1>1, <2>5, <3>2 DEF Store, Fails, chips
      <4>2. dioReady' /\ \A p \in Port : latch'[p] = Not(cacheOut'[p])
        BY <2>5, <3>2, <4>1 DEF Store, flags, Port
      <4>3. QED
        BY <1>1, <2>5, <3>2, <4>2 DEF Store, flags
    <3>3. QED
      BY <3>1, <3>2 DEF Tasks
  <2>6. CASE t = "poll" /\ ReadPort
    BY <1>1, <2>6 DEF ReadPort, Moving, After, Initialising, Safing, chips, flags, image
  <2>7. CASE t = "opc" /\ OutputPort
    <3>1. latch' = [latch EXCEPT ![Addressed(pc["opc"])] =
                       Not(data["opc"][Addressed(pc["opc"])])]
      BY <2>7 DEF OutputPort, WritePort, Works, Fails
    <3>2. dioReady /\ dioReady' /\ data' = data
      BY <1>1, <2>7 DEF OutputPort, SafedSoFar, flags
    <3>3. QED
      BY <1>1, <2>7, <3>1, <3>2 DEF OutputPort, Moving, Addressed, After
  <2>8. QED
    BY <1>6, <2>1, <2>2, <2>3, <2>4, <2>5, <2>6, <2>7 DEF Step
<1>7. QED
  BY <1>2, <1>3, <1>4, <1>5, <1>6 DEF Next

LEMMA ReadStep == TypeOK /\ Alone /\ ReadSoFar /\ [Next]_vars => ReadSoFar'
<1> SUFFICES ASSUME TypeOK, Alone, ReadSoFar, [Next]_vars PROVE ReadSoFar'
  OBVIOUS
<1> USE DEF ReadSoFar, Goto
<1>1. /\ pc \in [Tasks -> Control] /\ data \in [Tasks -> Word]
      /\ seen \in [Port -> SUBSET Byte] /\ pins \in [Port -> Byte]
      /\ "poll" \in Tasks /\ "opc" \in Tasks /\ 1 \in Port /\ 2 \in Port
      /\ Side("poll") = "inputs"
  BY DEF TypeOK, Word, Tasks, Port, Side
<1>2. CASE UNCHANGED vars \/ Command
  BY <1>1, <1>2 DEF vars, chips, history, Command
<1>3. CASE Plant
  BY <1>1, <1>3 DEF Plant
<1>4. CASE Poll
  BY <1>1, <1>4 DEF Poll, chips
<1>5. CASE Reset
  BY <1>5 DEF Reset, Reset0, Tasks
<1>6. ASSUME NEW t \in Tasks, Step(t) PROVE ReadSoFar'
  <2>0. "inputs" \notin spoilt' => "inputs" \notin spoilt
    BY <1>6, StepSpoils
  <2>1. CASE Check(t) \/ EnterInit(t) \/ CheckBus(t) \/ BusReady(t) \/ Install(t)
             \/ InitDone(t)
    BY <1>1, <2>0, <2>1 DEF Check, EnterInit, CheckBus, BusReady, Install, InitDone,
       chips, history
  <2>2. CASE MakeSafe(t)
    BY <1>1, <2>0, <2>2 DEF MakeSafe, Safing, After
  <2>3. CASE Recheck(t)
    BY <1>1, <2>0, <2>3 DEF Recheck, Alone, chips, history
  <2>4. CASE Store(t)
    BY <1>1, <2>0, <2>4 DEF Store, chips
  <2>5. CASE t = "poll" /\ ReadPort
    <3>1. "inputs" \notin spoilt'
             => data' = [data EXCEPT !["poll"][Addressed(pc["poll"])] =
                            Not(pins[Addressed(pc["poll"])])]
      BY <2>5 DEF ReadPort, Fails
    <3>2. seen' = seen /\ pins' = pins
      BY <2>5 DEF ReadPort, chips
    <3>3. data["poll"] \in [Port -> Byte]
      BY <1>1 DEF Word
    <3>4. CASE pc["poll"] = "port1"
      BY <1>1, <2>0, <2>5, <3>1, <3>2, <3>3, <3>4 DEF ReadPort, Addressed, After
    <3>5. CASE pc["poll"] = "port2"
      BY <1>1, <2>0, <2>5, <3>1, <3>2, <3>3, <3>5 DEF ReadPort, Addressed, After
    <3>6. QED
      BY <2>5, <3>4, <3>5 DEF ReadPort, Moving
  <2>6. CASE t = "opc" /\ OutputPort
    BY <1>1, <2>0, <2>6 DEF OutputPort
  <2>7. QED
    BY <1>6, <2>1, <2>2, <2>3, <2>4, <2>5, <2>6 DEF Step
<1>7. QED
  BY <1>2, <1>3, <1>4, <1>5, <1>6 DEF Next

IInv == TypeOK /\ DriverKnown /\ SafedSoFar /\ Alone /\ RelaysFollow /\ ReadSoFar

\* The inductive invariant of the process image.
LEMMA Invariance == SafeSpec => []IInv
<1>1. Init => Alone /\ RelaysFollow /\ ReadSoFar
  BY DEF Init, Alone, RelaysFollow, ReadSoFar, Tasks, Initialising, Safing
<1>2. QED
  BY <1>1, TypeCorrect, Known, Safed, AloneStep, RelaysStep, ReadStep, PTL
     DEF SafeSpec, IInv

\* Between writes the relays are what the cache says, unless something has failed
\* in the last command or since, or both tasks were initialising then: the next
\* command mends whatever went wrong before it.
THEOREM RelaysAgree == SafeSpec => []OutputsAgree
<1>1. IInv => OutputsAgree
  BY DEF IInv, RelaysFollow, OutputsAgree
<1>2. QED
  BY <1>1, Invariance, PTL

\* A poll returns levels the inputs had while it was under way, unless it has
\* failed itself or the server task was initialising at the same time.
THEOREM ReadsAreCurrent == SafeSpec => []ReadIsCurrent
<1>1. IInv => ReadIsCurrent
  BY DEF IInv, ReadSoFar, ReadIsCurrent, Port
<1>2. QED
  BY <1>1, Invariance, PTL

-----------------------------------------------------------------------------
(* Which failures can spoil what, if no client writes before the first poll. *)

Undisturbed(kinds) == None(kinds) /\ ~EarlyWrites

\* What matters to the initialisation, the outputs and the inputs.
ToInit == {"install"}
ToOutputs == {"install", "write", "mutex"}
ToInputs == {"install", "read"}
Waiting == {"idle", "check", "init", "bus", "install"}

\* Undisturbed, the polling task initialises, and the server task finds all done.
PollerInitialises ==
    Undisturbed(ToInit) =>
        /\ polled => dioReady
        /\ ~polled => pc["opc"] = "idle"
        /\ pc["opc"] \in {"idle", "check", "store"} \cup Moving
        /\ dioReady => pc["poll"] \in {"idle", "check", "recheck", "store"} \cup Moving
        /\ ~dioReady => pc["poll"] \in Waiting \cup {"ready", "done"} \cup Safing
        /\ ~dioReady /\ pc["poll"] \in Waiting => ~i2cReady /\ ~driver

\* And nothing is spoilt.
Unspoilt ==
    /\ Undisturbed(ToOutputs) => "outputs" \notin spoilt
    /\ Undisturbed(ToInputs) /\ pc["poll"] # "idle" => "inputs" \notin spoilt

\* Undisturbed steps start undisturbed, but for a reset; nothing that matters
\* fails in them.
LEMMA StaysUndisturbed ==
    ASSUME TypeOK, [Next]_vars, NEW kinds, Undisturbed(kinds)'
    PROVE  /\ Undisturbed(kinds)
           /\ \A kind \in kinds : \A side : ~Fails(kind, side)
<1>1. \A kind \in kinds : \A side : ~Fails(kind, side)
  BY DEF Undisturbed, None, Fails, TypeOK
<1>2. ASSUME faults' = 0 PROVE faults = 0
  <2>1. \A kind, side : ~Fails(kind, side)
    BY <1>2 DEF Fails, TypeOK
  <2>2. QED
    BY <1>2, <2>1 DEF Next, vars, Plant, Poll, Command, Step, Check,
       EnterInit, CheckBus, Install, BusReady, MakeSafe, WritePort, InitDone, Recheck,
       Store, ReadPort, OutputPort, Works, Reset, count
<1>3. QED
  BY <1>1, <1>2 DEF Undisturbed, None

\* Who needs less is disturbed by less.
LEMMA Disturbances ==
    /\ Undisturbed(ToOutputs) => Undisturbed(ToInit)
    /\ Undisturbed(ToInputs) => Undisturbed(ToInit)
  BY DEF Undisturbed, None, ToInit, ToOutputs, ToInputs

LEMMA InitialisesStep ==
    TypeOK /\ PollerInitialises /\ [Next]_vars => PollerInitialises'
<1> SUFFICES ASSUME TypeOK, PollerInitialises, [Next]_vars, Undisturbed(ToInit)'
             PROVE  PollerInitialises'
  BY DEF PollerInitialises
<1> USE DEF TypeOK, PollerInitialises, Goto, Tasks, Safing, Moving, Waiting
<1>1. CASE Reset
  BY <1>1 DEF Reset, Reset0
<1>2. Undisturbed(ToInit) /\ \A side : ~Fails("install", side)
  BY StaysUndisturbed DEF ToInit
<1>3. CASE UNCHANGED vars \/ Plant \/ Poll \/ Command
  BY <1>2, <1>3 DEF vars, flags, image, Plant, Poll, Command, Undisturbed
<1>4. ASSUME NEW t \in Tasks, Step(t) PROVE PollerInitialises'
  <2>1. CASE Check(t) \/ EnterInit(t) \/ CheckBus(t) \/ BusReady(t) \/ InitDone(t)
    BY <1>2, <2>1 DEF Check, EnterInit, CheckBus, BusReady, InitDone, flags, image
  <2>2. CASE Install(t)
    BY <1>2, <2>2 DEF Install, image
  <2>3. CASE MakeSafe(t)
    BY <1>2, <2>3 DEF MakeSafe, After, flags, image
  <2>4. CASE Recheck(t) \/ Store(t)
    BY <1>2, <2>4 DEF Recheck, Store, flags, image
  <2>5. CASE (t = "poll" /\ ReadPort) \/ (t = "opc" /\ OutputPort)
    BY <1>2, <2>5 DEF ReadPort, OutputPort, After, flags, image
  <2>6. QED
    BY <1>4, <2>1, <2>2, <2>3, <2>4, <2>5 DEF Step
<1>5. QED
  BY <1>1, <1>3, <1>4 DEF Next

LEMMA UnspoiltStep ==
    TypeOK /\ PollerInitialises /\ Unspoilt /\ [Next]_vars => Unspoilt'
<1> SUFFICES ASSUME TypeOK, PollerInitialises, Unspoilt, [Next]_vars PROVE Unspoilt'
  OBVIOUS
<1> USE DEF Goto
<1>1. /\ Undisturbed(ToOutputs)' =>
            Undisturbed(ToOutputs) /\ Undisturbed(ToInit) /\ "outputs" \notin spoilt
      /\ Undisturbed(ToInputs)' =>
            /\ Undisturbed(ToInputs) /\ Undisturbed(ToInit)
            /\ pc["poll"] # "idle" => "inputs" \notin spoilt
  BY StaysUndisturbed, Disturbances DEF Unspoilt
<1>2. /\ Undisturbed(ToOutputs)' => \A kind \in ToOutputs : \A side : ~Fails(kind, side)
      /\ Undisturbed(ToInputs)' => \A kind \in ToInputs : \A side : ~Fails(kind, side)
  BY StaysUndisturbed
<1>3. pc \in [Tasks -> Control] /\ "poll" \in Tasks /\ "opc" \in Tasks
  BY DEF TypeOK, Tasks
<1>4. CASE UNCHANGED vars \/ Plant \/ Poll \/ Command \/ Reset
  BY <1>1, <1>3, <1>4 DEF Unspoilt, vars, history, Plant, Poll, Command, Reset, Reset0
<1>5. ASSUME NEW t \in Tasks, Step(t) PROVE Unspoilt'
  <2>0. pc[t] # "idle" /\ (t # "poll" => pc'["poll"] = pc["poll"])
    BY <1>5, StepWays DEF Tasks
  <2>1. CASE Check(t) \/ CheckBus(t) \/ BusReady(t) \/ InitDone(t) \/ Recheck(t)
    BY <1>1, <2>0, <2>1 DEF Unspoilt, Check, CheckBus, BusReady, InitDone, Recheck, history
  <2>2. CASE EnterInit(t)
    <3>1. Undisturbed(ToInit) => spoilt' = spoilt
      BY <1>3, <2>2 DEF EnterInit, PollerInitialises, Initialising, Safing, Moving, Tasks
    <3>2. QED
      BY <1>1, <2>0, <2>2, <3>1 DEF Unspoilt
  <2>3. CASE Install(t)
    BY <1>1, <1>2, <2>0, <2>3 DEF Unspoilt, Install, Works, ToOutputs, ToInputs
  <2>4. CASE MakeSafe(t)
    BY <1>1, <1>2, <2>0, <2>4 DEF Unspoilt, MakeSafe, WritePort, Works, Fails, ToOutputs
  <2>5. CASE Store(t)
    BY <1>1, <1>2, <1>3, <2>0, <2>5 DEF Unspoilt, Store, Side, Works, Fails, ToOutputs, Tasks
  <2>6. CASE t = "poll" /\ ReadPort
    BY <1>1, <1>2, <2>0, <2>6 DEF Unspoilt, ReadPort, Works, Fails, ToInputs
  <2>7. CASE t = "opc" /\ OutputPort
    BY <1>1, <1>2, <2>0, <2>7 DEF Unspoilt, OutputPort, WritePort, Works, Fails, ToOutputs
  <2>8. QED
    BY <1>5, <2>1, <2>2, <2>3, <2>4, <2>5, <2>6, <2>7 DEF Step
<1>6. QED
  BY <1>4, <1>5 DEF Next

LEMMA UnspoiltInvariance == SafeSpec => [](IInv /\ Unspoilt)
<1>1. Init => PollerInitialises /\ Unspoilt
  BY DEF Init, PollerInitialises, Unspoilt, Waiting, Tasks
<1>2. QED
  BY <1>1, Invariance, TypeCorrect, InitialisesStep, UnspoiltStep, PTL DEF SafeSpec

\* As long as installations, writes and waits for the mutex have not failed and
\* no client writes before the first poll, "It updates both the hardware and the
\* cache" is true: failed reads never matter to it.
THEOREM RelaysAgreeWithoutWriteFaults ==
    ASSUME ~EarlyWrites
    PROVE  SafeSpec => [](None(ToOutputs) => RelaysAsCached)
<1>1. IInv /\ Unspoilt => (None(ToOutputs) => RelaysAsCached)
  BY DEF IInv, Unspoilt, RelaysFollow, Undisturbed, RelaysAsCached
<1>2. QED
  BY <1>1, UnspoiltInvariance, PTL

\* Failed writes and waits for the mutex never matter to the inputs.
THEOREM ReadsAreCurrentWithoutReadFaults ==
    ASSUME ~EarlyWrites
    PROVE  SafeSpec =>
        [](None(ToInputs) /\ pc["poll"] = "store"
             => \A p \in Port : \E level \in seen[p] : data["poll"][p] = Not(level))
<1>1. IInv /\ Unspoilt => (None(ToInputs) /\ pc["poll"] = "store"
          => \A p \in Port : \E level \in seen[p] : data["poll"][p] = Not(level))
  BY DEF IInv, Unspoilt, ReadSoFar, Undisturbed, Port
<1>2. QED
  BY <1>1, UnspoiltInvariance, PTL

-----------------------------------------------------------------------------
(* What must happen.  The provers have no ENABLED: that the tasks are        *)
(* scheduled and that no call hangs is stated as the weak fairness of Spec   *)
(* with the states in which a step can be taken named.                       *)

Runs(t) == []<>(pc[t] = "idle") \/ []<><<Step(t)>>_vars
Polls == []<>~(pc["poll"] = "idle") \/ []<><<Poll>>_vars

At(t, label) == pc[t] = label

\* A task in a call stays where it is, takes its step, or is reset.
LEMMA TaskWays ==
    ASSUME TypeOK, NEW t \in Tasks, [Next]_vars, pc[t] # "idle"
    PROVE  pc'[t] = pc[t] \/ Step(t) \/ (Reset /\ pc'[t] = "idle")
<1>1. CASE UNCHANGED vars \/ Plant
  BY <1>1 DEF vars, Plant
<1>2. CASE Poll \/ Command
  BY <1>2 DEF Poll, Command, Goto, TypeOK, Tasks
<1>3. CASE Reset
  BY <1>3 DEF Reset, Reset0
<1>4. ASSUME NEW u \in Tasks, Step(u)
      PROVE  pc'[t] = pc[t] \/ Step(t) \/ (Reset /\ pc'[t] = "idle")
  BY <1>4, StepWays
<1>5. QED
  BY <1>1, <1>2, <1>3, <1>4 DEF Next

\* The steps a call has left at most.
StepsLeft(label) ==
    CASE label = "idle" -> 0 [] label = "store" -> 1 [] label = "port2" -> 2
      [] label = "port1" -> 3 [] label = "recheck" -> 4 [] label = "done" -> 5
      [] label = "safe2" -> 6 [] label = "safe1" -> 7 [] label = "ready" -> 8
      [] label = "install" -> 9 [] label = "bus" -> 10 [] label = "init" -> 11
      [] label = "check" -> 12

Exactly(t, n) == StepsLeft(pc[t]) = n
Within(t, n) == StepsLeft(pc[t]) <= n

\* In a call with n steps left each step leaves fewer, whatever fails.
OneLess(t, n, m) ==
    /\ TypeOK /\ Exactly(t, n) /\ [Next]_vars => Exactly(t, n)' \/ Within(t, m)'
    /\ TypeOK /\ Exactly(t, n) /\ <<Step(t)>>_vars => Within(t, m)'
    /\ TypeOK => (Within(t, n) <=> Exactly(t, n) \/ Within(t, m))
    /\ Exactly(t, n) => ~(pc[t] = "idle")

LEMMA EachStepLess ==
    ASSUME NEW t \in Tasks, NEW n \in 1..12, NEW m \in 0..11, n = m + 1
    PROVE  OneLess(t, n, m)
<1> USE DEF Exactly, Within
<1>1. \A label \in Control : StepsLeft(label) \in 0..12
  BY DEF StepsLeft, Control, Safing, Moving
<1>2. \A label \in Control \ {"idle"} : \A way \in Ways(t, label) :
          StepsLeft(way) \in 0..12 /\ StepsLeft(way) < StepsLeft(label)
  BY DEF StepsLeft, Ways, Control, Safing, Moving
<1>3. StepsLeft("idle") = 0
  BY DEF StepsLeft
<1>4. ASSUME TypeOK PROVE Within(t, n) <=> Exactly(t, n) \/ Within(t, m)
  BY <1>1, <1>4 DEF TypeOK
<1>5. ASSUME TypeOK, Exactly(t, n), Step(t) PROVE Within(t, m)'
  <2>1. pc[t] \in Control \ {"idle"} /\ pc'[t] \in Ways(t, pc[t])
    BY <1>5, StepWays DEF TypeOK
  <2>2. QED
    BY <1>2, <1>5, <2>1
<1>6. ASSUME TypeOK, Exactly(t, n), [Next]_vars PROVE Exactly(t, n)' \/ Within(t, m)'
  BY <1>3, <1>5, <1>6, TaskWays
<1>7. QED
  BY <1>3, <1>4, <1>5, <1>6 DEF OneLess

CallsShorten(t) ==
    /\ OneLess(t, 1, 0) /\ OneLess(t, 2, 1) /\ OneLess(t, 3, 2)
    /\ OneLess(t, 4, 3) /\ OneLess(t, 5, 4) /\ OneLess(t, 6, 5)
    /\ OneLess(t, 7, 6) /\ OneLess(t, 8, 7) /\ OneLess(t, 9, 8)
    /\ OneLess(t, 10, 9) /\ OneLess(t, 11, 10) /\ OneLess(t, 12, 11)
    /\ TypeOK => Within(t, 12)
    /\ TypeOK /\ Within(t, 0) => pc[t] = "idle"

LEMMA CallsShort == ASSUME NEW t \in Tasks PROVE CallsShorten(t)
<1>1. TypeOK => Within(t, 12)
  BY DEF TypeOK, Within, StepsLeft, Control, Safing, Moving
<1>2. TypeOK /\ Within(t, 0) => pc[t] = "idle"
  BY DEF TypeOK, Within, StepsLeft, Control, Safing, Moving
<1>3. QED
  BY <1>1, <1>2, EachStepLess DEF CallsShorten

\* A command is carried out or answered within 12 steps of the server task,
\* whatever fails on the way and however the polling task gets in between.
THEOREM CommandsEnd == SafeSpec /\ Runs("opc") => CommandEnds
<1>1. CallsShorten("opc")
  BY CallsShort DEF Tasks
<1>2. QED
  BY <1>1, TypeCorrect, PTL DEF SafeSpec, Runs, CallsShorten, OneLess, CommandEnds

\* From some time on no installation of the driver fails and the processor is
\* not reset; transactions and the mutex may go on failing.
CalmStep ==
    /\ UNCHANGED resets
    /\ faults' # faults => \A t \in Tasks : pc[t] = "install" => pc'[t] = "install"
Calm == <>[][CalmStep]_vars

Flags == TypeOK /\ DriverPromised /\ DriverKnown

LEMMA FlagsHold == SafeSpec => []Flags
<1>1. Init => DriverPromised
  BY DEF Init, DriverPromised, DriverBeforeUse, Safing, Moving
<1>2. QED
  BY <1>1, TypeCorrect, DriverStep, Known, PTL DEF SafeSpec, Flags

\* Without a reset the flags are set for good.
LEMMA FlagsStay ==
    [Next]_vars /\ [CalmStep]_vars =>
        /\ dioReady => dioReady'
        /\ i2cReady => i2cReady'
        /\ driver => driver'
<1> SUFFICES ASSUME [Next]_vars, [CalmStep]_vars
             PROVE  /\ dioReady => dioReady'
                    /\ i2cReady => i2cReady'
                    /\ driver => driver'
  OBVIOUS
<1>1. CASE Reset
  <2>1. resets' = resets \/ UNCHANGED vars
    BY DEF CalmStep
  <2>2. QED
    BY <1>1, <2>1 DEF Reset, vars, flags, count
<1>2. CASE ~Reset
  BY <1>2 DEF Next, vars, flags, Plant, Poll, Command, Step, Check, EnterInit,
     CheckBus, Install, BusReady, MakeSafe, InitDone, Recheck, Store, ReadPort, OutputPort
<1>3. QED
  BY <1>1, <1>2

\* A task that keeps running gets from a control point to the goal, in calm times.
Passes(t, label, goal) ==
    /\ Flags /\ At(t, label) /\ [Next]_vars /\ [CalmStep]_vars
          => At(t, label)' \/ goal'
    /\ Flags /\ At(t, label) /\ <<Step(t)>>_vars /\ [CalmStep]_vars => goal'
    /\ At(t, label) => ~(pc[t] = "idle")

LEMMA CalmTask ==
    ASSUME NEW t \in Tasks, Flags, pc[t] # "idle", [CalmStep]_vars
    PROVE  /\ Step(t) => CalmStep
           /\ [Next]_vars => pc'[t] = pc[t] \/ (Step(t) /\ CalmStep)
<1>1. Step(t) => CalmStep
  <2>1. Step(t) => pc'[t] # pc[t]
    BY StepWays DEF Ways, Flags, TypeOK, Control, Safing, Moving
  <2>2. QED
    BY <2>1 DEF vars
<1>2. ~Reset
  BY DEF CalmStep, Reset, vars, count, Flags, TypeOK
<1>3. QED
  BY <1>1, <1>2, TaskWays DEF Flags

\* What a step does is told by the control point.
LEMMA StepAt ==
    ASSUME NEW t \in Tasks, Step(t)
    PROVE  /\ pc[t] = "check" => Check(t)
           /\ pc[t] = "init" => EnterInit(t)
           /\ pc[t] = "bus" => CheckBus(t)
           /\ pc[t] = "install" => Install(t)
           /\ pc[t] = "ready" => BusReady(t)
           /\ pc[t] \in Safing => MakeSafe(t)
           /\ pc[t] = "done" => InitDone(t)
  BY DEF Step, Check, EnterInit, CheckBus, Install, BusReady, MakeSafe, InitDone,
     Recheck, Store, ReadPort, OutputPort, Safing, Moving

\* The way of a poll through the initialisation, and of the driver's flag.
LEMMA InitialisationPasses ==
    /\ Passes("poll", "check", At("poll", "init") \/ dioReady)
    /\ Passes("poll", "init", At("poll", "bus") \/ dioReady)
    /\ Passes("poll", "bus", At("poll", "install") \/ driver)
    /\ Passes("poll", "install", driver)
    /\ \A t \in Tasks : Passes(t, "ready", i2cReady)
    /\ Passes("poll", "safe1", At("poll", "safe2"))
    /\ Passes("poll", "safe2", At("poll", "done"))
    /\ Passes("poll", "done", dioReady)
<1> USE CalmTask, StepAt DEF At, Goto, Passes
<1>0. "poll" \in Tasks /\ (Flags => TypeOK) /\ (TypeOK => pc \in [Tasks -> Control])
  BY DEF Tasks, Flags, TypeOK
<1>1. Passes("poll", "check", At("poll", "init") \/ dioReady)
  BY <1>0 DEF Check, flags
<1>2. Passes("poll", "init", At("poll", "bus") \/ dioReady)
  BY <1>0 DEF EnterInit, flags
<1>3. Passes("poll", "bus", At("poll", "install") \/ driver)
  BY <1>0 DEF CheckBus, flags, Flags, DriverPromised
<1>4. Passes("poll", "install", driver)
  <2>1. ASSUME Flags, pc["poll"] = "install", Install("poll"), CalmStep PROVE driver'
    <3>1. pc'["poll"] # "install"
      BY <1>0, <2>1 DEF Install
    <3>2. ~Fails("install", Side("poll"))
      BY <1>0, <2>1, <3>1 DEF CalmStep, Fails, Flags, TypeOK
    <3>3. QED
      BY <2>1, <3>2 DEF Install
  <2>2. QED
    BY <1>0, <2>1
<1>5. \A t \in Tasks : Passes(t, "ready", i2cReady)
  BY DEF BusReady
<1>6. Passes("poll", "safe1", At("poll", "safe2"))
  BY <1>0 DEF MakeSafe, Safing, After
<1>7. Passes("poll", "safe2", At("poll", "done"))
  BY <1>0 DEF MakeSafe, Safing, After
<1>8. Passes("poll", "done", dioReady)
  BY <1>0 DEF InitDone
<1>9. QED
  BY <1>1, <1>2, <1>3, <1>4, <1>5, <1>6, <1>7, <1>8

\* A poll that finds the bus ready need not install the driver.
LEMMA ReadyBusPasses ==
    /\ Flags /\ i2cReady /\ At("poll", "bus") /\ [Next]_vars /\ [CalmStep]_vars
          => At("poll", "bus")' \/ At("poll", "safe1")'
    /\ Flags /\ i2cReady /\ At("poll", "bus") /\ <<Step("poll")>>_vars
          /\ [CalmStep]_vars => At("poll", "safe1")'
    /\ At("poll", "bus") => ~(pc["poll"] = "idle")
<1>1. "poll" \in Tasks /\ (Flags => pc \in [Tasks -> Control])
  BY DEF Tasks, Flags, TypeOK
<1>2. QED
  BY <1>1, CalmTask, StepAt DEF At, Goto, CheckBus

LEMMA PollStarts ==
    /\ Flags /\ At("poll", "idle") /\ [Next]_vars => At("poll", "idle")' \/ At("poll", "check")'
    /\ Flags /\ At("poll", "idle") /\ <<Poll>>_vars => At("poll", "check")'
<1>1. "poll" \in Tasks /\ (Flags => TypeOK /\ pc \in [Tasks -> Control])
  BY DEF Tasks, Flags, TypeOK
<1>2. QED
  BY <1>1, StepWays DEF At, Goto, Next, vars, Poll, Plant, Command, Reset, Reset0

\* The initialisation is made up for: once installations work and the resets are
\* over, the outputs get ready, even if transactions and the mutex go on failing.
THEOREM ReadyInTheEnd ==
    SafeSpec /\ Runs("poll") /\ Runs("opc") /\ Polls /\ Calm => EventuallyReady
<1> DEFINE Fair == Runs("poll") /\ Runs("opc") /\ Polls
           Safe == [][Next]_vars /\ []Flags /\ [][CalmStep]_vars
<1>1. At("poll", "idle") <=> pc["poll"] = "idle"
  BY DEF At
<1>2. Safe /\ Fair => []<>At("poll", "check")
  <2>1. Safe /\ Fair => []<>At("poll", "idle")
    <3>1. CallsShorten("poll") /\ (Flags => TypeOK)
      BY CallsShort DEF Tasks, Flags
    <3>2. QED
      BY <1>1, <3>1, PTL DEF Runs, CallsShorten, OneLess
  <2>2. QED
    BY <1>1, <2>1, PollStarts, PTL DEF Polls
<1>3. Safe /\ Fair => <>[]dioReady \/ []<>At("poll", "bus")
  BY <1>2, InitialisationPasses, FlagsStay, PTL DEF Runs, Passes
<1>4. Safe /\ Fair => <>[]dioReady \/ <>[]driver
  BY <1>3, InitialisationPasses, FlagsStay, PTL DEF Runs, Passes
<1>5. Safe /\ Fair /\ <>[]driver => <>[]i2cReady
  <2>1. Passes("poll", "ready", i2cReady) /\ Passes("opc", "ready", i2cReady)
    BY InitialisationPasses DEF Tasks
  <2>2. Flags /\ driver => i2cReady \/ At("poll", "ready") \/ At("opc", "ready")
    BY DEF Flags, DriverKnown, Tasks, At
  <2>3. QED
    BY <2>1, <2>2, FlagsStay, PTL DEF Runs, Passes
<1>6. Safe /\ Fair /\ <>[]i2cReady => <>[]dioReady
  BY <1>3, InitialisationPasses, ReadyBusPasses, FlagsStay, PTL DEF Runs, Passes
<1>7. Safe /\ Fair => <>[]dioReady
  BY <1>4, <1>5, <1>6, PTL
<1>8. QED
  BY <1>7, FlagsHold, PTL DEF SafeSpec, Calm, EventuallyReady, Runs, Polls
=============================================================================
