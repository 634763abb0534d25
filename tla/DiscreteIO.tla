----------------------------- MODULE DiscreteIO -----------------------------
(***************************************************************************)
(* The discrete inputs and outputs of components/model/model.c over the    *)
(* PCF8574 expanders of components/esp32-pcf8574/pcf8574.c.                *)
(*                                                                         *)
(* Two tasks come here: the polling task reads the inputs, the OPC UA      *)
(* server task writes the outputs.  Whichever comes first initialises the  *)
(* bus and the chips ("lazy initialization on first call"); nothing locks  *)
(* dio_initialized and i2c_initialized.  One I2C transaction is one step   *)
(* (the ESP-IDF driver serialises them); a word is two transactions.       *)
(*                                                                         *)
(* A transaction, the installation of the driver and the wait for the      *)
(* cache's mutex may fail, and the processor may be reset: the chips keep  *)
(* their latches then, the processor's memory starts again.                *)
(***************************************************************************)
EXTENDS Integers

CONSTANTS
    Top,            \* the largest byte (255): all bits set
    Commands,       \* the words clients write
    Faults,         \* what may fail: "install", "read", "write", "mutex"
    EarlyWrites,    \* may a client write before the first poll is over?
    MaxFaults,      \* bound of the model: failures
    MaxResets       \* bound of the model: resets of the processor

Byte == 0..Top
Port == {1, 2}                      \* low and high byte of a word
Word == [Port -> Byte]

\* Mutant of Not: -in1 for ~in1.
NotByTwosComplement(b) == Top + 1 - b

Not(b) == Top - b                   \* ~b
AllOff == [p \in Port |-> 0]
AllOn == [p \in Port |-> Top]

ASSUME TopAssumption == Top \in Nat \ {0}
ASSUME CommandsAssumption == Commands \subseteq Word
ASSUME BoundsAssumption ==
    /\ Faults \subseteq {"install", "read", "write", "mutex"}
    /\ EarlyWrites \in BOOLEAN
    /\ MaxFaults \in Nat /\ MaxResets \in Nat

VARIABLES
    pins,           \* levels at the input chips: 0 = signal present
    latch,          \* levels at the output chips: 0 = relay on
    driver,         \* is the I2C driver of ESP-IDF installed?
    i2cReady,       \* i2c_initialized of pcf8574.c
    dioReady,       \* dio_initialized of model.c
    pc,             \* control point of each task
    data,           \* the word each task has read or is to write
    cacheIn,        \* the inputs word of the I/O cache
    cacheOut,       \* the outputs word of the I/O cache
    polled,         \* has a poll ended since the reset?
    faults, resets, \* how many so far
    seen,           \* history: the levels of the pins during a poll
    spoilt          \* history: what a failure, or two initialisations at once,
                    \* may have spoilt since the last poll, the last command

chips == <<pins, latch>>
flags == <<driver, i2cReady, dioReady>>
image == <<cacheIn, cacheOut, polled>>
count == <<faults, resets>>
history == <<seen, spoilt>>
vars == <<chips, flags, pc, data, image, count, history>>

Tasks == {"poll", "opc"}
Safing == {"safe1", "safe2"}
Moving == {"port1", "port2"}
Control == {"idle", "check", "init", "bus", "install", "ready", "done",
            "recheck", "store"} \cup Safing \cup Moving
Initialising == {"bus", "install", "ready", "done"} \cup Safing

\* What a task is there for.
Sides == {"inputs", "outputs"}
Side(t) == IF t = "poll" THEN "inputs" ELSE "outputs"

\* The chip a control point addresses, and the control point after it.
Addressed(label) == IF label \in {"safe1", "port1"} THEN 1 ELSE 2

\* Mutant of After: the second port expander is forgotten.
AfterOnlyOneChip(label) ==
    CASE label = "safe1" -> "safe2" [] label = "safe2" -> "done"
      [] label = "port1" -> "store" [] label = "port2" -> "store"

\* Mutant of After: only the first output chip is made safe.
AfterOneSafe(label) ==
    CASE label = "safe1" -> "done" [] label = "safe2" -> "done"
      [] label = "port1" -> "port2" [] label = "port2" -> "store"

After(label) == CASE label = "safe1" -> "safe2" [] label = "safe2" -> "done"
                  [] label = "port1" -> "port2" [] label = "port2" -> "store"

TypeOK ==
    /\ pins \in Word /\ latch \in Word
    /\ driver \in BOOLEAN /\ i2cReady \in BOOLEAN /\ dioReady \in BOOLEAN
    /\ pc \in [Tasks -> Control]
    /\ data \in [Tasks -> Word]
    /\ cacheIn \in Word /\ cacheOut \in Word /\ polled \in BOOLEAN
    /\ faults \in 0..MaxFaults /\ resets \in 0..MaxResets
    /\ seen \in [Port -> SUBSET Byte] /\ spoilt \in SUBSET Sides

-----------------------------------------------------------------------------
\* What a reset leaves in the processor's memory.
Reset0 ==
    /\ driver' = FALSE /\ i2cReady' = FALSE /\ dioReady' = FALSE
    /\ pc' = [t \in Tasks |-> "idle"]
    /\ data' = [t \in Tasks |-> AllOff]
    /\ cacheIn' = AllOff /\ cacheOut' = AllOff /\ polled' = FALSE
    /\ seen' = [p \in Port |-> {}] /\ spoilt' = {}

\* Power-on: the chips start with all pins high.
Init ==
    /\ pins = AllOn /\ latch = AllOn
    /\ driver = FALSE /\ i2cReady = FALSE /\ dioReady = FALSE
    /\ pc = [t \in Tasks |-> "idle"]
    /\ data = [t \in Tasks |-> AllOff]
    /\ cacheIn = AllOff /\ cacheOut = AllOff /\ polled = FALSE
    /\ faults = 0 /\ resets = 0
    /\ seen = [p \in Port |-> {}] /\ spoilt = {}

Goto(t, label) == pc' = [pc EXCEPT ![t] = label]

\* Something fails, as often as the bound allows; or nothing does.
Fails(kind, side) ==
    /\ kind \in Faults /\ faults < MaxFaults
    /\ faults' = faults + 1 /\ UNCHANGED resets
    /\ spoilt' = spoilt \cup {side}
Works == UNCHANGED <<count, spoilt>>

\* The plant changes a signal.
Plant ==
    /\ \E p \in Port, b \in Byte : pins' = [pins EXCEPT ![p] = b]
    /\ pins' # pins
    /\ seen' = IF pc["poll"] = "idle" THEN seen
               ELSE [p \in Port |-> seen[p] \cup {pins'[p]}]
    /\ UNCHANGED <<latch, flags, pc, data, image, count, spoilt>>

\* io_polling_task calls read_discrete_inputs_slow.
Poll ==
    /\ pc["poll"] = "idle"
    /\ Goto("poll", "check")
    /\ seen' = [p \in Port |-> {pins[p]}]
    /\ spoilt' = spoilt \ {"inputs"}
    /\ UNCHANGED <<chips, flags, data, image, count>>

\* The stack calls writeDiscreteOutputs with a scalar UInt16 (any other value
\* is answered BADTYPEMISMATCH and changes nothing).  The network is started
\* 100 ms after the polling task, which polls after 20 ms: that delay, and no
\* lock, is all there is against an early write.
Command ==
    /\ pc["opc"] = "idle" /\ (EarlyWrites \/ polled)
    /\ \E w \in Commands : data' = [data EXCEPT !["opc"] = w]
    /\ spoilt' = IF dioReady /\ pc["poll"] \in Initialising
                 THEN spoilt ELSE spoilt \ {"outputs"}
    /\ Goto("opc", "check")
    /\ UNCHANGED <<chips, flags, image, count, seen>>

\* if (!dio_initialized) discrete_io_init();
Check(t) ==
    /\ pc[t] = "check"
    /\ Goto(t, IF dioReady THEN "port1" ELSE "init")
    /\ UNCHANGED <<chips, flags, data, image, count, history>>

\* discrete_io_init returns at once if somebody else has been faster.
EnterInit(t) ==
    /\ pc[t] = "init"
    /\ Goto(t, IF dioReady THEN "recheck" ELSE "bus")
    /\ spoilt' = IF ~dioReady /\ \E u \in Tasks \ {t} : pc[u] \in Initialising
                 THEN Sides ELSE spoilt
    /\ UNCHANGED <<chips, flags, data, image, count, seen>>

\* pcf8574_i2c_init: nothing to do if the bus is ready.
CheckBus(t) ==
    /\ pc[t] = "bus"
    /\ Goto(t, IF i2cReady THEN "safe1" ELSE "install")
    /\ UNCHANGED <<chips, flags, data, image, count, history>>

\* Mutant of Install: a failed i2c_driver_install is not noticed.
InstallUnchecked(t) ==
    /\ pc[t] = "install"
    /\ \/ ~driver /\ driver' = TRUE /\ Goto(t, "ready") /\ Works
       \/ driver /\ UNCHANGED driver /\ Goto(t, "recheck") /\ Works
       \/ Fails("install", Side(t)) /\ UNCHANGED driver /\ Goto(t, "ready")
    /\ UNCHANGED <<chips, i2cReady, dioReady, data, image, seen>>

\* Mutant of Install: the driver stays installed when a later call of the same
\* function fails, and the next attempt is refused.
InstallHalfWay(t) ==
    /\ pc[t] = "install"
    /\ \/ ~driver /\ driver' = TRUE /\ Goto(t, "ready") /\ Works
       \/ driver /\ UNCHANGED driver /\ Goto(t, "recheck") /\ Works
       \/ Fails("install", Side(t)) /\ driver' = TRUE /\ Goto(t, "recheck")
    /\ UNCHANGED <<chips, i2cReady, dioReady, data, image, seen>>

\* Mutant of Install: the installation is tried until it succeeds.
InstallUntilDone(t) ==
    /\ pc[t] = "install"
    /\ \/ ~driver /\ driver' = TRUE /\ Goto(t, "ready") /\ Works
       \/ Fails("install", Side(t)) /\ UNCHANGED driver /\ Goto(t, "install")
    /\ UNCHANGED <<chips, i2cReady, dioReady, data, image, seen>>

\* i2c_param_config and i2c_driver_install; the latter refuses a second
\* installation.
Install(t) ==
    /\ pc[t] = "install"
    /\ \/ ~driver /\ driver' = TRUE /\ Goto(t, "ready") /\ Works
       \/ driver /\ UNCHANGED driver /\ Goto(t, "recheck") /\ Works
       \/ Fails("install", Side(t)) /\ UNCHANGED driver /\ Goto(t, "recheck")
    /\ UNCHANGED <<chips, i2cReady, dioReady, data, image, seen>>

BusReady(t) ==
    /\ pc[t] = "ready"
    /\ i2cReady' = TRUE
    /\ Goto(t, "safe1")
    /\ UNCHANGED <<chips, driver, dioReady, data, image, count, history>>

\* pcf8574_write of a byte: a failed transaction may or may not have reached
\* the latch.
WritePort(p, b) ==
    \/ latch' = [latch EXCEPT ![p] = b] /\ Works
    \/ Fails("write", "outputs") /\ (UNCHANGED latch \/ latch' = [latch EXCEPT ![p] = b])

\* Both output chips are told to switch everything off; the results of the
\* two writes are ignored.
MakeSafe(t) ==
    /\ pc[t] \in Safing
    /\ WritePort(Addressed(pc[t]), Top)
    /\ Goto(t, After(pc[t]))
    /\ UNCHANGED <<pins, flags, data, image, seen>>

InitDone(t) ==
    /\ pc[t] = "done"
    /\ dioReady' = TRUE
    /\ Goto(t, "recheck")
    /\ UNCHANGED <<chips, driver, i2cReady, data, image, count, history>>

\* Back in the caller, if (!dio_initialized): the reader returns 0xFFFF, the
\* writer returns without writing.
Recheck(t) ==
    /\ pc[t] = "recheck"
    /\ Goto(t, IF dioReady THEN "port1" ELSE "store")
    /\ data' = IF ~dioReady /\ t = "poll" THEN [data EXCEPT ![t] = AllOn]
                                          ELSE data
    /\ UNCHANGED <<chips, flags, image, count, history>>

\* pcf8574_read, inverted: 0xFF after a failure.
ReadPort ==
    /\ pc["poll"] \in Moving
    /\ LET p == Addressed(pc["poll"]) IN
         \E b \in Byte :
            /\ \/ b = pins[p] /\ Works
               \/ b = Top /\ Fails("read", "inputs")
            /\ data' = [data EXCEPT !["poll"][p] = Not(b)]
    /\ Goto("poll", After(pc["poll"]))
    /\ UNCHANGED <<chips, flags, image, seen>>

\* Mutant of OutputPort: a byte that is what the cache says is not written.
OutputPortIfChanged ==
    /\ pc["opc"] \in Moving
    /\ LET p == Addressed(pc["opc"]) IN
         IF data["opc"][p] = cacheOut[p]
         THEN Works /\ UNCHANGED latch
         ELSE WritePort(p, Not(data["opc"][p]))
    /\ Goto("opc", After(pc["opc"]))
    /\ UNCHANGED <<pins, flags, data, image, seen>>

\* pcf8574_write of the inverted byte; the result is ignored.
OutputPort ==
    /\ pc["opc"] \in Moving
    /\ LET p == Addressed(pc["opc"]) IN WritePort(p, Not(data["opc"][p]))
    /\ Goto("opc", After(pc["opc"]))
    /\ UNCHANGED <<pins, flags, data, image, seen>>

\* The cache is updated, unless its mutex is not obtained in 20 ms.  The
\* writer returns UA_STATUSCODE_GOOD in either case.
Store(t) ==
    /\ pc[t] = "store"
    /\ \/ /\ cacheIn' = IF t = "poll" THEN data[t] ELSE cacheIn
          /\ cacheOut' = IF t = "opc" THEN data[t] ELSE cacheOut
          /\ Works
       \/ Fails("mutex", Side(t)) /\ UNCHANGED <<cacheIn, cacheOut>>
    /\ polled' = (polled \/ t = "poll")
    /\ seen' = IF t = "poll" THEN [p \in Port |-> {}] ELSE seen
    /\ data' = [data EXCEPT ![t] = AllOff]
    /\ Goto(t, "idle")
    /\ UNCHANGED <<chips, flags>>

\* A watchdog, an abort or a brown-out of the processor alone.
Reset ==
    /\ resets < MaxResets
    /\ resets' = resets + 1
    /\ Reset0
    /\ UNCHANGED <<chips, faults>>

Step(t) ==
    \/ Check(t) \/ EnterInit(t) \/ CheckBus(t) \/ Install(t) \/ BusReady(t)
    \/ MakeSafe(t) \/ InitDone(t) \/ Recheck(t) \/ Store(t)
    \/ t = "poll" /\ ReadPort
    \/ t = "opc" /\ OutputPort

Next == Plant \/ Poll \/ Command \/ Reset \/ \E t \in Tasks : Step(t)

\* The polling loop is endless, and no call hangs: every I2C transaction has a
\* timeout of 10 ms.
Spec == /\ Init /\ [][Next]_vars
        /\ WF_vars(Poll)
        /\ \A t \in Tasks : WF_vars(Step(t))

-----------------------------------------------------------------------------
\* No transaction is attempted before the driver is installed, whichever of
\* the two unlocked flags let the task through.
DriverBeforeUse ==
    \A t \in Tasks : pc[t] \in {"ready", "done"} \cup Safing \cup Moving => driver

\* writeDiscreteOutputs "updates both the hardware and the cache": between two
\* writes the relays are what the outputs word of the cache says.
RelaysAsCached ==
    dioReady /\ pc["opc"] = "idle"
        => \A p \in Port : latch[p] = Not(cacheOut[p])

\* So it is unless something has failed in the last command or since, or the two
\* tasks were both in discrete_io_init then: whatever has gone wrong before, the
\* next command mends it, and so does the initialisation after a reset.
OutputsAgree ==
    dioReady /\ pc["opc"] = "idle" /\ "outputs" \notin spoilt
        => \A p \in Port : latch[p] = Not(cacheOut[p])

\* read_discrete_inputs_slow returns the "current state of discrete inputs":
\* each byte is one its pins had during the call, if nothing has failed in this
\* call and the server task was not in discrete_io_init at the same time.
ReadIsCurrent ==
    pc["poll"] = "store" /\ "inputs" \notin spoilt
        => \A p \in Port : \E level \in seen[p] : data["poll"][p] = Not(level)

\* discrete_io_init "sets all outputs to a safe state (off)": when it reports
\* that it is done, after power-on or after a reset with relays on, they are,
\* unless something has failed: the results of its two writes are ignored.
SafeWhenReady ==
    [][faults = 0 /\ ~dioReady /\ dioReady' => latch' = AllOn]_vars

\* A command is carried out or answered, whatever fails on the way.
CommandEnds == pc["opc"] # "idle" ~> pc["opc"] = "idle"

\* Failures of the initialisation are made up for by the next poll.
EventuallyReady == <>[]dioReady
=============================================================================
