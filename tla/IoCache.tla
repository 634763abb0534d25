------------------------------ MODULE IoCache ------------------------------
(***************************************************************************)
(* components/io_cache/io_cache.c: the cache of discrete inputs, discrete  *)
(* outputs and ADC channels shared by the polling task (which fills it)    *)
(* and the OPC UA server task (which reads it and mirrors client writes).  *)
(*                                                                         *)
(* Every field an API function copies is a step of its own, so that the    *)
(* interleavings of two cores are the interleavings of this module.  The   *)
(* validity flag of a channel is read BEFORE the mutex is taken, as in the *)
(* code.  xSemaphoreTake has a timeout (5 ms to read, 20 ms to update):    *)
(* while the mutex is held by another task, the wait may end without it.   *)
(* Left out is io_cache_get_all_adc_channels, which hands out a pointer to *)
(* the values ("no thread safety or validity checking", its comment says): *)
(* nobody calls it.                                                        *)
(*                                                                         *)
(* reg and written are history variables: what the updates that completed  *)
(* have made of the cache.  No guard reads them.                           *)
(***************************************************************************)
EXTENDS Integers

CONSTANTS
    Tasks,          \* FreeRTOS tasks that call the cache
    Inputs,         \* the discrete inputs word
    Outputs,        \* the discrete outputs word
    NumAdc,         \* NUM_ADC_CHANNELS
    Value,          \* contents of a word or a channel, 0 being all off
    Calls,          \* the calls each task makes: [Tasks -> SUBSET Call]
    TickModulus,    \* 2^32 on the board: xTaskGetTickCount() is 32 bits wide
    MaxUptime       \* bound of the model: the clock stops here

Channels == 0..(NumAdc - 1)
Words == {Inputs, Outputs}
Items == Words \cup Channels

\* A channel argument is an int: the two neighbours of the legal range stand
\* for every illegal one.
ChannelArg == -1..NumAdc

Call == [kind : {"get", "set"}, item : Words \cup ChannelArg]
          \cup [kind : {"setAll"}, item : {-1, 0}]
NoCall == [kind |-> "setAll", item |-> 0]

\* The update of all channels with values == NULL.
NullCall == [kind |-> "setAll", item |-> -1]

\* A call in progress: in the loop of update_all the item is the index.
Frame == Call \cup [kind : {"setAll"}, item : Channels]

Stamp == 0..(TickModulus - 1)
Entry == [val : Value, src : Stamp, srv : Stamp]
Blank == [val |-> 0, src |-> 0, srv |-> 0]

ASSUME ItemsAssumption ==
    /\ NumAdc \in Nat \ {0}
    /\ Inputs # Outputs
    /\ Words \cap ChannelArg = {}
ASSUME ValueAssumption == Value \subseteq Nat /\ 0 \in Value
ASSUME ClockAssumption == TickModulus \in Nat \ {0} /\ MaxUptime \in Nat
ASSUME CallsAssumption == Calls \in [Tasks -> SUBSET Call]

VARIABLES
    cache,      \* io_cache and adc_cache: an entry per item
    valid,      \* adc_cache.adc_valid
    mutex,      \* io_cache.mutex: the set of its holders
    uptime,     \* ticks since boot, which no register of the board holds
    pc,         \* control point of each task inside an API function
    op,         \* the call being executed; its item is also the loop index
    buf,        \* the caller's value and stamps, filled in or passed in
    ok,         \* did the call obtain the mutex and do its work?
    reg,        \* history: the entries as of the last completed updates
    written     \* history: the items some completed update reached

shared == <<cache, valid, mutex>>
history == <<reg, written>>
local == <<op, buf, ok>>
vars == <<shared, uptime, pc, local, history>>

\* get_current_time_ms: a 32-bit product, widened to 64 bits too late.
Now == uptime % TickModulus

Field == {"val", "src", "srv"}
Control == {"idle", "check", "take"} \cup Field \cup {"flag", "give", "ret"}

TypeOK ==
    /\ cache \in [Items -> Entry]
    /\ valid \in [Channels -> BOOLEAN]
    /\ mutex \in SUBSET Tasks
    /\ uptime \in 0..MaxUptime
    /\ pc \in [Tasks -> Control]
    /\ op \in [Tasks -> Frame]
    /\ buf \in [Tasks -> Entry]
    /\ ok \in [Tasks -> BOOLEAN]
    /\ reg \in [Items -> Entry]
    /\ written \in SUBSET Items

-----------------------------------------------------------------------------
\* io_cache_init: both structures are cleared, the mutex is created free.
Init ==
    /\ cache = [i \in Items |-> Blank]
    /\ valid = [i \in Channels |-> FALSE]
    /\ mutex = {}
    /\ uptime = 0
    /\ pc = [t \in Tasks |-> "idle"]
    /\ op = [t \in Tasks |-> NoCall]
    /\ buf = [t \in Tasks |-> Blank]
    /\ ok = [t \in Tasks |-> FALSE]
    /\ reg = cache
    /\ written = {}

Tick ==
    /\ uptime < MaxUptime
    /\ uptime' = uptime + 1
    /\ UNCHANGED <<shared, pc, local, history>>

Goto(t, label) == pc' = [pc EXCEPT ![t] = label]

\* The functions with a channel parameter begin with a check of it, the update
\* of all channels with a check of its pointer, which NoCall would pass.
Checked(c) == c = NullCall \/ (c.kind # "setAll" /\ c.item \notin Words)

\* A getter starts with a zero value (and its callers with zero stamps).  A
\* setter is handed a value and the moment the hardware was read, which its
\* callers sample just before the call.
Begin(t) ==
    /\ pc[t] = "idle"
    /\ \E c \in Calls[t] :
          /\ op' = [op EXCEPT ![t] = c]
          /\ \E v \in (IF c.kind = "get" THEN {0} ELSE Value) :
                buf' = [buf EXCEPT ![t] =
                          IF c.kind = "get" THEN Blank
                          ELSE [val |-> v, src |-> Now, srv |-> 0]]
          /\ Goto(t, IF Checked(c) THEN "check" ELSE "take")
    /\ UNCHANGED <<shared, uptime, ok, history>>

\* Mutant of Acceptable: io_cache_get_adc_channel without the test of adc_valid.
AcceptableAnyTime(c) == c.item \in Channels

\* channel < 0 || channel >= NUM_ADC_CHANNELS or !values, and for the getter
\* also !adc_valid[channel]: no mutex is held here.
Acceptable(c) ==
    /\ c.item \in Channels
    /\ c.kind = "get" => valid[c.item]

CheckChannel(t) ==
    /\ pc[t] = "check"
    /\ Goto(t, IF Acceptable(op[t]) THEN "take" ELSE "ret")
    /\ UNCHANGED <<shared, uptime, local, history>>

\* Mutant of Take: only the setters wait for the mutex.
TakeToWriteOnly(t) ==
    /\ pc[t] = "take"
    /\ op[t].kind = "get" \/ mutex = {}
    /\ mutex' = mutex \cup {t}
    /\ Goto(t, "val")
    /\ UNCHANGED <<cache, valid, uptime, local, history>>

\* xSemaphoreTake(io_cache.mutex, ...) == pdTRUE
Take(t) ==
    /\ pc[t] = "take"
    /\ mutex = {}
    /\ mutex' = {t}
    /\ Goto(t, "val")
    /\ UNCHANGED <<cache, valid, uptime, local, history>>

\* Mutant of TimeOut: the result of xSemaphoreTake is not looked at.
TimeOutUnchecked(t) ==
    /\ pc[t] = "take"
    /\ mutex # {}
    /\ Goto(t, "val")
    /\ UNCHANGED <<shared, uptime, local, history>>

\* Mutant of TimeOut: a task waits for the mutex without a timeout, in vain.
WaitForEver(t) == pc[t] = "take" /\ mutex # {} /\ UNCHANGED vars

\* xSemaphoreTake returns pdFALSE: the getter keeps its zero, the setter
\* drops the update.
TimeOut(t) ==
    /\ pc[t] = "take"
    /\ mutex # {}
    /\ Goto(t, "ret")
    /\ UNCHANGED <<shared, uptime, local, history>>

\* Mutant of AfterField: the getter forgets to copy server_timestamp_ms.
AfterFieldNoServerStamp(t) ==
    CASE pc[t] = "val" -> "src"
      [] pc[t] = "src" -> IF op[t].kind = "get" THEN "give" ELSE "srv"
      [] pc[t] = "srv" -> IF op[t].kind # "get" /\ op[t].item \in Channels
                          THEN "flag" ELSE "give"

\* The statement after the copy of a field.
AfterField(t) ==
    CASE pc[t] = "val" -> "src"
      [] pc[t] = "src" -> "srv"
      [] pc[t] = "srv" -> IF op[t].kind # "get" /\ op[t].item \in Channels
                          THEN "flag" ELSE "give"

\* A getter copies one field out.
Load(t) ==
    /\ pc[t] \in Field
    /\ op[t].kind = "get"
    /\ buf' = [buf EXCEPT ![t][pc[t]] = cache[op[t].item][pc[t]]]
    /\ Goto(t, AfterField(t))
    /\ UNCHANGED <<shared, uptime, op, ok, history>>

\* Mutant of Store: the server stamp is left as the caller's structure has it.
StoreNoServerStamp(t) ==
    /\ pc[t] \in Field
    /\ op[t].kind # "get"
    /\ cache' = [cache EXCEPT ![op[t].item][pc[t]] = buf[t][pc[t]]]
    /\ Goto(t, AfterField(t))
    /\ UNCHANGED <<valid, mutex, uptime, local, history>>

\* Mutant of Store: the server stamp is the one the caller sampled.
StoreCallersClock(t) ==
    /\ pc[t] \in Field
    /\ op[t].kind # "get"
    /\ cache' = [cache EXCEPT ![op[t].item][pc[t]] =
                    IF pc[t] = "srv" THEN buf[t].src ELSE buf[t][pc[t]]]
    /\ Goto(t, AfterField(t))
    /\ UNCHANGED <<valid, mutex, uptime, local, history>>

\* A setter copies one field in; the server stamp is read from the clock at
\* that moment, inside the critical section.
Store(t) ==
    /\ pc[t] \in Field
    /\ op[t].kind # "get"
    /\ cache' = [cache EXCEPT ![op[t].item][pc[t]] =
                    IF pc[t] = "srv" THEN Now ELSE buf[t][pc[t]]]
    /\ Goto(t, AfterField(t))
    /\ UNCHANGED <<valid, mutex, uptime, local, history>>

\* Mutant of SetValid: the loop of io_cache_update_all_adc_channels runs once too
\* often.
SetValidPastEnd(t) ==
    /\ pc[t] = "flag"
    /\ valid' = [valid EXCEPT ![op[t].item] = TRUE]
    /\ IF op[t].kind = "setAll" /\ op[t].item <= NumAdc - 1
         THEN /\ op' = [op EXCEPT ![t].item = @ + 1]
              /\ Goto(t, "val")
         ELSE /\ Goto(t, "give")
              /\ UNCHANGED op
    /\ UNCHANGED <<cache, mutex, uptime, buf, ok, history>>

\* adc_valid[channel] = true, the last store of a channel; the loop of
\* io_cache_update_all_adc_channels goes on to the next channel.
SetValid(t) ==
    /\ pc[t] = "flag"
    /\ valid' = [valid EXCEPT ![op[t].item] = TRUE]
    /\ IF op[t].kind = "setAll" /\ op[t].item < NumAdc - 1
         THEN /\ op' = [op EXCEPT ![t].item = @ + 1]
              /\ Goto(t, "val")
         ELSE /\ Goto(t, "give")
              /\ UNCHANGED op
    /\ UNCHANGED <<cache, mutex, uptime, buf, ok, history>>

Targets(c) == IF c.kind = "setAll" THEN Channels ELSE {c.item}

\* xSemaphoreGive: the instant the call takes effect.
Give(t) ==
    /\ pc[t] = "give"
    /\ mutex' = mutex \ {t}
    /\ ok' = [ok EXCEPT ![t] = TRUE]
    /\ IF op[t].kind = "get"
         THEN UNCHANGED history
         ELSE /\ reg' = [i \in Items |->
                           IF i \in Targets(op[t]) THEN cache[i] ELSE reg[i]]
              /\ written' = written \cup Targets(op[t])
    /\ Goto(t, "ret")
    /\ UNCHANGED <<cache, valid, uptime, op, buf>>

\* The function returns; what it returned is the caller's from here on.
Return(t) ==
    /\ pc[t] = "ret"
    /\ Goto(t, "idle")
    /\ op' = [op EXCEPT ![t] = NoCall]
    /\ buf' = [buf EXCEPT ![t] = Blank]
    /\ ok' = [ok EXCEPT ![t] = FALSE]
    /\ UNCHANGED <<shared, uptime, history>>

Step(t) ==
    \/ CheckChannel(t) \/ Take(t) \/ TimeOut(t)
    \/ Load(t) \/ Store(t) \/ SetValid(t) \/ Give(t) \/ Return(t)

Next == Tick \/ \E t \in Tasks : Begin(t) \/ Step(t)

SafeSpec == Init /\ [][Next]_vars

\* A task inside a function of the cache is never suspended for ever: both
\* tasks are FreeRTOS tasks that the scheduler resumes, and xSemaphoreTake
\* always returns (with the mutex or without it).
Spec == SafeSpec /\ \A t \in Tasks : WF_vars(Step(t))

-----------------------------------------------------------------------------
Inside == Field \cup {"flag", "give"}

\* The mutex guards every copy: a task is between xSemaphoreTake and
\* xSemaphoreGive exactly when it alone holds io_cache.mutex.  A call that
\* timed out must not be there, nor release a mutex it does not hold.
MutualExclusion == \A t \in Tasks : pc[t] \in Inside <=> mutex = {t}

\* A getter copies value, source stamp and server stamp in three statements;
\* the triple it holds when it releases the mutex is the triple of ONE
\* completed update (or the initial one), the latest.
ReadIsCommitted ==
    \A t \in Tasks : pc[t] = "give" /\ op[t].kind = "get"
                       => buf[t] = reg[op[t].item]

\* What a successful getter returns was cached no earlier than the hardware
\* was read: source stamp <= server stamp.
StampOrder ==
    \A t \in Tasks : ok[t] /\ op[t].kind = "get"
                       => buf[t].src <= buf[t].srv

\* io_cache_get_adc_channel returns true only for a channel that an update
\* completed, although it tests adc_valid before it takes the mutex.
ChannelReadWasWritten ==
    \A t \in Tasks : ok[t] /\ op[t].kind = "get" /\ op[t].item \in Channels
                       => op[t].item \in written

\* No update replaces an entry by one with an older server stamp, whatever
\* order the tasks obtain the mutex in: the clock is read inside it.
NeverOlder ==
    [][\A i \in Items : reg[i].srv <= reg'[i].srv]_vars

\* Every call returns.
CallsReturn ==
    \A t \in Tasks : pc[t] # "idle" ~> pc[t] = "idle"

\* The cache is a set of atomic registers: an update becomes visible when it
\* releases the mutex, all its channels at once, and a read returns what is
\* visible when it releases it.  These are the registers' variables.
AbsPhase == [t \in Tasks |-> IF pc[t] = "idle" THEN "idle"
                             ELSE IF pc[t] = "ret" THEN "done" ELSE "busy"]
AbsCall == [t \in Tasks |-> IF op[t].kind = "setAll" THEN NoCall ELSE op[t]]
AbsGiven == [t \in Tasks |-> IF op[t].kind = "get" THEN Blank ELSE buf[t]]
AbsResult == [t \in Tasks |-> IF ok[t] /\ op[t].kind = "get" THEN buf[t]
                                                           ELSE Blank]

Registers == INSTANCE CacheRegister WITH phase <- AbsPhase, call <- AbsCall,
                 given <- AbsGiven, result <- AbsResult, served <- ok

AtomicRegisters == Registers!Spec

=============================================================================
