# Verification of the OPC UA server for the Kincony KC868-A16v3

TLA+ models of the firmware in `main/` and `components/` (C, FreeRTOS, ESP32-S3), model-checked with TLC and, where
marked, proved with TLAPS. Of the vendored OPC UA stack (`components/open62541lib`) only two functions are modelled. Paths
are relative to the root of the repository; the build is the one of `sdkconfig` (WiFi, two cores, 1000 ticks per second, task watchdog of
5 s that does not panic).

## 1. The system

| Component | Source | State | Operations | Talks to |
|---|---|---|---|---|
| I/O cache | `components/io_cache/io_cache.c` | value, source stamp and server stamp of the input word, the output word and each ADC channel; a validity flag per channel; one mutex | init, get and update of a word, of a channel, of all channels | called by the polling task (updates) and by the server task (reads, mirror of client writes) |
| Polling task | `components/io_cache/io_polling.c` | the tick counts of the last input poll and the last ADC poll | one endless loop: poll inputs every 20 ms, ADC every 100 ms, delay 5 ms | reads hardware through the process image, updates the cache |
| Process image | `components/model/model.c` | `dio_initialized`, the PCF8574 descriptors, the ADC's own arrays, diagnostic counter, loopback registers | lazy initialisation, slow read and write of the hardware, OPC UA read and write callbacks, node creation | called by the polling task and by the OPC UA stack; calls driver and cache |
| PCF8574 driver | `components/esp32-pcf8574/pcf8574.c` | `i2c_initialized`, `current_i2c_port`; the chips' latches | bus init, read, write, set bit, get bit | I2C bus |
| Server life cycle | `main/opcua_esp32.c` | `running`, `isServerCreated`, `esp_sntp_initialized`, watchdog subscriptions and errors | `app_main`, got-IP and disconnect handlers, the server task's loop, SNTP | event loop task, server task, task watchdog |
| Network | `components/ethernet/ethernet_connect.c` | `s_connect_event_group`, the interface, registered handlers | connect, disconnect, start and stop of WiFi or Ethernet, reconnect on disconnect | event loop task |
| Test client | `TestOPCUAclient/test_counter8.c` | counters, the square wave, statistics | cycle: write outputs and loopback, read nine tags; clean-up | server, over the network |

Tasks: the polling task (core 1, priority 8), the server task (core 0, priority 5, runs every OPC UA callback one at a
time), the event loop's task (network handlers, one at a time) and `app_main`. They share the I/O cache (under its
mutex) and, under nothing, `dio_initialized`, `i2c_initialized`, the ADC arrays of `model.c`, `running` and
`isServerCreated`.

What is hard, and what must hold, component by component:

- **I/O cache.** Each entry is three fields, two of them 64 bits wide on a 32-bit machine, copied one by one on two
  cores. The mutex is waited for with a timeout, and what happens then differs between functions: getters of a word
  return 0, setters do nothing. `adc_valid` is tested before the mutex is taken. The clock product is 32 bits wide and
  wraps after 49.7 days. A read must return one completed update, the latest; nobody may hold the mutex who did not
  obtain it; stamps must not run backwards.
- **Polling task.** Two periods in one loop with one sample of the clock, and transfers that take up to tens of
  milliseconds on a bad bus. Neither poll may be early, neither may starve the other, also across the wrap.
- **Discrete I/O.** Both tasks initialise bus and chips lazily, without a lock. A word is two I2C transactions, each of
  which can fail, and `model.c` ignores the results of writes. The chips keep their latches when the processor restarts.
  Between two writes the relays must be what the cache says; a reading must be one; "initialised" must mean "all off"; and
  what a failure has spoilt, the next write or poll must mend.
- **Server life cycle and network.** Handlers of two source files run for the same events in the order of their
  registration; one of them waits up to 20 s for the time while events queue up. A flag tells the server task to stop.
  There must be one server at most, it must stop when told, come back when the network does, and leave the watchdog
  behind in order.
- **ADC of the process image.** Beside the I/O cache the polling task keeps `adc_cache` and `adc_timestamps_ms`, and
  clients are answered from these, without a lock, by a callback whose answer the stack completes. An answer must not be
  older than the last complete scan, nor go back behind an earlier one; the stamp a client is told should be the scan's; and
  the two caches must tell the same.
- **PCF8574 driver.** Bits are changed by reading a byte and writing it back, in two transactions and without a lock, and
  the value of a failed read is a legal byte. A bit must be changed without changing others, and nothing may be written
  back that was not read.
- **Diagnostic tags and test client.** The client ignores the results of its writes, works on after any failure, and prints
  at the end how reliable everything was and that the outputs are off. A call that times out closes its channel, while the
  server may still carry it out. The statistics must mean what they say, a good read must be the answer to its own request,
  a key must stop the program.

## 2. The modules

| Module | Models | About |
|---|---|---|
| `CacheRegister` | abstract | what a user of the cache may rely on: atomic registers with an invocation, one instant of effect, a response |
| `IoCache` | `io_cache.c`, all functions but one | one step per access to shared memory: check of the channel, `xSemaphoreTake` (obtained or timed out), each field, the valid flag, `xSemaphoreGive`, return |
| `IoPolling` | `io_polling.c`, the loop | sample, inputs, between, ADC, sleep, over a wrapping tick counter |
| `DiscreteIO` | the discrete part of `model.c`, bus and byte access of `pcf8574.c` | the polling task and the server task between the pins, the latches and the cache; one I2C transaction per step |
| `AdcImage` | the ADC part of `model.c`, `ReadWithNode` of the stack | the scan and the read callback, one step per load or store of an array, and the answer the client gets |
| `Pcf8574` | `pcf8574_read`, `_write`, `_set_bit`, `_get_bit` | callers that share a chip without a lock; one transaction per step |
| `ServerLifecycle` | `opcua_esp32.c`, handlers of `ethernet_connect.c` | `app_main`, event loop and server task, the watchdog's subscriptions, the WiFi station |
| `TestClient` | `test_counter8.c`, `__UA_Client_Service` of the stack, the diagnostic callbacks of `model.c` | the client's program, the requests and answers on their way, the tags on the server |
| `IoCacheProofs`, `IoCacheRefinementProof` | | theorems about `IoCache`; that it implements `CacheRegister` |
| `IoPollingProofs`, `DiscreteIOProofs`, `AdcImageProofs`, `Pcf8574Proofs`, `ServerLifecycleProofs`, `TestClientProofs` | | inductive invariants and theorems about the module of that name |
| `MCIoCache`, `MCDiscreteIO`, `MCPcf8574`, `MCServerLifecycle` | | instances for TLC |

How they fit: `IoPolling` says when the polling task calls `read_discrete_inputs_slow`, `update_all_adc_channels_slow` and
the setters, `DiscreteIO` and `AdcImage` what these calls and the client's requests do to chips, arrays and cache, `IoCache`
what the cache's functions do inside. `DiscreteIO` and `AdcImage` use the cache as words that change in one step, and may
fail to; `IoCache` is what justifies it: it implements the registers of `CacheRegister`. `TestClient` uses the tags as
the client sees them, whatever produces their values.

**IoCache.** `cache`, `valid` and `mutex` are `io_cache`, `adc_cache` and `io_cache.mutex`; `pc`, `op`, `buf`, `ok` are the
frame of the call each task is in. `op.item` is also the loop index of `io_cache_update_all_adc_channels`, or says that its
`values` are `NULL` (`NullCall`). `TimeOut` is
`xSemaphoreTake` returning `pdFALSE`, possible whenever somebody else holds the mutex. `reg` and `written` are history: the
entries as of the completed updates. `uptime` counts ticks, `Now` is what `get_current_time_ms` returns, modulo
`TickModulus`. The callers' convention that a source stamp is sampled just before the call is part of `Begin`.

**IoPolling.** `left` counts the ticks until the current activity ends; `tick` advances only then, because the loop's own
instructions take no measurable time. `since...` are history: the true ages of what the code remembers as tick counts.

**DiscreteIO.** `pins` are the levels at the input chips, `latch` those at the output chips (0 = relay on), `driver` whether
ESP-IDF has the I2C driver installed, `i2cReady` and `dioReady` the two unlocked flags. The control points `check`, `init`,
`bus`, `install`, `ready`, `safe1`, `safe2`, `done`, `recheck` are those of `discrete_io_init` and `pcf8574_i2c_init` and of
their two callers. `Faults` names what may fail: the installation of the driver, a read, a write (which may or may not
have reached the latch), the wait for the cache's mutex. `Reset` clears the processor's memory and nothing else.
`EarlyWrites` says whether a client may write before the first poll is over. `app_main` starts the network 100 ms after the
polling task, and that delay, not a lock, is all there is against it; what relies on the delay says so. `spoilt` is history:
what a failure has touched since the last poll began (`"inputs"`) or the last command (`"outputs"`), and both when the two
tasks were in `discrete_io_init` together. A command clears it, except behind a polling task that is still initialising
what is ready already. `seen` are the levels of the pins during the poll in progress. A byte is
abstracted to 0..`Top`.

**AdcImage.** A reading is named by the number of the scan that took it. `image` are the two arrays, `shared` what the I/O
cache holds of the channels. `todo` are the stores the scan has still to make for a channel: the compiler may order them as
it likes. A stamp has 64 bits but comes from a product of 32, so its upper word is always 0 and it cannot be torn: one word.
`answer` is the callback's `dataValue`, `told` the source stamp the client gets. The code loads the stamp twice, to compare
it with 0 and to convert it to seconds (`TestStamp`, `LoadStamp`, `Second`), and sets no `hasSourceTimestamp`; `StampAnswer`
is what `ReadWithNode` makes of that. The stack's clock is taken to start with the board, which is the case nearest to what
the callback wanted. `taken`, `complete`, `floor`, `newest` and `missed` are history.

**Pcf8574.** A byte is the set of its high bits; a pin is high if its latch is and nothing pulls it low. `Begin` is what a
function does before its first transaction, the refusal of `bit > 7` and of a `NULL` device included; `Read` is a transaction and what the
function makes of the byte. A transaction that fails gives 0xFF, or may still have written. `failed` and `exact` are
history: has a transaction of this call failed, and is what the call has read still what is latched? The driver is installed;
who installs it and when is in `DiscreteIO`.

**TestClient.** `step` numbers the calls: 0 and 1 the writes of a cycle, 2 to 10 its nine reads, 11 and 12 the writes of the
clean-up. A call is a request, an execution by the server and an answer, each a step; `Lose` takes a request or an answer
away. `TimeOut` is any call that ends without its answer: the library closes its channel then, and `Refuse` is every later
call. The server executes a request it has received even if the client no longer waits. `Reset` is the board's: connection,
channel and session are forgotten, so that no service fault comes back and the next call ends without an answer; the tags
start at 0. `written` is history.

**ServerLifecycle.** `handler` is where the event loop's task is: `time`, `ntp`, `create` in `opc_event_handler`, `ip` in
`on_got_ip`, `stop` in `disconnect_handler`, `rejoin` in `on_wifi_disconnect`. `watched` are the watchdog's subscribers.
`esp_task_wdt_reset` fails exactly for a task that is not subscribed. `Servers` has two members, so that a second server
could be created. A lost link and a failed join are the same event to the code. `Abort` is `ESP_ERROR_CHECK` after a
refusal of the WiFi driver: everything starts again.

## 3. What the runs check

| Run | Properties | Shows |
|---|---|---|
| `io_cache` | `TypeOK`, `MutualExclusion`, `ReadIsCommitted`, `StampOrder`, `ChannelReadWasWritten`, `NeverOlder`, `CallsReturn`, `AtomicRegisters` | any call of the API by two tasks: no torn triple, no unwritten channel, stamps in order, every call returns, the refinement of `CacheRegister` |
| `io_cache_wrap` | `StampOrder` **violated** | across the wrap of the clock a server stamp is below its source stamp |
| `io_polling` | `ElapsedIsAge`, `NeitherStarves`, `NeitherEarly`, `PollsForEver` | the timing of both polls over several wraps |
| `discrete_io` | `TypeOK`, `OutputsAgree`, `ReadIsCurrent`, `SafeWhenReady`, `DriverBeforeUse`, `CommandEnds`, `EventuallyReady` | a failure of driver, transaction or mutex, a reset with relays on, writes at any time: the next command or poll mends what went wrong |
| `discrete_io_late_init` | `RelaysAsCached` **violated** | a write lost in a half-done initialisation is cached and answered GOOD |
| `adc_image` | `TypeOK`, `ReadIsFresh`, `ReadsGoForward`, `CachesAgree` | scans against a reader without a lock, lost updates of the I/O cache, a failed conversion that resets the board |
| `adc_stamp` | `StampIsOfScan` **violated** | a client that asks for the source stamp gets the time of its own read |
| `pcf8574` | `TypeOK`, `NoBlindWrite`, `OthersKept` | two callers, all calls, pins pulled low, two failing transactions |
| `pcf8574_set_bit` | `SetBitSucceeds` **violated** | with all pins high a bit cannot be changed, and the caller is told of a failure that was none |
| `server` | `TypeOK`, `AtMostOneServer`, `WatchedWhileWorking`, `ServerStops`, `NetworkReturns`, `AppReturns`, `StaysUp` | lost links, new addresses, and any two failures of the start |
| `server_returns` | `ServerReturns` **violated** | after one lost link the server never comes back |
| `test_client` | `TypeOK`, `TallyAddsUp`, `ReliableMeansWritten`, `OutputsReset`, `GoodReadsAreCurrent`, `KeyStops` | lost messages, time-outs, requests carried out late, a reset of the board, a key at any time |

The violated properties state what a comment or a document of the repository says; the quotations are in `PROJECT.json` under
`findings`. One more disagreement needs no run: the server task logs "Too many watchdog errors, restarting task"
(`main/opcua_esp32.c:336`) and ends, and after the end of a server task none lives until a reset (theorem `EndsForGood`).
In `adc_stamp` the property fails for the flag alone: were `hasSourceTimestamp` set in `LoadStamp`, TLC would find it true.

**What the properties except, and why.** `model.c` ignores the results of its transactions: one failed write leaves relays
that are not what the cache says, one failed write in `discrete_io_init` leaves relays on and still reports success, a failed
installation makes every input read as on. `OutputsAgree` and `ReadIsCurrent` say how long that lasts, for the last command
and the present poll, and nothing of the time until then; they also except commands and polls during which both tasks were
initialising. `discrete_io_late_init` shows what this costs, although the first poll came first. Between a reset and the end
of the initialisation relays may be on while the cache says off (`OutputsAgree` begins with `dioReady`). `SafeWhenReady` holds
while nothing has failed. In `IoCache` a getter of a word
whose wait for the mutex times out returns 0 with zero stamps, which its caller cannot tell from a reading: `ReadIsCommitted`
is about calls that obtained the mutex, and `CacheRegister` allows the refusal. `StampOrder` and `NeverOlder` are about a
clock that has not wrapped. `OthersKept` is about a byte that was read as it is latched and not written since: without that,
the other caller's write is undone and an input pin pulled low is written back low, which is how the code is.
`OutputsReset` excepts a client whose channel closed: it prints that the outputs are off in any case, also when the write
that was to do it timed out or an older one is executed after it. `WatchedWhileWorking` excepts the one exit that does not
leave the watchdog, after `UA_Server_new`. `CachesAgree` counts the updates the I/O cache has lost in a row and says how far
it is behind, not that none is lost.

**Bounds.** In each model they are large enough for the hazards it is about.

- `IoCache`: two values, two tasks, two channels and any call, `update_all`, illegal channels and `NULL` included. A torn or stale
  read needs two updates and one reader, an out-of-bounds index one channel too many, a stamp out of order one tick between
  two samples. 666 364 states. `io_cache_wrap` has a clock of three ticks that turns once.
- `IoPolling`: intervals of 4 and 9 ticks, transfers of up to 2 and 3, a delay of 1 and a lag of 1 stand for 20, 100, about
  10, about 1 and 5 ms; the periods are no multiples of each other, so the polls meet in all phases, and the counter of 24
  ticks is just above the bounds, so it wraps during every combination of activities. All start ticks are initial states.
- `DiscreteIO`: bytes of one bit, two commands that differ in both bytes, one failure of any kind and one reset: enough for
  the initialisation to fail in one task while the other is in it, for a failure before or after a reset, and for a command to
  fail and be repeated. That the safety properties bear several failures in a row is left to the theorems; the liveness ones
  are checked with one. 682 538 states.
- `AdcImage`: two channels, three scans against one read at a time, seconds of two milliseconds and a clock of two values,
  two lost updates, one reset. A reading behind another channel's by more than a scan would need three scans, and so would a
  cache two scans behind. 4.8 million states. `adc_stamp` has a clock that does not wrap.
- `Pcf8574`: two callers, two bits (the one changed, and the others), every call; two failures, so that a read can fail and a
  write after it. 733 268 states.
- `ServerLifecycle`: three incidents let a link be lost before, during and after the wait for the time and the start of the
  server; three watchdog errors and two waits stand for ten and ten.
- `TestClient`: words of three values and five cycles, so that both counters wrap; one reset; the channel closes once by
  itself. 16 655 states.

`MaxUptime` (in `IoCache` and `AdcImage`), `MaxFaults`, `MaxResets`, `MaxIncidents`, `MaxScans`, `MaxLost`, `MaxAborts` and
`MaxCycles` are bounds of the models and have no counterpart in the code.

**Mutants.** Directly before a definition stand its mutants (`AcceptableAnyTime` before `Acceptable`): the definition with
a plausible programming error. No action uses them; each takes its definition's place in one model-checking run, which
must then find the property violated that `PROJECT.json` names for it.

**Fairness.** Both cores schedule their ready tasks and every wait has a timeout, so a task inside a function takes its
next step (`WF` of the steps of each task). `IoPolling` adds that the clock runs. In `DiscreteIO` the polling task calls
again for ever; clients are not obliged to write. In `ServerLifecycle` the access point lets the station join in the end
(`WF` of `Join`); losing it is never required. In `TestClient` the client's own steps are fair, a time-out being one of
them; nothing is asked of network, server or user. `AdcImage` and `Pcf8574` state no liveness and no fairness. No strong
fairness is used: a call that waits for the mutex in `IoCache` returns because it may time out, not because it obtains the
mutex.

**Deadlock** is checked everywhere but in the `server` runs and in `test_client`. Once the incidents are used up and the
server task has ended the system really does nothing any more, which is the subject of `server_returns`; and the client is a
program that ends.

## 4. What is proved

All proofs are for every value of the constants under the named assumptions of the modules. The inductive invariants are
called `IInv` and stand at the head of the proof modules, with the reason for each part.

- **`IoCacheProofs`.** `Invariance` (`SafeSpec => []IInv`), and from it `TypeCorrect`, `MutexExcludes`,
  `ReadsAreCommitted`, `ChannelReadsWereWritten`; under `MaxUptime < TickModulus`, that is before the clock wraps,
  `StampsInOrder` and `UpdatesNeverOlder`. Mutual exclusion alone does not give the others: the invariant says where the
  truth is while an update is in progress. Outside the targets of the one update in progress `cache = reg`
  (`CacheIsCommitted`); a getter's copy agrees with `reg` as far as it has come (`GetterCopy`), the targets with the
  setter's arguments (`SetterCopy`); a flag is set only for an item that is written or a target of the holder of the mutex
  that is copied (`ValidIsWritten`, `GetterSawValid`), which is why the unlocked test of `adc_valid` is harmless: the
  getter still has to take the mutex. The proof has one lemma per action and conjunct. `CallsReturnOnBoard` is
  `CallsReturn` for up to four ADC channels (`NUM_ADC_CHANNELS`, `components/model/include/model.h:319`): a call has at
  most 23 steps to go, whatever the other tasks do.
- **`IoCacheRefinementProof`.** `CacheIsRegisters`: every behaviour of `IoCache` is one of `CacheRegister` under the mapping
  in `IoCache` (`AbsPhase`, `AbsCall`, `AbsGiven`, `AbsResult`); `Give` is the instant of effect, `TimeOut` and a refused
  channel are refusals, every other step stutters.
- **`IoPollingProofs`.** `Invariance`, `SubtractionIsAge`, `PollsNotLate`, `PollsNotEarly`, assuming the counter has more
  values than the two bounds. The invariant bounds `since... + left`, the age every sample will have when the current
  activity ends (`NowAge`, `InputsAge`, `AdcAge`); the bounds keep every remembered tick count less than a turn old, which
  is what makes the unsigned difference its age. `PollsGoOn`: the polls go on for ever when the intervals are at most 4
  and 20 delays, as they are in `io_polling.c:11,12,57` (20, 100 and 5 ms). Each loop without a poll makes the sample at
  least one delay older, so the inputs are polled in the fifth loop at the latest, the ADC in the twenty-first.
- **`DiscreteIOProofs`.** `TypeCorrect`, `DriverFirst`, `SafeAtReady`, `RelaysAgree` and `ReadsAreCurrent`, for any number
  and order of failures, resets and early writes. Both flags promise the driver (`DriverPromised`), although nothing orders
  them between tasks. While `discrete_io_init` is under way the output chips it has passed are off, whichever of the two
  tasks runs it (`SafedSoFar`). A task with nothing spoilt on its side is alone in the initialisation and gets through it
  (`Alone`), because an installed driver is known or about to be (`DriverKnown`); then the latch follows the command byte by
  byte, and a polling task still initialising a ready image is a thing that only happens to spoilt outputs (`RelaysFollow`);
  the data of the poll are levels that were there (`ReadSoFar`).
  - Which failures matter: only failed writes can leave an output chip on when the image is ready (`SafeUnlessWritesFail`);
    with no write before the first poll, only failed installations, writes and waits for the mutex can part relays and cache
    (`RelaysAgreeWithoutWriteFaults`), only failed installations and reads can make a poll return what was not there
    (`ReadsAreCurrentWithoutReadFaults`). Undisturbed by such failures the polling task initialises alone
    (`PollerInitialises`), and nothing gets spoilt (`Unspoilt`).
  - `CommandsEnd`: a command ends within 12 steps of the server task, whatever fails. `ReadyInTheEnd`: the image gets ready
    once installations of the driver succeed and resets are over, even if transactions and waits for the mutex go on
    failing, for `discrete_io_init` looks at the result of the installation only.
- **`AdcImageProofs`.** `Invariance` and from it `TypeCorrect`, `ReadsAreFresh`, `ReadsAdvance`, `CachesInStep`, for any
  number of channels, scans, losses and resets. A channel holds a value of the scan in progress or the last complete one, and
  of the scan in progress as soon as it has been visited; what the server task has loaded was so when it loaded it, and scans
  only go up: so what it gave out is never more than one scan ahead of what it will give.
- **`Pcf8574Proofs`.** `Invariance`, `TypeCorrect`, `NeverBlind`, `OthersAreKept`, for any number of callers and faults. A
  call that still goes on has no failure behind it (`Sound`); what it is about to write is the latched byte with one bit
  changed as long as the byte it read is the latched one (`Prepared`).
- **`ServerLifecycleProofs`.** `Invariance`, `TypeCorrect`, `OneServer`, `WatchdogIsRight` (which excepts the exit after a
  failed `UA_Server_new`, the only one that leaves its task subscribed). No second server because none exists before
  `isServerCreated` (`CreatedFirst`), which only `Abort` clears, together with the tasks (`OnlyOne`).
  - What the event loop knows: no lost link is forgotten or handled twice (`NoOutageForgotten`), and `app_main` does not wait
    for an address the station already has and nobody will report (`NoAddressForgotten`).
  - The end of a server: `disconnect_handler`'s order is final (`StopStaysStopped`) and carried out in at most five steps
    (`ToldServersStop`); after it no server task is begun again until the board is reset (`EndsForGood`). What the run
    `server_returns` shows once is thus the fate of every behaviour that loses its server, by a lost link or by ten watchdog
    errors.
  - The beginning: `ServerKeepsServing`, and `ServerComesUp`: without failures and lost links the server comes up and stays
    up. Until then something always leads to it, the join, an event, its handler or the task itself (`OnTheWay`), and each
    step of that brings it nearer.
  - The network: every handler ends (`HandlersEnd`), the station comes back after every outage (`StationReturns`) and
    `app_main` returns (`AppMainReturns`). While a disconnection waits no address is posted after it (`OutageLast`), so that
    the queue before it only gets shorter. These need the ten retries of `obtain_time` (`main/opcua_esp32.c:387`),
    `StationReturns` also the 32 entries of the event queue (`CONFIG_ESP_SYSTEM_EVENT_QUEUE_SIZE` in `sdkconfig`).
- **`TestClientProofs`.** `Invariance` and from it `TypeCorrect`, `StatisticsAddUp`, `NoErrorsNoLoss`, `OutputsAreReset`,
  `ReadsAreCurrent`, for any width of the words and any number of cycles and resets. While the channel is open the client
  and the server are in step: every call before the present one was answered, so the server has executed as many writes as
  the client has made (`InStep`) and has the values the client gave it (`Values`, `Cleared`). A channel that has closed
  fails the next read of its cycle (`ClosedLate`). Types are proved last: that the counts stay within `MaxCycles` follows
  from the statistics (`Loose` is the part that does not). `KeyStopsClient`: after a key the client stops within 27 of its
  steps, whatever becomes of its calls.

**How liveness is proved.** The provers have neither `ENABLED` nor an induction over steps, so these theorems do without.

- Fairness is a hypothesis, `WF` with the states written out in which a step is possible: `Runs(t)` in `IoCacheProofs` says
  that task `t` is idle again and again, or steps again and again. `Boots`, `Joins`, `Connects`, `Loops` and `Serves` are the
  fairness of `Boot`, `Join`, `Connected`, the event loop and the one server task there is (`OneServer`), `Polls` that of the
  next poll. `Ends`, in place of `WF` of the clock, says that every activity of the loop ends. The fair behaviours of every
  model satisfy its hypotheses; TLC confirmed this for `ServerLifecycle` and `IoPolling`, whose hypotheses are the least
  obvious.
- Each proof has a measure that every step of the task in question lowers and no other step raises, one lemma for both
  (`OneLess`). It is descended as many times as the source says, which is where the numbers above come from: four
  channels, ten retries, 32 events, 4 and 20 delays.
- TLC's fair behaviours grow calm because `MaxFaults`, `MaxIncidents` and `MaxResets` run out. The proofs do not use these
  bounds and say what has to end (`Calm`): joins that fail and resets of the board for the network,
  installations that fail and resets for the process image. Nothing else has to.

Only model-checked: the fair part of `AtomicRegisters` (that an abstract call returns) and the liveness properties under the
fairness of `Spec` itself, for which the provers want `ENABLED`; and liveness for numbers beyond those of the source, as for more
channels, retries or waiting events, which needs induction. The disagreements with comments and documents that
the runs with an expected violation show are counterexamples and need no proof.

## 5. Not modelled

- The OPC UA stack (`components/open62541lib`, a vendored amalgamation of more than 100 000 lines, by far the
  largest part of the repository): sessions, encoding, subscriptions, the network. Modelled are how `ReadWithNode` stamps an
  answer and what `__UA_Client_Service` does; otherwise the firmware's side: the stack calls callbacks one at a time from
  `UA_Server_run_iterate`.
- `io_cache_get_all_adc_channels`, which returns a pointer to the values with no lock and no check, and which nobody calls.
- Creation of nodes, their names and attributes; NVS, flash encryption, log output; the registration of handlers.
- `example_disconnect` and `stop`, which nothing but a shutdown handler before a reset would call, and the
  Ethernet variant, which this build does not contain. `model_init_task` is called by nobody.
- The return of `on_wifi_disconnect` on `ESP_ERR_WIFI_NOT_STARTED` (`ethernet_connect.c:189`): WiFi is stopped by `stop` only.
- Failures at start that the code only logs (registration of a handler, creation of the cache's mutex): they end in an
  assertion of FreeRTOS or in a server that never starts, before any state of the models is reached.
- `adc_server_timestamps_ms`, which is stored and never loaded. `adc_init`, which runs before any task.
- The test client's connection set-up, verbose mode, times and what is printed. It is modelled alone: a second client on the
  same board would count in the counter and overwrite the outputs.
- Real time outside `IoPolling`: whether the event loop resets the watchdog every 5 s, whether a transfer takes 10 ms.

## 6. Plan

1. `ProcessImage`: `DiscreteIO` and `AdcImage` over `CacheRegister` instead of words, with the read callbacks, so that what a
   client reads after its own write is a property of the composition.
2. `ServerLifecycle` and `DiscreteIO` together: the reset of a watchdog or an `abort` while a command is under way.
