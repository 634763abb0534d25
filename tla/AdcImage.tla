------------------------------ MODULE AdcImage ------------------------------
(***************************************************************************)
(* The ADC channels of components/model/model.c: the polling task scans    *)
(* them into adc_cache and adc_timestamps_ms and into the I/O cache, the   *)
(* server task answers clients from the first two.  Nothing locks them.    *)
(*                                                                         *)
(* The compiler may order the stores of a channel as it likes.  A stamp    *)
(* has 64 bits and the board's words have 32, but it is a product computed *)
(* in 32 bits: its upper word is never anything but zero, and a stamp is   *)
(* one word here.  The update of the I/O cache is one step, as             *)
(* IoCacheRefinementProof shows, or is lost when its mutex is not obtained *)
(* in time.                                                                *)
(*                                                                         *)
(* A reading is named by the number of the scan that took it, 0 being the  *)
(* zero the arrays start with.  Times a client is told count whole seconds *)
(* from 1970; the stack's clock is not set by anyone here, so that it too  *)
(* starts with the board, which suits the code best.  adc_init has been    *)
(* called before the tasks start; adc_server_timestamps_ms is never loaded.*)
(***************************************************************************)
EXTENDS Integers

CONSTANTS
    NumAdc,         \* NUM_ADC_CHANNELS
    WordModulus,    \* 2^32: values of a word
    MsPerSecond,    \* 1000
    MaxUptime, MaxScans, MaxLost, MaxAborts     \* bounds of the model

Channels == 0..(NumAdc - 1)
Tasks == {"poll", "opc"}
Word == 0..(WordModulus - 1)
Scans == 0..MaxScans
NoTime == -1
Entry == [val : Scans, stamp : Word]
DataValue == [val : Scans, source : Int, hasSource : BOOLEAN]

ASSUME AdcAssumption ==
    NumAdc \in Nat \ {0} /\ WordModulus \in Nat \ {0} /\ MsPerSecond \in Nat \ {0}
ASSUME BoundsAssumption ==
    MaxUptime \in Nat /\ MaxScans \in Nat /\ MaxLost \in Nat /\ MaxAborts \in Nat

VARIABLES
    uptime,         \* milliseconds since boot, in no register of the board
    image,          \* adc_cache and adc_timestamps_ms
    shared,         \* what the I/O cache holds of the channels
    pc, chan, todo, \* control points, channels, words the scan has to store
    stamp,          \* the scan's timestamp
    wanted,         \* does the client want a source time stamp?
    answer, told,   \* the callback's dataValue; the source stamp sent
    scan, complete, \* history: the scans begun and ended so far
    taken,          \* history: the stamp of every scan
    floor,          \* history: the scans ended when the client asked
    newest,         \* history: of each channel, the reading last sent
    missed,         \* history: its updates the I/O cache lost, in a row
    lost, aborts    \* how many so far

control == <<pc, chan, todo>>
scanner == <<stamp, scan, complete, taken>>
cached == <<shared, missed, lost>>
server == <<wanted, answer, told, floor, newest>>
vars == <<uptime, image, control, scanner, cached, server, aborts>>

TypeOK ==
    /\ uptime \in 0..MaxUptime
    /\ image \in [Channels -> Entry] /\ shared \in [Channels -> Entry]
    /\ pc \in [Tasks -> {"idle", "read", "store", "share",
                         "val", "test", "stamp", "stack", "told"}]
    /\ chan \in [Tasks -> Channels] /\ todo \in SUBSET {"val", "stamp"}
    /\ stamp \in Word /\ taken \in [Scans -> Word]
    /\ wanted \in BOOLEAN /\ answer \in DataValue /\ told \in Int
    /\ scan \in Scans /\ complete \in 0..scan /\ floor \in 0..complete
    /\ newest \in [Channels -> Scans] /\ missed \in [Channels -> Scans]
    /\ lost \in 0..MaxLost /\ aborts \in 0..MaxAborts

-----------------------------------------------------------------------------
Zero == [val |-> 0, stamp |-> 0]
Everywhere(e) == [c \in Channels |-> e]

\* UA_DataValue_init, of the stack: no value, no time, no flag.
Fresh == [val |-> 0, source |-> NoTime, hasSource |-> FALSE]

Init ==
    /\ uptime = 0
    /\ image = Everywhere(Zero) /\ shared = Everywhere(Zero)
    /\ pc = [t \in Tasks |-> "idle"] /\ chan = [t \in Tasks |-> 0] /\ todo = {}
    /\ stamp = 0 /\ taken = [s \in Scans |-> 0]
    /\ wanted = FALSE /\ answer = Fresh /\ told = NoTime
    /\ scan = 0 /\ complete = 0 /\ floor = 0
    /\ newest = Everywhere(0) /\ missed = Everywhere(0)
    /\ lost = 0 /\ aborts = 0

Tick ==
    /\ uptime < MaxUptime
    /\ uptime' = uptime + 1
    /\ UNCHANGED <<image, control, scanner, cached, server, aborts>>

\* (uint64_t)(xTaskGetTickCount() * portTICK_PERIOD_MS)
Clock == uptime % WordModulus

\* UA_DateTime_fromUnixTime(ms / 1000)
Second(ms) == ms \div MsPerSecond

Goto(t, label) == pc' = [pc EXCEPT ![t] = label]

\* Mutant of BeginScan: the readings are cleared before a scan.
BeginScanCleared ==
    /\ pc["poll"] = "idle" /\ scan < MaxScans
    /\ scan' = scan + 1
    /\ stamp' = Clock /\ taken' = [taken EXCEPT ![scan'] = Clock]
    /\ chan' = [chan EXCEPT !["poll"] = 0]
    /\ Goto("poll", "read")
    /\ image' = Everywhere(Zero)
    /\ UNCHANGED <<uptime, todo, complete, cached, server, aborts>>

\* io_polling_task calls update_all_adc_channels_slow, which samples the clock
\* once.
BeginScan ==
    /\ pc["poll"] = "idle" /\ scan < MaxScans
    /\ scan' = scan + 1
    /\ stamp' = Clock /\ taken' = [taken EXCEPT ![scan'] = Clock]
    /\ chan' = [chan EXCEPT !["poll"] = 0]
    /\ Goto("poll", "read")
    /\ UNCHANGED <<uptime, image, todo, complete, cached, server, aborts>>

\* read_adc_channel_slow returns.
ReadChannel ==
    /\ pc["poll"] = "read"
    /\ todo' = {"val", "stamp"}
    /\ Goto("poll", "store")
    /\ UNCHANGED <<uptime, image, chan, scanner, cached, server, aborts>>

\* The stores to adc_cache[i] and adc_timestamps_ms[i].
StoreWord(w) ==
    /\ pc["poll"] = "store" /\ w \in todo
    /\ image' = [image EXCEPT ![chan["poll"]] =
                    IF w = "val" THEN [@ EXCEPT !.val = scan]
                                 ELSE [@ EXCEPT !.stamp = stamp]]
    /\ todo' = todo \ {w}
    /\ Goto("poll", IF todo' = {} THEN "share" ELSE "store")
    /\ UNCHANGED <<uptime, chan, scanner, cached, server, aborts>>

\* Mutant of NextChannel: the loop ends one channel early.
NextChannelTooFew == IF chan["poll"] < NumAdc - 2 THEN "read" ELSE "idle"

\* Mutant of NextChannel: i <= NUM_ADC_CHANNELS.
NextChannelPastEnd == IF chan["poll"] <= NumAdc - 1 THEN "read" ELSE "idle"

\* Is there another turn of the loop?
NextChannel == IF chan["poll"] < NumAdc - 1 THEN "read" ELSE "idle"

\* Mutant of Given: the copy gets the clock of the moment.
GivenNow == [val |-> image[chan["poll"]].val, stamp |-> Clock]

\* The arguments of io_cache_update_adc_channel.
Given == [val |-> scan, stamp |-> stamp]

Share ==
    /\ pc["poll"] = "share"
    /\ LET c == chan["poll"] IN
         \/ /\ shared' = [shared EXCEPT ![c] = Given]
            /\ missed' = [missed EXCEPT ![c] = 0]
            /\ UNCHANGED lost
         \/ /\ lost < MaxLost /\ lost' = lost + 1
            /\ missed' = [missed EXCEPT ![c] = @ + 1]
            /\ UNCHANGED shared
    /\ Goto("poll", NextChannel)
    /\ IF NextChannel = "read"
         THEN chan' = [chan EXCEPT !["poll"] = @ + 1] /\ UNCHANGED complete
         ELSE complete' = scan /\ UNCHANGED chan
    /\ UNCHANGED <<uptime, image, todo, stamp, scan, taken, server, aborts>>

\* ESP_ERROR_CHECK(adc_oneshot_read(...)) fails: abort() resets the board.
Abort ==
    /\ pc["poll"] = "read" /\ aborts < MaxAborts
    /\ aborts' = aborts + 1
    /\ uptime' = 0
    /\ image' = Everywhere(Zero) /\ shared' = Everywhere(Zero)
    /\ pc' = [t \in Tasks |-> "idle"] /\ chan' = [t \in Tasks |-> 0] /\ todo' = {}
    /\ stamp' = 0 /\ taken' = [s \in Scans |-> 0]
    /\ wanted' = FALSE /\ answer' = Fresh /\ told' = NoTime
    /\ scan' = 0 /\ complete' = 0 /\ floor' = 0
    /\ newest' = Everywhere(0) /\ missed' = Everywhere(0)
    /\ UNCHANGED lost

\* The stack calls readAdcChannel.  A node context that is no channel is
\* answered BADINTERNALERROR and touches nothing.
Request ==
    /\ pc["opc"] = "idle"
    /\ \E c \in Channels : chan' = [chan EXCEPT !["opc"] = c]
    /\ wanted' \in BOOLEAN
    /\ answer' = Fresh /\ told' = NoTime
    /\ floor' = complete
    /\ Goto("opc", "val")
    /\ UNCHANGED <<uptime, image, todo, scanner, cached, newest, aborts>>

\* uint16_t value = adc_cache[channel];
LoadValue ==
    /\ pc["opc"] = "val"
    /\ answer' = [answer EXCEPT !.val = image[chan["opc"]].val]
    /\ Goto("opc", IF wanted THEN "test" ELSE "stack")
    /\ UNCHANGED <<uptime, image, chan, todo, scanner, cached, wanted, told,
                   floor, newest, aborts>>

\* adc_timestamps_ms[channel] > 0
TestStamp ==
    /\ pc["opc"] = "test"
    /\ Goto("opc", IF image[chan["opc"]].stamp > 0 THEN "stamp" ELSE "stack")
    /\ UNCHANGED <<uptime, image, chan, todo, scanner, cached, server, aborts>>

\* The array is loaded again for dataValue->sourceTimestamp.
\* dataValue->hasSourceTimestamp is left as it was.
LoadStamp ==
    /\ pc["opc"] = "stamp"
    /\ answer' = [answer EXCEPT !.source = Second(image[chan["opc"]].stamp)]
    /\ Goto("opc", "stack")
    /\ UNCHANGED <<uptime, image, chan, todo, scanner, cached, wanted, told,
                   floor, newest, aborts>>

\* ReadWithNode, after the callback: a source stamp the client wants and the
\* callback has not given is UA_DateTime_now().
StampAnswer ==
    /\ pc["opc"] = "stack"
    /\ told' = IF ~wanted THEN NoTime
               ELSE IF answer.hasSource THEN answer.source
               ELSE Second(uptime)
    /\ Goto("opc", "told")
    /\ UNCHANGED <<uptime, image, chan, todo, scanner, cached, wanted, answer,
                   floor, newest, aborts>>

\* The answer leaves for the client.
Return ==
    /\ pc["opc"] = "told"
    /\ newest' = [newest EXCEPT ![chan["opc"]] = answer.val]
    /\ Goto("opc", "idle")
    /\ UNCHANGED <<uptime, image, chan, todo, scanner, cached, wanted, answer,
                   told, floor, aborts>>

Scanning == BeginScan \/ ReadChannel \/ Share \/ (\E w \in {"val", "stamp"} : StoreWord(w))
Answering == LoadValue \/ TestStamp \/ LoadStamp \/ StampAnswer \/ Return
Next == Tick \/ Scanning \/ Abort \/ Request \/ Answering

Spec == Init /\ [][Next]_vars

-----------------------------------------------------------------------------
\* readAdcChannel "returns cached ADC values": never one older than the last
\* scan that had ended when it was called.
ReadIsFresh == pc["opc"] = "told" => floor <= answer.val

\* Readings go forward from one answer to the next: a channel never back, and no
\* channel more than one scan behind what was told of another.
ReadsGoForward ==
    pc["opc"] = "told" =>
        /\ newest[chan["opc"]] <= answer.val
        /\ \A c \in Channels : newest[c] <= answer.val + 1

\* Between scans every channel has the reading and the stamp of the last scan,
\* and the I/O cache those of as many scans ago as it lost updates since.
CachesAgree ==
    pc["poll"] = "idle" => \A c \in Channels :
        LET got == scan - missed[c] IN
          /\ image[c] = [val |-> scan, stamp |-> taken[scan]]
          /\ shared[c] = [val |-> got, stamp |-> taken[got]]

\* "Returns cached ADC values with timestamp information", says the comment of
\* readAdcChannel: once it has put a source stamp into its answer, the stamp the
\* client is told is the time of a scan.
StampIsOfScan ==
    pc["opc"] = "told" /\ wanted /\ answer.source # NoTime
        => \E s \in 1..scan : told = Second(taken[s])
=============================================================================
