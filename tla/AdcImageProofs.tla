--------------------------- MODULE AdcImageProofs ---------------------------
(* Proofs about AdcImage, for any number of channels, scans, lost updates    *)
(* and resets, and any width of the board's words.                           *)
EXTENDS AdcImage, TLAPS

\* What the clocks read.
LEMMA ClockFacts ==
    ASSUME NEW t \in Nat
    PROVE  t % WordModulus \in Word /\ Second(t) \in Int
  BY AdcAssumption DEF Second, Word

LEMMA ZeroFacts ==
    /\ Zero \in Entry /\ Fresh \in DataValue /\ 0 \in Word /\ 0 \in Scans
    /\ MaxScans \in Nat /\ MaxUptime \in Nat /\ MaxLost \in Nat /\ MaxAborts \in Nat
  BY AdcAssumption, BoundsAssumption
  DEF Zero, Fresh, NoTime, Entry, DataValue, Word, Scans

LEMMA ChannelFacts == /\ 0 \in Channels /\ NumAdc \in Nat
                      /\ \A c \in Channels : c \in Nat /\ c < NumAdc
  BY AdcAssumption DEF Channels

\* Types, where the numbers need not be bounded for the argument.
LEMMA Types == TypeOK =>
    /\ scan \in Nat /\ complete \in Nat /\ floor \in Nat
    /\ complete <= scan /\ floor <= complete /\ uptime \in Nat
    /\ MaxScans \in Nat /\ scan <= MaxScans /\ stamp \in Nat
    /\ \A c \in Channels : /\ image[c] \in [val : Scans, stamp : Word]
                           /\ shared[c] \in [val : Scans, stamp : Word]
                           /\ image[c].val \in Nat /\ image[c].stamp \in Nat
                           /\ newest[c] \in Nat /\ missed[c] \in Nat
    /\ answer.val \in Nat
    /\ pc \in [Tasks -> {"idle", "read", "store", "share",
                         "val", "test", "stamp", "stack", "told"}]
    /\ chan \in [Tasks -> Channels] /\ "poll" \in Tasks /\ "opc" \in Tasks
<1>1. ASSUME TypeOK
      PROVE  /\ scan \in Nat /\ complete \in Nat /\ floor \in Nat
             /\ complete <= scan /\ floor <= complete /\ uptime \in Nat
             /\ MaxScans \in Nat /\ scan <= MaxScans /\ stamp \in Nat
  BY <1>1, BoundsAssumption, AdcAssumption DEF TypeOK, Scans, Word
<1>2. ASSUME TypeOK, NEW c \in Channels
      PROVE  /\ image[c] \in [val : Scans, stamp : Word]
             /\ shared[c] \in [val : Scans, stamp : Word]
             /\ newest[c] \in Scans /\ missed[c] \in Scans
  BY <1>2 DEF TypeOK, Entry
<1>3. Scans \subseteq Nat /\ Word \subseteq Nat
  BY BoundsAssumption, AdcAssumption DEF Scans, Word
<1>4. TypeOK => answer.val \in Nat
  BY <1>3 DEF TypeOK, DataValue
<1>5. QED
  BY <1>1, <1>2, <1>3, <1>4 DEF TypeOK, Tasks

-----------------------------------------------------------------------------
\* A channel the scan has visited (between scans: all) has its reading and its
\* stamp; the I/O cache is behind by the updates it lost in a row.
Done(c) == pc["poll"] = "idle" \/ c < chan["poll"]
Latest(c) == IF Done(c) THEN scan ELSE scan - 1

ScanInOrder ==
    /\ scan = IF pc["poll"] = "idle" THEN complete ELSE complete + 1
    /\ pc["poll"] \in {"idle", "read", "store", "share"}
    /\ pc["poll"] = "share" => todo = {}
    /\ stamp = taken[scan]

Lags(c) ==
    LET got == Latest(c) - missed[c] IN
    got \in 0..scan /\ shared[c] = [val |-> got, stamp |-> taken[got]]

ChannelInOrder(c) ==
    /\ complete <= image[c].val /\ image[c].val <= scan
    /\ newest[c] <= image[c].val
    /\ Done(c) => image[c].val = scan /\ image[c].stamp = stamp
    /\ c = chan["poll"] /\ pc["poll"] \in {"store", "share"} =>
         /\ "val" \notin todo => image[c].val = scan
         /\ "stamp" \notin todo => image[c].stamp = stamp

AnswerInOrder ==
    /\ pc["opc"] \in {"idle", "val", "test", "stamp", "stack", "told"}
    /\ pc["opc"] \in {"test", "stamp", "stack", "told"} =>
         /\ floor <= answer.val
         /\ answer.val <= image[chan["opc"]].val
         /\ newest[chan["opc"]] <= answer.val
         /\ \A c \in Channels : newest[c] <= answer.val + 1

IInv == /\ TypeOK /\ ScanInOrder /\ AnswerInOrder
        /\ \A c \in Channels : ChannelInOrder(c) /\ Lags(c)

LEMMA InitHolds == Init => IInv
<1> SUFFICES ASSUME Init PROVE IInv
  OBVIOUS
<1> USE ZeroFacts, ChannelFacts DEF Init, Everywhere
<1>1. TypeOK
  <2>1. /\ image \in [Channels -> Entry] /\ shared \in [Channels -> Entry]
        /\ newest \in [Channels -> Scans] /\ missed \in [Channels -> Scans]
        /\ taken \in [Scans -> Word]
    OBVIOUS
  <2>2. /\ pc \in [Tasks -> {"idle", "read", "store", "share",
                             "val", "test", "stamp", "stack", "told"}]
        /\ chan \in [Tasks -> Channels] /\ todo \in SUBSET {"val", "stamp"}
        /\ wanted \in BOOLEAN /\ answer \in DataValue
    OBVIOUS
  <2>3. /\ uptime \in 0..MaxUptime /\ stamp \in Word /\ told \in Int
        /\ scan \in Scans /\ complete \in 0..scan /\ floor \in 0..complete
        /\ lost \in 0..MaxLost /\ aborts \in 0..MaxAborts
    BY DEF NoTime
  <2>4. QED
    BY <2>1, <2>2, <2>3 DEF TypeOK
<1>2. ScanInOrder /\ AnswerInOrder
  BY DEF ScanInOrder, AnswerInOrder, Tasks
<1>3. \A c \in Channels : ChannelInOrder(c) /\ Lags(c)
  BY DEF ChannelInOrder, Lags, Latest, Done, Tasks, Zero
<1>4. QED
  BY <1>1, <1>2, <1>3 DEF IInv

\* A reset restores the initial values.
LEMMA AbortHolds == IInv /\ Abort => IInv'
<1> SUFFICES ASSUME IInv, Abort PROVE IInv'
  OBVIOUS
<1> USE ZeroFacts, ChannelFacts DEF Abort, Everywhere
<1>1. TypeOK'
  <2>1. /\ image' \in [Channels -> Entry] /\ shared' \in [Channels -> Entry]
        /\ newest' \in [Channels -> Scans] /\ missed' \in [Channels -> Scans]
        /\ taken' \in [Scans -> Word]
    OBVIOUS
  <2>2. /\ pc' \in [Tasks -> {"idle", "read", "store", "share",
                             "val", "test", "stamp", "stack", "told"}]
        /\ chan' \in [Tasks -> Channels] /\ todo' \in SUBSET {"val", "stamp"}
        /\ wanted' \in BOOLEAN /\ answer' \in DataValue
    OBVIOUS
  <2>3. /\ uptime' \in 0..MaxUptime /\ stamp' \in Word /\ told' \in Int
        /\ scan' \in Scans /\ complete' \in 0..scan' /\ floor' \in 0..complete'
        /\ lost' \in 0..MaxLost /\ aborts' \in 0..MaxAborts
    BY DEF IInv, TypeOK, NoTime
  <2>4. QED
    BY <2>1, <2>2, <2>3 DEF TypeOK
<1>2. ScanInOrder' /\ AnswerInOrder'
  BY DEF ScanInOrder, AnswerInOrder, Tasks
<1>3. \A c \in Channels : ChannelInOrder(c)' /\ Lags(c)'
  BY DEF ChannelInOrder, Lags, Latest, Done, Tasks, Zero
<1>4. QED
  BY <1>1, <1>2, <1>3 DEF IInv

\* What the step StoreWord makes of the channel's entry.
LEMMA StoreFacts ==
    ASSUME TypeOK, NEW w \in {"val", "stamp"}, StoreWord(w)
    PROVE  LET c == chan["poll"] IN
           /\ image'[c].val = (IF w = "val" THEN scan ELSE image[c].val)
           /\ image'[c].stamp = (IF w = "stamp" THEN stamp ELSE image[c].stamp)
           /\ \A d \in Channels : d # c => image'[d] = image[d]
           /\ image' \in [Channels -> Entry]
<1> DEFINE c == chan["poll"]
<1> DEFINE new == IF w = "val" THEN [image[c] EXCEPT !.val = scan]
                               ELSE [image[c] EXCEPT !.stamp = stamp]
<1>1. c \in Channels /\ image \in [Channels -> Entry] /\ stamp \in Word /\ scan \in Scans
  BY DEF TypeOK, Tasks
<1>2. image' = [image EXCEPT ![c] = new]
  BY DEF StoreWord
<1>3. /\ new \in Entry
      /\ new.val = (IF w = "val" THEN scan ELSE image[c].val)
      /\ new.stamp = (IF w = "stamp" THEN stamp ELSE image[c].stamp)
  BY <1>1 DEF Entry
<1>4. QED
  BY <1>1, <1>2, <1>3

\* What the step Share makes of the channel, the loop and the counters.
LEMMA ShareFacts ==
    ASSUME TypeOK, Share
    PROVE  LET c == chan["poll"] IN
           /\ pc["poll"] = "share" /\ pc'["poll"] = NextChannel
           /\ NextChannel \in {"read", "idle"}
           /\ NextChannel = "read" => /\ chan'["poll"] = c + 1 /\ complete' = complete
                                      /\ c + 1 \in Channels
           /\ NextChannel = "idle" => /\ chan' = chan /\ complete' = scan
                                      /\ c = NumAdc - 1
           /\ UNCHANGED <<image, stamp, scan, taken, newest, todo>>
           /\ \/ missed'[c] = 0 /\ shared'[c] = [val |-> scan, stamp |-> stamp]
              \/ missed'[c] = missed[c] + 1 /\ shared'[c] = shared[c]
           /\ \A d \in Channels : d # c => missed'[d] = missed[d] /\ shared'[d] = shared[d]
<1>1. /\ chan \in [Tasks -> Channels] /\ "poll" \in Tasks /\ chan["poll"] \in Channels
      /\ pc \in [Tasks -> {"idle", "read", "store", "share",
                           "val", "test", "stamp", "stack", "told"}]
      /\ shared \in [Channels -> Entry] /\ missed \in [Channels -> Scans]
  BY DEF TypeOK, Tasks
<1>2. chan["poll"] \in Nat /\ NumAdc \in Nat /\ chan["poll"] < NumAdc
  BY <1>1, ChannelFacts
<1>3. /\ NextChannel \in {"read", "idle"}
      /\ NextChannel = "idle" => chan["poll"] = NumAdc - 1
      /\ NextChannel = "read" => chan["poll"] + 1 \in Channels
  BY <1>2 DEF NextChannel, Channels
<1>4. QED
  BY <1>1, <1>3 DEF Share, Given, Goto, server

LEMMA OneLess == \A m, n \in Nat : m - (n + 1) = m - 1 - n
  OBVIOUS

-----------------------------------------------------------------------------
LEMMA ScanStep == IInv /\ [Next]_vars => ScanInOrder'
<1> SUFFICES ASSUME IInv, [Next]_vars PROVE ScanInOrder'
  OBVIOUS
<1> USE Types DEF IInv, ScanInOrder, Goto
<1>1. CASE UNCHANGED vars \/ Tick
  BY <1>1 DEF vars, Tick, control, scanner, cached, server
<1>2. CASE BeginScan
  <2>1. /\ scan' = scan + 1 /\ scan + 1 \in Scans
        /\ stamp' = Clock /\ taken' = [taken EXCEPT ![scan + 1] = Clock]
        /\ taken \in [Scans -> Word]
    BY <1>2 DEF BeginScan, Scans, TypeOK
  <2>2. stamp' = taken'[scan']
    BY <2>1
  <2>3. QED
    BY <1>2, <2>2 DEF BeginScan
<1>3. CASE ReadChannel
  BY <1>3 DEF ReadChannel, scanner
<1>4. ASSUME NEW w \in {"val", "stamp"}, StoreWord(w) PROVE ScanInOrder'
  <2>1. /\ pc' = [pc EXCEPT !["poll"] = IF todo' = {} THEN "share" ELSE "store"]
        /\ pc["poll"] = "store" /\ UNCHANGED scanner
    BY <1>4 DEF StoreWord
  <2>2. QED
    BY <2>1 DEF scanner
<1>5. CASE Share
  BY <1>5, ShareFacts
<1>6. CASE Abort
  BY <1>6, AbortHolds
<1>7. CASE Request \/ Answering
  BY <1>7 DEF Answering, Request, LoadValue, TestStamp, LoadStamp, StampAnswer,
     Return, scanner
<1>8. QED
  BY <1>1, <1>2, <1>3, <1>4, <1>5, <1>6, <1>7 DEF Next, Scanning

\* Steps of the server task leave the scan's state alone.
LEMMA ServerSteps ==
    ASSUME TypeOK, Request \/ Answering
    PROVE  /\ pc'["poll"] = pc["poll"] /\ chan'["poll"] = chan["poll"]
           /\ UNCHANGED <<image, todo, scanner, cached, uptime, aborts>>
  BY Types DEF Answering, Request, LoadValue, TestStamp, LoadStamp, StampAnswer,
     Return, Goto

LEMMA LagStep == IInv /\ [Next]_vars => \A c \in Channels : Lags(c)'
<1> SUFFICES ASSUME IInv, [Next]_vars, NEW c \in Channels PROVE Lags(c)'
  OBVIOUS
<1> USE Types DEF IInv, Goto
<1>0. Lags(c) /\ ScanInOrder
  OBVIOUS
<1>1. CASE UNCHANGED vars \/ Tick \/ ReadChannel
  BY <1>0, <1>1
  DEF vars, Tick, ReadChannel, control, scanner, cached, Lags, Latest, Done, ScanInOrder
<1>2. CASE BeginScan
  <2>1. /\ scan' = scan + 1 /\ pc["poll"] = "idle"
        /\ pc'["poll"] = "read" /\ chan'["poll"] = 0
        /\ missed' = missed /\ shared' = shared
    BY <1>2 DEF BeginScan, cached
  <2>2. \A s \in 0..scan : taken'[s] = taken[s]
    BY <1>2 DEF BeginScan, Scans, TypeOK
  <2>3. Done(c) /\ ~Done(c)'
    BY <2>1, ChannelFacts DEF Done
  <2>4. Latest(c)' = Latest(c) /\ Latest(c) - missed[c] \in 0..scan
    BY <1>0, <2>1, <2>3 DEF Lags, Latest
  <2>5. QED
    BY <1>0, <2>1, <2>2, <2>4 DEF Lags
<1>3. ASSUME NEW w \in {"val", "stamp"}, StoreWord(w) PROVE Lags(c)'
  <2>1. /\ pc["poll"] = "store" /\ pc'["poll"] \in {"share", "store"}
        /\ chan' = chan /\ UNCHANGED <<scanner, cached>>
    BY <1>3 DEF StoreWord
  <2>2. QED
    BY <1>0, <2>1 DEF scanner, cached, Lags, Latest, Done
<1>4. CASE Share
  <2>1. CASE c = chan["poll"]
    <3>1. Done(c)' /\ ~Done(c)
      BY <1>4, <2>1, ShareFacts, ChannelFacts DEF Done
    <3>2. Latest(c)' = scan /\ Latest(c) = scan - 1
      BY <1>4, <3>1, ShareFacts DEF Latest
    <3>3. CASE missed'[c] = 0 /\ shared'[c] = [val |-> scan, stamp |-> stamp]
      BY <1>0, <1>4, <3>2, <3>3, ShareFacts DEF Lags, ScanInOrder
    <3>4. CASE missed'[c] = missed[c] + 1 /\ shared'[c] = shared[c]
      <4>1. scan - (missed[c] + 1) = scan - 1 - missed[c]
        BY OneLess
      <4>2. QED
        BY <1>0, <1>4, <3>2, <3>4, <4>1, ShareFacts DEF Lags
    <3>5. QED
      BY <1>4, <2>1, <3>3, <3>4, ShareFacts
  <2>2. CASE c # chan["poll"]
    <3>1. Done(c)' <=> Done(c)
      BY <1>4, <2>2, ShareFacts, ChannelFacts DEF Done
    <3>2. QED
      BY <1>0, <1>4, <2>2, <3>1, ShareFacts DEF Lags, Latest
  <2>3. QED
    BY <2>1, <2>2
<1>5. CASE Abort
  BY <1>5, AbortHolds
<1>6. CASE Request \/ Answering
  BY <1>0, <1>6, ServerSteps DEF scanner, cached, Lags, Latest, Done
<1>7. QED
  BY <1>1, <1>2, <1>3, <1>4, <1>5, <1>6 DEF Next, Scanning

LEMMA ChannelStep == IInv /\ [Next]_vars => \A c \in Channels : ChannelInOrder(c)'
<1> SUFFICES ASSUME IInv, [Next]_vars, NEW c \in Channels PROVE ChannelInOrder(c)'
  OBVIOUS
<1> USE Types DEF IInv, Goto
<1>0. ChannelInOrder(c) /\ ScanInOrder
  OBVIOUS
<1>1. CASE UNCHANGED vars \/ Tick \/ ReadChannel
  BY <1>0, <1>1
  DEF vars, Tick, ReadChannel, control, scanner, server, ChannelInOrder, Done
<1>2. CASE BeginScan
  <2>1. /\ scan' = scan + 1 /\ image' = image /\ complete' = complete
        /\ newest' = newest /\ pc'["poll"] = "read" /\ chan'["poll"] = 0
    BY <1>2 DEF BeginScan, server
  <2>2. ~Done(c)'
    BY <2>1, ChannelFacts DEF Done
  <2>3. QED
    BY <1>0, <2>1, <2>2 DEF ChannelInOrder
<1>3. ASSUME NEW w \in {"val", "stamp"}, StoreWord(w) PROVE ChannelInOrder(c)'
  <2>1. /\ pc["poll"] = "store" /\ pc'["poll"] \in {"share", "store"}
        /\ chan' = chan /\ UNCHANGED <<scanner, server>>
        /\ todo' = todo \ {w}
    BY <1>3 DEF StoreWord
  <2>2. CASE c = chan["poll"]
    <3>1. ~Done(c)'
      BY <2>1, <2>2, ChannelFacts DEF Done
    <3>2. /\ image'[c].val = (IF w = "val" THEN scan ELSE image[c].val)
          /\ image'[c].stamp = (IF w = "stamp" THEN stamp ELSE image[c].stamp)
      BY <1>3, <2>2, StoreFacts
    <3>3. QED
      BY <1>0, <2>1, <2>2, <3>1, <3>2 DEF ChannelInOrder, scanner, server
  <2>3. CASE c # chan["poll"]
    <3>1. image'[c] = image[c]
      BY <1>3, <2>3, StoreFacts
    <3>2. QED
      BY <1>0, <2>1, <2>3, <3>1 DEF scanner, server, ChannelInOrder, Done
  <2>4. QED
    BY <2>2, <2>3
<1>4. CASE Share
  <2>0. chan["poll"] \in Nat /\ c \in Nat /\ c < NumAdc /\ NumAdc \in Nat
    BY ChannelFacts
  <2>1. Done(c)' => c = chan["poll"] \/ Done(c)
    BY <1>4, <2>0, ShareFacts DEF Done
  <2>2. Done(c)' => image[c].val = scan /\ image[c].stamp = stamp
    BY <1>0, <1>4, <2>1, ShareFacts DEF ChannelInOrder, ScanInOrder
  <2>3. complete' <= image[c].val
    <3>1. NextChannel = "idle" => Done(c)'
      BY <1>4, ShareFacts DEF Done
    <3>2. QED
      BY <1>0, <1>4, <2>2, <3>1, ShareFacts DEF ChannelInOrder
  <2>4. QED
    BY <1>0, <1>4, <2>2, <2>3, ShareFacts DEF ChannelInOrder
<1>5. CASE Abort
  BY <1>5, AbortHolds
<1>6. CASE Return
  <2>1. /\ pc["opc"] = "told" /\ pc'["poll"] = pc["poll"] /\ chan' = chan
        /\ newest' = [newest EXCEPT ![chan["opc"]] = answer.val]
        /\ UNCHANGED <<image, todo, scanner>>
    BY <1>6 DEF Return
  <2>2. newest'[c] <= image[c].val
    BY <1>0, <2>1 DEF ChannelInOrder, AnswerInOrder, TypeOK
  <2>3. QED
    BY <1>0, <2>1, <2>2 DEF scanner, ChannelInOrder, Done
<1>7. CASE Request \/ LoadValue \/ TestStamp \/ LoadStamp \/ StampAnswer
  <2>1. newest' = newest
    BY <1>7 DEF Request, LoadValue, TestStamp, LoadStamp, StampAnswer, server
  <2>2. QED
    BY <1>0, <1>7, <2>1, ServerSteps DEF Answering, scanner, ChannelInOrder, Done
<1>8. QED
  BY <1>1, <1>2, <1>3, <1>4, <1>5, <1>6, <1>7 DEF Next, Scanning, Answering

LEMMA TypeStep == IInv /\ [Next]_vars => TypeOK'
<1> SUFFICES ASSUME IInv, [Next]_vars PROVE TypeOK'
  OBVIOUS
<1> USE Types, BoundsAssumption DEF IInv, Goto
<1>1. CASE UNCHANGED vars
  BY <1>1 DEF vars, control, scanner, cached, server, TypeOK
<1>1a. CASE Tick
  BY <1>1a DEF Tick, control, scanner, cached, server, TypeOK
<1>2. CASE BeginScan
  <2>1. Clock \in Word /\ 0 \in Channels
    BY ClockFacts, ChannelFacts DEF Clock
  <2>2. /\ scan' \in Scans /\ complete \in 0..scan'
        /\ stamp' \in Word /\ taken' \in [Scans -> Word]
        /\ chan' \in [Tasks -> Channels]
    BY <1>2, <2>1 DEF BeginScan, TypeOK, Scans
  <2>3. pc' \in [Tasks -> {"idle", "read", "store", "share",
                           "val", "test", "stamp", "stack", "told"}]
    BY <1>2 DEF BeginScan
  <2>4. QED
    BY <1>2, <2>2, <2>3 DEF BeginScan, cached, server, TypeOK
<1>3. CASE ReadChannel
  BY <1>3 DEF ReadChannel, scanner, cached, server, TypeOK
<1>4. ASSUME NEW w \in {"val", "stamp"}, StoreWord(w) PROVE TypeOK'
  <2>1. image' \in [Channels -> Entry]
    BY <1>4, StoreFacts
  <2>2. QED
    BY <1>4, <2>1 DEF StoreWord, scanner, cached, server, TypeOK
<1>5. CASE Share
  <2>1. missed' \in [Channels -> Scans]
    <3>1. ASSUME NEW c \in Channels, c = chan["poll"] PROVE missed'[c] \in Scans
      <4>1. Lags(c)' /\ scan' = scan
        BY <1>5, LagStep, ShareFacts
      <4>2. Latest(c)' \in {scan, scan - 1}
        BY <4>1 DEF Latest
      <4>3. missed'[c] = 0 \/ missed'[c] = missed[c] + 1
        BY <1>5, <3>1, ShareFacts
      <4>4. missed[c] \in Nat
        OBVIOUS
      <4>5. missed'[c] <= scan
        BY <4>1, <4>2, <4>3, <4>4 DEF Lags
      <4>6. QED
        BY <4>3, <4>4, <4>5 DEF Scans
    <3>2. missed'[chan["poll"]] \in Scans
      BY <3>1
    <3>3. missed \in [Channels -> Scans]
      BY DEF TypeOK
    <3>4. \E n : missed' = [missed EXCEPT ![chan["poll"]] = n]
      BY <1>5 DEF Share
    <3>5. QED
      BY <3>2, <3>3, <3>4
  <2>2. shared' \in [Channels -> Entry] /\ lost' \in 0..MaxLost
    BY <1>5 DEF Share, Given, Entry, TypeOK
  <2>3. chan' \in [Tasks -> Channels]
    BY <1>5, ShareFacts DEF Share
  <2>4. complete' \in 0..scan /\ floor \in 0..complete'
    BY <1>5, ShareFacts
  <2>5. pc' \in [Tasks -> {"idle", "read", "store", "share",
                           "val", "test", "stamp", "stack", "told"}]
    BY <1>5, ShareFacts DEF Share
  <2>6. QED
    BY <1>5, <2>1, <2>2, <2>3, <2>4, <2>5 DEF Share, server, TypeOK
<1>6. CASE Abort
  BY <1>6, AbortHolds
<1>7. CASE Request
  <2>1. chan' \in [Tasks -> Channels] /\ floor' \in 0..complete
    BY <1>7 DEF Request
  <2>2. wanted' \in BOOLEAN /\ told' \in Int /\ answer' \in DataValue
    BY <1>7, ZeroFacts DEF Request, NoTime
  <2>3. QED
    BY <1>7, <2>1, <2>2 DEF Request, scanner, cached, TypeOK
<1>8. CASE LoadValue
  <2>1. answer' \in DataValue
    BY <1>8 DEF LoadValue, TypeOK, DataValue
  <2>2. QED
    BY <1>8, <2>1 DEF LoadValue, scanner, cached, TypeOK
<1>9. CASE TestStamp
  BY <1>9 DEF TestStamp, scanner, cached, server, TypeOK
<1>10. CASE LoadStamp
  <2>1. Second(image[chan["opc"]].stamp) \in Int
    BY ClockFacts
  <2>2. answer' \in DataValue
    BY <1>10, <2>1 DEF LoadStamp, TypeOK, DataValue
  <2>3. QED
    BY <1>10, <2>2 DEF LoadStamp, scanner, cached, TypeOK
<1>11. CASE StampAnswer
  <2>1. told' \in Int
    BY <1>11, ClockFacts DEF StampAnswer, TypeOK, DataValue, NoTime
  <2>2. QED
    BY <1>11, <2>1 DEF StampAnswer, scanner, cached, TypeOK
<1>12. CASE Return
  BY <1>12 DEF Return, scanner, cached, TypeOK, DataValue
<1>13. QED
  BY <1>1, <1>1a, <1>2, <1>3, <1>4, <1>5, <1>6, <1>7, <1>8, <1>9, <1>10, <1>11, <1>12
  DEF Next, Scanning, Answering

\* But for a reset, no step takes a channel back to an older reading, and only
\* Return counts as an answer.
LEMMA Newer ==
    IInv /\ [Next]_vars /\ ~Abort => \A c \in Channels :
        /\ image'[c].val \in Nat /\ image[c].val <= image'[c].val
        /\ ~Return => newest'[c] = newest[c]
<1> SUFFICES ASSUME IInv, [Next]_vars, ~Abort, NEW c \in Channels
             PROVE  /\ image'[c].val \in Nat /\ image[c].val <= image'[c].val
                    /\ ~Return => newest'[c] = newest[c]
  OBVIOUS
<1> USE Types DEF IInv
<1>1. ASSUME NEW w \in {"val", "stamp"}, StoreWord(w)
      PROVE  /\ image'[c].val \in Nat /\ image[c].val <= image'[c].val
             /\ newest' = newest
  <2>1. ChannelInOrder(c) /\ newest' = newest
    BY <1>1 DEF StoreWord, server
  <2>2. image'[c].val \in {image[c].val, scan}
    BY <1>1, StoreFacts
  <2>3. QED
    BY <2>1, <2>2 DEF ChannelInOrder
<1>2. CASE UNCHANGED vars \/ Tick \/ BeginScan \/ ReadChannel \/ Share \/ Request \/ Answering
  <2>1. image' = image
    BY <1>2 DEF vars, Tick, BeginScan, ReadChannel, Share, Request, Answering,
       LoadValue, TestStamp, LoadStamp, StampAnswer, Return
  <2>2. ~Return => newest' = newest
    BY <1>2 DEF vars, Tick, BeginScan, ReadChannel, Share, Request, Answering,
       LoadValue, TestStamp, LoadStamp, StampAnswer, server
  <2>3. QED
    BY <2>1, <2>2
<1>3. QED
  BY <1>1, <1>2 DEF Next, Scanning

LEMMA AnswerStep == IInv /\ [Next]_vars => AnswerInOrder'
<1> SUFFICES ASSUME IInv, [Next]_vars PROVE AnswerInOrder'
  OBVIOUS
<1> USE Types DEF IInv, Goto
<1>1. CASE Abort
  BY <1>1, AbortHolds
<1> SUFFICES ASSUME ~Abort PROVE AnswerInOrder'
  BY <1>1
<1> DEFINE c == chan["opc"]
<1>2. /\ AnswerInOrder /\ c \in Channels
      /\ \A d \in Channels : /\ image'[d].val \in Nat /\ image[d].val <= image'[d].val
                             /\ ~Return => newest'[d] = newest[d]
  BY Newer
<1>3. CASE UNCHANGED vars \/ Tick \/ Scanning
  <2>1. /\ pc'["opc"] = pc["opc"] /\ chan'["opc"] = chan["opc"]
        /\ UNCHANGED <<answer, floor, newest>>
    <3>1. ASSUME NEW w \in {"val", "stamp"}, StoreWord(w)
          PROVE  /\ pc'["opc"] = pc["opc"] /\ chan'["opc"] = chan["opc"]
                 /\ UNCHANGED <<answer, floor, newest>>
      BY <3>1 DEF StoreWord, server
    <3>2. QED
      BY <1>3, <3>1 DEF vars, control, server, Tick, Scanning, BeginScan, ReadChannel,
         Share
  <2>2. QED
    BY <1>2, <2>1 DEF AnswerInOrder
<1>4. CASE Request
  BY <1>2, <1>4 DEF Request, AnswerInOrder
<1>5. CASE LoadValue
  <2>1. /\ pc["opc"] = "val" /\ pc'["opc"] \in {"test", "stack"}
        /\ answer'.val = image[c].val
        /\ UNCHANGED <<image, chan, floor, newest>>
    BY <1>5 DEF LoadValue, TypeOK, DataValue
  <2>2. /\ complete <= image[c].val /\ scan <= complete + 1
        /\ \A d \in Channels : newest[d] <= image[d].val /\ image[d].val <= scan
    BY <1>2 DEF ChannelInOrder, ScanInOrder
  <2>3. \A d \in Channels : newest[d] <= image[c].val + 1
    BY <1>2, <2>2
  <2>4. QED
    BY <1>2, <2>1, <2>2, <2>3 DEF AnswerInOrder
<1>6. CASE TestStamp \/ LoadStamp \/ StampAnswer
  <2>1. /\ pc["opc"] \in {"test", "stamp", "stack"}
        /\ pc'["opc"] \in {"stamp", "stack", "told"}
        /\ answer'.val = answer.val
        /\ UNCHANGED <<image, chan, floor, newest>>
    BY <1>6 DEF TestStamp, LoadStamp, StampAnswer, server, TypeOK, DataValue
  <2>2. QED
    BY <1>2, <2>1 DEF AnswerInOrder
<1>7. CASE Return
  BY <1>2, <1>7 DEF Return, AnswerInOrder
<1>8. QED
  BY <1>3, <1>4, <1>5, <1>6, <1>7 DEF Next, Answering

-----------------------------------------------------------------------------
\* Every reachable state satisfies IInv.
THEOREM Invariance == Spec => []IInv
<1>1. IInv /\ [Next]_vars => IInv'
  BY TypeStep, ScanStep, ChannelStep, LagStep, AnswerStep DEF IInv
<1>2. QED
  BY InitHolds, <1>1, PTL DEF Spec

\* The types: no scan leaves the arrays.
THEOREM TypeCorrect == Spec => []TypeOK
<1>1. IInv => TypeOK
  BY DEF IInv
<1>2. QED
  BY Invariance, <1>1, PTL

\* A client is never told a reading older than the last complete scan.
THEOREM ReadsAreFresh == Spec => []ReadIsFresh
<1>1. IInv => ReadIsFresh
  BY DEF IInv, AnswerInOrder, ReadIsFresh
<1>2. QED
  BY Invariance, <1>1, PTL

\* Successive answers never take a channel back to an older reading, nor one
\* channel more than one scan behind another.
THEOREM ReadsAdvance == Spec => []ReadsGoForward
<1>1. IInv => ReadsGoForward
  BY DEF IInv, AnswerInOrder, ReadsGoForward
<1>2. QED
  BY Invariance, <1>1, PTL

\* Between scans the process image is that of the last scan, and the I/O cache
\* is behind by exactly the updates it lost in a row.
THEOREM CachesInStep == Spec => []CachesAgree
<1>1. ASSUME IInv, pc["poll"] = "idle", NEW c \in Channels
      PROVE  LET got == scan - missed[c] IN
             /\ image[c] = [val |-> scan, stamp |-> taken[scan]]
             /\ shared[c] = [val |-> got, stamp |-> taken[got]]
  <2>1. Done(c) /\ ChannelInOrder(c) /\ Lags(c) /\ stamp = taken[scan]
    BY <1>1 DEF IInv, Done, ScanInOrder
  <2>2. image[c] \in [val : Scans, stamp : Word]
    BY <1>1, Types DEF IInv
  <2>3. image[c] = [val |-> scan, stamp |-> taken[scan]]
    BY <2>1, <2>2 DEF ChannelInOrder
  <2>4. QED
    BY <2>1, <2>3 DEF Lags, Latest
<1>2. IInv => CachesAgree
  BY <1>1 DEF CachesAgree
<1>3. QED
  BY Invariance, <1>2, PTL
=============================================================================
