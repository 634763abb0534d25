---------------------------- MODULE IoCacheProofs ----------------------------
(***************************************************************************)
(* Theorems about IoCache, for every number of tasks, channels, values and *)
(* clock widths.                                                           *)
(***************************************************************************)
EXTENDS IoCache, TLAPS

(* The inductive invariant behind the safety properties.                   *)

Setting(t) == pc[t] \in Inside /\ op[t].kind # "get"
Getting(t) == pc[t] \in Inside /\ op[t].kind = "get"

\* The items an update in progress has finished copying.
Copied(t) ==
    {i \in Targets(op[t]) :
        IF i = op[t].item THEN pc[t] \in {"flag", "give"}
                          ELSE i < op[t].item}

\* A call has the arguments its control point allows.
FrameOK ==
    \A t \in Tasks :
        /\ pc[t] \in Inside \cup {"take"} => op[t].item \in Items
        /\ pc[t] \in {"check", "flag"} => op[t].item \notin Words
        /\ pc[t] = "check" /\ op[t].kind = "setAll" => op[t].item = -1
        /\ pc[t] = "flag" => op[t].kind # "get"
        /\ pc[t] = "give" /\ op[t].kind = "setAll" => op[t].item = NumAdc - 1
        /\ pc[t] \in {"idle", "take"} /\ op[t].kind = "setAll" => op[t].item = 0
        /\ ok[t] => pc[t] = "ret"

\* Outside the targets of an update in progress, the cache is what the
\* completed updates made it.
CacheIsCommitted ==
    \A i \in Items :
        \/ cache[i] = reg[i]
        \/ \E t \in Tasks : Setting(t) /\ i \in Targets(op[t])

\* A getter's copy agrees with the item as far as it has come.
GetterCopy ==
    \A t \in Tasks : Getting(t) =>
        /\ pc[t] \in {"src", "srv", "give"} => buf[t].val = reg[op[t].item].val
        /\ pc[t] \in {"srv", "give"} => buf[t].src = reg[op[t].item].src
        /\ pc[t] = "give" => buf[t].srv = reg[op[t].item].srv

\* An update's targets agree with its arguments as far as it has come.
SetterCopy ==
    \A t \in Tasks : Setting(t) =>
        /\ pc[t] \in {"src", "srv"} => cache[op[t].item].val = buf[t].val
        /\ pc[t] = "srv" => cache[op[t].item].src = buf[t].src
        /\ \A i \in Copied(t) : /\ cache[i].val = buf[t].val
                                /\ cache[i].src = buf[t].src

\* A channel is flagged valid by a completed update, or by one in progress.
ValidIsWritten ==
    \A i \in Channels : valid[i] =>
        \/ i \in written
        \/ \E t \in Tasks : Setting(t) /\ i \in Targets(op[t])

\* A channel getter past its check saw the flag, and the flag stays.
GetterSawValid ==
    \A t \in Tasks : op[t].kind = "get" /\ op[t].item \in Channels =>
        /\ pc[t] = "take" => valid[op[t].item]
        /\ pc[t] \in Inside \/ ok[t] => op[t].item \in written

IInv ==
    /\ TypeOK
    /\ MutualExclusion
    /\ FrameOK
    /\ CacheIsCommitted
    /\ GetterCopy
    /\ SetterCopy
    /\ ValidIsWritten
    /\ GetterSawValid

\* As long as the 32-bit tick counter has not wrapped, stamps are ordered:
\* in the committed entries, in the arguments of the calls in progress, in
\* what an update in progress has copied, and in what a getter returns.
RegStamps == \A i \in Items : reg[i].src <= reg[i].srv /\ reg[i].srv <= Now
GivenStamps == \A t \in Tasks : op[t].kind # "get" => buf[t].src <= Now
FreshCopy(i) ==
    /\ cache[i].src <= cache[i].srv
    /\ reg[i].srv <= cache[i].srv
    /\ cache[i].srv <= Now
CopiedStamps ==
    \A t \in Tasks : Setting(t) => \A i \in Copied(t) : FreshCopy(i)
StampsOrdered == RegStamps /\ GivenStamps /\ CopiedStamps /\ StampOrder

-----------------------------------------------------------------------------
\* The clock is a stamp at any uptime.
LEMMA NowIsStamp == TypeOK => Now \in Stamp
BY ClockAssumption DEF TypeOK, Now, Stamp

\* Replacing one field of an entry by a value of that field gives an entry.
LEMMA FieldUpdate ==
    ASSUME NEW e \in Entry, NEW f \in Field, NEW x,
           f = "val" => x \in Value,
           f # "val" => x \in Stamp
    PROVE  /\ [e EXCEPT ![f] = x] \in Entry
           /\ [e EXCEPT ![f] = x][f] = x
           /\ \A g \in Field \ {f} : [e EXCEPT ![f] = x][g] = e[g]
BY DEF Entry, Field

\* A field of an entry has the type of the field.
LEMMA FieldOfEntry ==
    ASSUME NEW e \in Entry, NEW f \in Field
    PROVE  /\ f = "val" => e[f] \in Value
           /\ f # "val" => e[f] \in Stamp
BY DEF Entry, Field

LEMMA BlankIsEntry == Blank \in Entry
BY ValueAssumption, ClockAssumption DEF Blank, Entry, Stamp

LEMMA ItemsTyping == /\ Channels \subseteq Items /\ Words \subseteq Items
                     /\ Channels \cap Words = {}
                     /\ Channels \subseteq ChannelArg
                     /\ Items \cap ChannelArg = Channels
                     /\ -1 \notin Items /\ 0 \in Channels
BY ItemsAssumption DEF Channels, Words, Items, ChannelArg

LEMMA CallTyping ==
    /\ NoCall \in Call
    /\ \A c \in Frame : /\ c.kind \in {"get", "set", "setAll"}
                        /\ c.kind # "setAll" => c.item \in Words \cup ChannelArg
                        /\ c.kind = "setAll" => c.item \in Channels \cup {-1}
                        /\ c.kind = "setAll" /\ c.item \in Items => c.item \in Channels
    /\ \A c \in Frame : c.kind \in {"get", "set"} => c \in Call
    /\ Call \subseteq Frame
    /\ \A c \in Call : c.kind = "setAll" => c = NoCall \/ c = NullCall
    /\ \A t \in Tasks : Calls[t] \subseteq Call
BY ItemsAssumption, CallsAssumption, ItemsTyping DEF NoCall, NullCall, Call, Frame, Channels

-----------------------------------------------------------------------------
THEOREM InitInv == Init => IInv
<1> SUFFICES ASSUME Init PROVE IInv
  OBVIOUS
<1> USE DEF Init
<1>1. TypeOK
  BY BlankIsEntry, CallTyping, ClockAssumption DEF TypeOK, Control
<1>2. MutualExclusion /\ FrameOK /\ GetterCopy /\ SetterCopy /\ GetterSawValid
  BY DEF MutualExclusion, FrameOK, GetterCopy, SetterCopy, GetterSawValid,
         Inside, Field, Getting, Setting, NoCall
<1>3. CacheIsCommitted /\ ValidIsWritten
  BY DEF CacheIsCommitted, ValidIsWritten
<1>4. QED
  BY <1>1, <1>2, <1>3 DEF IInv

LEMMA TypeStep == IInv /\ [Next]_vars => TypeOK'
<1> SUFFICES ASSUME IInv, [Next]_vars PROVE TypeOK'
  OBVIOUS
<1> USE DEF TypeOK, IInv, shared, local, history, Goto
<1>1. CASE UNCHANGED vars
  BY <1>1 DEF vars
<1>2. CASE Tick
  BY <1>2, ClockAssumption DEF Tick
<1>3. ASSUME NEW t \in Tasks, Begin(t) PROVE TypeOK'
  <2>1. PICK c \in Calls[t] :
          /\ op' = [op EXCEPT ![t] = c]
          /\ \E v \in (IF c.kind = "get" THEN {0} ELSE Value) :
               buf' = [buf EXCEPT ![t] = IF c.kind = "get" THEN Blank
                                 ELSE [val |-> v, src |-> Now, srv |-> 0]]
    BY <1>3 DEF Begin
  <2>2. \A v \in Value : [val |-> v, src |-> Now, srv |-> 0] \in Entry
    BY NowIsStamp, ClockAssumption DEF Entry, Stamp
  <2>3. buf' \in [Tasks -> Entry]
    BY <2>1, <2>2, BlankIsEntry, ValueAssumption
  <2>4. op' \in [Tasks -> Frame]
    BY <2>1, CallTyping
  <2>5. pc' \in [Tasks -> Control]
    BY <1>3 DEF Begin, Control
  <2>6. QED
    BY <1>3, <2>3, <2>4, <2>5 DEF Begin
<1>4. ASSUME NEW t \in Tasks, CheckChannel(t) PROVE TypeOK'
  BY <1>4 DEF CheckChannel, Control
<1>5. ASSUME NEW t \in Tasks, Take(t) PROVE TypeOK'
  BY <1>5 DEF Take, Control, Field
<1>6. ASSUME NEW t \in Tasks, TimeOut(t) PROVE TypeOK'
  BY <1>6 DEF TimeOut, Control
<1>7. ASSUME NEW t \in Tasks, Load(t) PROVE TypeOK'
  <2>1. op[t].item \in Items
    BY <1>7 DEF Load, FrameOK, Inside
  <2>2. buf[t] \in Entry /\ cache[op[t].item] \in Entry /\ pc[t] \in Field
    BY <1>7, <2>1 DEF Load
  <2>3. [buf[t] EXCEPT ![pc[t]] = cache[op[t].item][pc[t]]] \in Entry
    BY <2>2, FieldOfEntry, FieldUpdate
  <2>4. buf' \in [Tasks -> Entry]
    BY <1>7, <2>3 DEF Load
  <2>5. pc' \in [Tasks -> Control]
    BY <1>7 DEF Load, AfterField, Control, Field
  <2>6. QED
    BY <1>7, <2>4, <2>5 DEF Load
<1>8. ASSUME NEW t \in Tasks, Store(t) PROVE TypeOK'
  <2>1. op[t].item \in Items
    BY <1>8 DEF Store, FrameOK, Inside
  <2>2. buf[t] \in Entry /\ cache[op[t].item] \in Entry /\ pc[t] \in Field
    BY <1>8, <2>1 DEF Store
  <2> DEFINE x == IF pc[t] = "srv" THEN Now ELSE buf[t][pc[t]]
  <2>3. [cache[op[t].item] EXCEPT ![pc[t]] = x] \in Entry
    BY <2>2, FieldOfEntry, FieldUpdate, NowIsStamp
  <2>4. cache' \in [Items -> Entry]
    BY <1>8, <2>1, <2>3 DEF Store
  <2>5. pc' \in [Tasks -> Control]
    BY <1>8 DEF Store, AfterField, Control, Field
  <2>6. QED
    BY <1>8, <2>4, <2>5 DEF Store
<1>9. ASSUME NEW t \in Tasks, SetValid(t) PROVE TypeOK'
  <2>1. op' \in [Tasks -> Frame]
    <3>1. CASE op[t].kind = "setAll" /\ op[t].item < NumAdc - 1
      <4>1. op[t].item \in Channels
        BY <1>9, <3>1, CallTyping DEF SetValid, FrameOK, Inside
      <4>2. [op[t] EXCEPT !.item = @ + 1] \in Frame
        BY <3>1, <4>1, ItemsAssumption DEF Frame, Call, Channels
      <4>3. QED
        BY <1>9, <3>1, <4>2 DEF SetValid
    <3>2. QED
      BY <1>9, <3>1 DEF SetValid
  <2>2. QED
    BY <1>9, <2>1 DEF SetValid, Control, Field
<1>10. ASSUME NEW t \in Tasks, Give(t) PROVE TypeOK'
  <2>1. op[t].item \in Items
    BY <1>10 DEF Give, FrameOK, Inside
  <2>2. Targets(op[t]) \subseteq Items
    BY <2>1, ItemsTyping DEF Targets
  <2>3. reg' \in [Items -> Entry] /\ written' \in SUBSET Items
    BY <1>10, <2>2 DEF Give
  <2>4. QED
    BY <1>10, <2>3 DEF Give, Control
<1>11. ASSUME NEW t \in Tasks, Return(t) PROVE TypeOK'
  BY <1>11, BlankIsEntry, CallTyping DEF Return, Control
<1>12. QED
  BY <1>1, <1>2, <1>3, <1>4, <1>5, <1>6, <1>7, <1>8, <1>9, <1>10, <1>11
     DEF Next, Step

\* The loop of io_cache_update_all_adc_channels: either it goes on to the next
\* channel, or the index stays where it is and the mutex is released.
LEMMA SetValidEffect ==
    ASSUME IInv, NEW t \in Tasks, SetValid(t)
    PROVE  /\ op[t].item \in Channels
           /\ op[t].kind \in {"set", "setAll"}
           /\ \A u \in Tasks \ {t} : op'[u] = op[u] /\ pc'[u] = pc[u]
           /\ op'[t].kind = op[t].kind
           /\ \/ /\ op[t].kind = "setAll" /\ op[t].item < NumAdc - 1
                 /\ op'[t].item = op[t].item + 1 /\ pc'[t] = "val"
                 /\ op'[t].item \in Channels
              \/ /\ op[t].kind = "setAll" => op[t].item = NumAdc - 1
                 /\ op' = op /\ pc'[t] = "give"
<1> USE DEF IInv, TypeOK, Goto
<1>1. op[t].item \in Channels /\ op[t].kind \in {"set", "setAll"}
  BY CallTyping, ItemsTyping DEF SetValid, FrameOK, Inside, Items
<1>2. CASE op[t].kind = "setAll" /\ op[t].item < NumAdc - 1
  <2>1. op'[t] = [op[t] EXCEPT !.item = @ + 1]
    BY <1>2 DEF SetValid
  <2>2. op'[t].kind = op[t].kind /\ op'[t].item = op[t].item + 1
    BY <2>1 DEF Frame, Call
  <2>3. op[t].item + 1 \in Channels
    BY <1>1, <1>2, ItemsAssumption DEF Channels
  <2>4. QED
    BY <1>1, <1>2, <2>2, <2>3 DEF SetValid
<1>3. CASE ~(op[t].kind = "setAll" /\ op[t].item < NumAdc - 1)
  <2>1. op' = op /\ pc'[t] = "give"
    BY <1>3 DEF SetValid
  <2>2. op[t].kind = "setAll" => op[t].item = NumAdc - 1
    BY <1>1, <1>3, ItemsAssumption DEF Channels
  <2>3. QED
    BY <1>1, <2>1, <2>2 DEF SetValid
<1>4. QED
  BY <1>2, <1>3

LEMMA MutexStep == IInv /\ TypeOK' /\ [Next]_vars => MutualExclusion'
<1> SUFFICES ASSUME IInv, TypeOK', [Next]_vars PROVE MutualExclusion'
  OBVIOUS
<1> USE DEF TypeOK, IInv, shared, local, history, Goto,
           MutualExclusion, Inside, Field
<1>1. CASE UNCHANGED vars
  BY <1>1 DEF vars
<1>2. CASE Tick
  BY <1>2 DEF Tick
<1>3. ASSUME NEW t \in Tasks, Begin(t) PROVE MutualExclusion'
  BY <1>3 DEF Begin
<1>4. ASSUME NEW t \in Tasks, CheckChannel(t) PROVE MutualExclusion'
  BY <1>4 DEF CheckChannel
<1>5. ASSUME NEW t \in Tasks, Take(t) PROVE MutualExclusion'
  BY <1>5 DEF Take
<1>6. ASSUME NEW t \in Tasks, TimeOut(t) PROVE MutualExclusion'
  BY <1>6 DEF TimeOut
<1>7. ASSUME NEW t \in Tasks, Load(t) PROVE MutualExclusion'
  BY <1>7 DEF Load, AfterField
<1>8. ASSUME NEW t \in Tasks, Store(t) PROVE MutualExclusion'
  BY <1>8 DEF Store, AfterField
<1>9. ASSUME NEW t \in Tasks, SetValid(t) PROVE MutualExclusion'
  BY <1>9 DEF SetValid
<1>10. ASSUME NEW t \in Tasks, Give(t) PROVE MutualExclusion'
  BY <1>10 DEF Give
<1>11. ASSUME NEW t \in Tasks, Return(t) PROVE MutualExclusion'
  BY <1>11 DEF Return
<1>12. QED
  BY <1>1, <1>2, <1>3, <1>4, <1>5, <1>6, <1>7, <1>8, <1>9, <1>10, <1>11
     DEF Next, Step

LEMMA FrameStep == IInv /\ TypeOK' /\ [Next]_vars => FrameOK'
<1> SUFFICES ASSUME IInv, TypeOK', [Next]_vars PROVE FrameOK'
  OBVIOUS
<1> USE DEF TypeOK, IInv, shared, local, history, Goto, FrameOK, Inside, Field
<1>1. CASE UNCHANGED vars
  BY <1>1 DEF vars
<1>2. CASE Tick
  BY <1>2 DEF Tick
<1>3. ASSUME NEW t \in Tasks, Begin(t) PROVE FrameOK'
  <2>1. PICK c \in Calls[t] :
          /\ pc[t] = "idle" /\ op' = [op EXCEPT ![t] = c]
          /\ pc' = [pc EXCEPT ![t] = IF Checked(c) THEN "check" ELSE "take"]
    BY <1>3 DEF Begin
  <2>2. c \in Call /\ c \in Frame /\ ok' = ok
    BY <1>3, CallTyping DEF Begin
  <2>3. CASE Checked(c)
    <3>1. c.item \notin Words /\ (c.kind = "setAll" => c.item = -1)
      BY <2>3, ItemsTyping DEF Checked, NullCall, Items
    <3>2. QED
      BY <2>1, <2>2, <2>3, <3>1
  <2>4. CASE ~Checked(c)
    <3>1. c.item \in Items /\ (c.kind = "setAll" => c.item = 0)
      BY <2>2, <2>4, CallTyping, ItemsTyping DEF Checked, NoCall, Items
    <3>2. QED
      BY <2>1, <2>2, <2>4, <3>1
  <2>5. QED
    BY <2>3, <2>4
<1>4. ASSUME NEW t \in Tasks, CheckChannel(t) PROVE FrameOK'
  BY <1>4, CallTyping, ItemsTyping DEF CheckChannel, Acceptable
<1>5. ASSUME NEW t \in Tasks, Take(t) PROVE FrameOK'
  BY <1>5, CallTyping, ItemsTyping DEF Take
<1>6. ASSUME NEW t \in Tasks, TimeOut(t) PROVE FrameOK'
  BY <1>6, CallTyping, ItemsTyping DEF TimeOut
<1>7. ASSUME NEW t \in Tasks, Load(t) PROVE FrameOK'
  BY <1>7, CallTyping, ItemsTyping DEF Load, AfterField
<1>8. ASSUME NEW t \in Tasks, Store(t) PROVE FrameOK'
  BY <1>8, CallTyping, ItemsTyping DEF Store, AfterField
<1>9. ASSUME NEW t \in Tasks, SetValid(t) PROVE FrameOK'
  <2>1. /\ pc[t] = "flag" /\ ok' = ok /\ op[t].item \in Channels
        /\ \A u \in Tasks \ {t} : op'[u] = op[u] /\ pc'[u] = pc[u]
        /\ op'[t].kind = op[t].kind /\ op'[t].item \in Channels
        /\ pc'[t] \in {"val", "give"}
        /\ pc'[t] = "give" /\ op'[t].kind = "setAll" => op'[t].item = NumAdc - 1
    BY <1>9, SetValidEffect DEF SetValid
  <2>2. QED
    BY <2>1, ItemsTyping
<1>10. ASSUME NEW t \in Tasks, Give(t) PROVE FrameOK'
  BY <1>10, CallTyping, ItemsTyping DEF Give
<1>11. ASSUME NEW t \in Tasks, Return(t) PROVE FrameOK'
  BY <1>11, CallTyping, ItemsTyping DEF Return, NoCall
<1>12. QED
  BY <1>1, <1>2, <1>3, <1>4, <1>5, <1>6, <1>7, <1>8, <1>9, <1>10, <1>11
     DEF Next, Step

\* Who is inside is alone there.
LEMMA Alone ==
    ASSUME IInv, NEW t \in Tasks, NEW u \in Tasks
    PROVE  /\ pc[t] \in Inside /\ pc[u] \in Inside => t = u
           /\ mutex = {} => pc[t] \notin Inside
BY DEF IInv, MutualExclusion

\* What holding the mutex means for the next step: every step but the
\* holder's own leaves the shared entries and the history alone.
LEMMA OthersLeaveEntries ==
    ASSUME IInv, NEW t \in Tasks, Begin(t) \/ CheckChannel(t) \/ Take(t)
                 \/ TimeOut(t) \/ Load(t) \/ Return(t)
    PROVE  UNCHANGED <<cache, valid, reg, written>>
BY DEF Begin, CheckChannel, Take, TimeOut, Load, Return, shared, local, history

\* An update that goes on has the same targets as before.
LEMMA SettingGoesOn ==
    ASSUME IInv, TypeOK', NEW t \in Tasks, Store(t) \/ SetValid(t)
    PROVE  \A u \in Tasks : Setting(u) =>
              /\ Setting(u)'
              /\ Targets(op'[u]) = Targets(op[u])
              /\ op'[u].kind = op[u].kind
<1> USE DEF IInv, TypeOK, Goto, shared, local, history
<1>1. CASE Store(t)
  <2>1. op' = op /\ pc'[t] \in Inside /\ \A u \in Tasks \ {t} : pc'[u] = pc[u]
    BY <1>1 DEF Store, AfterField, Inside, Field
  <2>2. QED
    BY <2>1 DEF Setting
<1>2. CASE SetValid(t)
  <2>1. /\ \A u \in Tasks \ {t} : op'[u] = op[u] /\ pc'[u] = pc[u]
        /\ op'[t].kind = op[t].kind /\ pc'[t] \in Inside
        /\ op'[t].kind # "setAll" => op'[t] = op[t]
    BY <1>2, SetValidEffect DEF Inside, Field
  <2>2. QED
    BY <2>1 DEF Setting, Targets
<1>3. QED
  BY <1>1, <1>2

LEMMA CommittedStep == IInv /\ TypeOK' /\ [Next]_vars => CacheIsCommitted'
<1> SUFFICES ASSUME IInv, TypeOK', [Next]_vars PROVE CacheIsCommitted'
  OBVIOUS
<1> USE DEF TypeOK, IInv, shared, local, history, Goto,
           CacheIsCommitted, Setting, Inside, Field
<1>1. CASE UNCHANGED vars
  BY <1>1 DEF vars
<1>2. CASE Tick
  BY <1>2 DEF Tick
<1>3. ASSUME NEW t \in Tasks, Begin(t) PROVE CacheIsCommitted'
  BY <1>3, Alone DEF Begin
<1>4. ASSUME NEW t \in Tasks, CheckChannel(t) PROVE CacheIsCommitted'
  BY <1>4, Alone DEF CheckChannel
<1>5. ASSUME NEW t \in Tasks, Take(t) PROVE CacheIsCommitted'
  BY <1>5, Alone DEF Take
<1>6. ASSUME NEW t \in Tasks, TimeOut(t) PROVE CacheIsCommitted'
  BY <1>6, Alone DEF TimeOut
<1>7. ASSUME NEW t \in Tasks, Load(t) PROVE CacheIsCommitted'
  BY <1>7, Alone DEF Load, AfterField
<1>8. ASSUME NEW t \in Tasks, Store(t) PROVE CacheIsCommitted'
  <2>1. \A i \in Items : i # op[t].item => cache'[i] = cache[i]
    BY <1>8 DEF Store
  <2>2. Setting(t) /\ op[t].item \in Targets(op[t])
    BY <1>8, CallTyping DEF Store, Targets, FrameOK, Items
  <2>3. reg' = reg
    BY <1>8 DEF Store
  <2>4. QED
    BY <1>8, <2>1, <2>2, <2>3, SettingGoesOn
<1>9. ASSUME NEW t \in Tasks, SetValid(t) PROVE CacheIsCommitted'
  BY <1>9, SettingGoesOn DEF SetValid
<1>10. ASSUME NEW t \in Tasks, Give(t) PROVE CacheIsCommitted'
  BY <1>10, Alone DEF Give, Targets
<1>11. ASSUME NEW t \in Tasks, Return(t) PROVE CacheIsCommitted'
  BY <1>11, Alone DEF Return
<1>12. QED
  BY <1>1, <1>2, <1>3, <1>4, <1>5, <1>6, <1>7, <1>8, <1>9, <1>10, <1>11
     DEF Next, Step

\* The channel whose flag is set is a target of the update under way.
LEMMA FlagSet ==
    ASSUME IInv, TypeOK', NEW t \in Tasks, SetValid(t) PROVE ValidIsWritten'
<1>1. Setting(t) /\ op[t].item \in Targets(op[t])
  BY SetValidEffect DEF SetValid, Targets, Setting, Inside
<1>2. \A i \in Channels : i # op[t].item => valid'[i] = valid[i]
  BY DEF SetValid, IInv, TypeOK
<1>3. written' = written
  BY DEF SetValid, history
<1>4. \A u \in Tasks : Setting(u) => Setting(u)' /\ Targets(op'[u]) = Targets(op[u])
  BY SettingGoesOn
<1>5. ASSUME NEW i \in Channels, valid'[i]
      PROVE  i \in written' \/ \E u \in Tasks : Setting(u)' /\ i \in Targets(op'[u])
  <2>1. CASE i = op[t].item
    BY <1>1, <1>4, <2>1
  <2>2. CASE i # op[t].item
    <3>1. i \in written \/ \E u \in Tasks : Setting(u) /\ i \in Targets(op[u])
      BY <1>2, <1>5, <2>2 DEF IInv, ValidIsWritten
    <3>2. QED
      BY <1>3, <1>4, <3>1
  <2>3. QED
    BY <2>1, <2>2
<1>6. QED
  BY <1>5 DEF ValidIsWritten

LEMMA ValidStep == IInv /\ TypeOK' /\ [Next]_vars => ValidIsWritten'
<1> SUFFICES ASSUME IInv, TypeOK', [Next]_vars PROVE ValidIsWritten'
  OBVIOUS
<1> USE DEF TypeOK, IInv, shared, local, history, Goto,
           ValidIsWritten, Setting, Inside, Field
<1>1. CASE UNCHANGED vars
  BY <1>1 DEF vars
<1>2. CASE Tick
  BY <1>2 DEF Tick
<1>3. ASSUME NEW t \in Tasks, Begin(t) PROVE ValidIsWritten'
  BY <1>3, Alone, ItemsTyping DEF Begin
<1>4. ASSUME NEW t \in Tasks, CheckChannel(t) PROVE ValidIsWritten'
  BY <1>4, Alone, ItemsTyping DEF CheckChannel
<1>5. ASSUME NEW t \in Tasks, Take(t) PROVE ValidIsWritten'
  BY <1>5, Alone, ItemsTyping DEF Take
<1>6. ASSUME NEW t \in Tasks, TimeOut(t) PROVE ValidIsWritten'
  BY <1>6, Alone, ItemsTyping DEF TimeOut
<1>7. ASSUME NEW t \in Tasks, Load(t) PROVE ValidIsWritten'
  BY <1>7, Alone, ItemsTyping DEF Load, AfterField
<1>8. ASSUME NEW t \in Tasks, Store(t) PROVE ValidIsWritten'
  BY <1>8, Alone, ItemsTyping DEF Store, AfterField, Targets
<1>9. ASSUME NEW t \in Tasks, SetValid(t) PROVE ValidIsWritten'
  BY <1>9, FlagSet
<1>10. ASSUME NEW t \in Tasks, Give(t) PROVE ValidIsWritten'
  BY <1>10, Alone, ItemsTyping DEF Give, Targets
<1>11. ASSUME NEW t \in Tasks, Return(t) PROVE ValidIsWritten'
  BY <1>11, Alone, ItemsTyping DEF Return
<1>12. QED
  BY <1>1, <1>2, <1>3, <1>4, <1>5, <1>6, <1>7, <1>8, <1>9, <1>10, <1>11
     DEF Next, Step

LEMMA SawStep == IInv /\ TypeOK' /\ [Next]_vars => GetterSawValid'
<1> SUFFICES ASSUME IInv, TypeOK', [Next]_vars PROVE GetterSawValid'
  OBVIOUS
<1> USE DEF TypeOK, IInv, shared, local, history, Goto,
           GetterSawValid, Inside, Field
<1>1. CASE UNCHANGED vars
  BY <1>1 DEF vars
<1>2. CASE Tick
  BY <1>2 DEF Tick
<1>3. ASSUME NEW t \in Tasks, Begin(t) PROVE GetterSawValid'
  BY <1>3, Alone, ItemsTyping DEF Begin, Checked, FrameOK
<1>4. ASSUME NEW t \in Tasks, CheckChannel(t) PROVE GetterSawValid'
  BY <1>4, Alone, ItemsTyping DEF CheckChannel, Acceptable
<1>5. ASSUME NEW t \in Tasks, Take(t) PROVE GetterSawValid'
  BY <1>5, Alone, ItemsTyping DEF Take, ValidIsWritten, Setting
<1>6. ASSUME NEW t \in Tasks, TimeOut(t) PROVE GetterSawValid'
  BY <1>6, Alone, ItemsTyping DEF TimeOut
<1>7. ASSUME NEW t \in Tasks, Load(t) PROVE GetterSawValid'
  BY <1>7, Alone, ItemsTyping DEF Load, AfterField
<1>8. ASSUME NEW t \in Tasks, Store(t) PROVE GetterSawValid'
  BY <1>8, Alone, ItemsTyping DEF Store, AfterField
<1>9. ASSUME NEW t \in Tasks, SetValid(t) PROVE GetterSawValid'
  BY <1>9, SetValidEffect DEF SetValid
<1>10. ASSUME NEW t \in Tasks, Give(t) PROVE GetterSawValid'
  BY <1>10, Alone, ItemsTyping DEF Give
<1>11. ASSUME NEW t \in Tasks, Return(t) PROVE GetterSawValid'
  BY <1>11, Alone, ItemsTyping DEF Return
<1>12. QED
  BY <1>1, <1>2, <1>3, <1>4, <1>5, <1>6, <1>7, <1>8, <1>9, <1>10, <1>11
     DEF Next, Step

\* One field goes out, the others stay.
LEMMA LoadEffect ==
    ASSUME IInv, NEW t \in Tasks, Load(t)
    PROVE  /\ op[t].item \in Items /\ op[t].kind = "get" /\ pc[t] \in Field
           /\ buf'[t][pc[t]] = cache[op[t].item][pc[t]]
           /\ \A g \in Field \ {pc[t]} : buf'[t][g] = buf[t][g]
           /\ \A u \in Tasks \ {t} : buf'[u] = buf[u] /\ pc'[u] = pc[u]
           /\ pc[t] = "val" => pc'[t] = "src"
           /\ pc[t] = "src" => pc'[t] = "srv"
           /\ pc[t] = "srv" => pc'[t] = "give"
<1> USE DEF IInv, TypeOK, Goto
<1>1. op[t].item \in Items /\ op[t].kind = "get" /\ pc[t] \in Field
  BY DEF Load, FrameOK, Inside
<1>2. buf[t] \in Entry /\ cache[op[t].item] \in Entry
  BY <1>1
<1>3. buf'[t] = [buf[t] EXCEPT ![pc[t]] = cache[op[t].item][pc[t]]]
  BY DEF Load
<1>4. /\ buf'[t][pc[t]] = cache[op[t].item][pc[t]]
      /\ \A g \in Field \ {pc[t]} : buf'[t][g] = buf[t][g]
  <2>1. /\ pc[t] = "val" => cache[op[t].item][pc[t]] \in Value
        /\ pc[t] # "val" => cache[op[t].item][pc[t]] \in Stamp
    BY <1>1, <1>2, FieldOfEntry
  <2>2. QED
    BY ONLY <1>1, <1>2, <1>3, <2>1, FieldUpdate
<1>5. /\ pc[t] = "val" => pc'[t] = "src"
      /\ pc[t] = "src" => pc'[t] = "srv"
      /\ pc[t] = "srv" => pc'[t] = "give"
  BY <1>1 DEF Load, AfterField
<1>6. QED
  BY <1>1, <1>4, <1>5 DEF Load

\* One field goes in, the rest of the cache stays.
LEMMA StoreEffect ==
    ASSUME IInv, NEW t \in Tasks, Store(t)
    PROVE  /\ op[t].item \in Items /\ op[t].kind # "get" /\ pc[t] \in Field
           /\ cache'[op[t].item][pc[t]] =
                 (IF pc[t] = "srv" THEN Now ELSE buf[t][pc[t]])
           /\ \A g \in Field \ {pc[t]} :
                 cache'[op[t].item][g] = cache[op[t].item][g]
           /\ \A i \in Items \ {op[t].item} : cache'[i] = cache[i]
           /\ \A u \in Tasks \ {t} : pc'[u] = pc[u]
           /\ pc[t] = "val" => pc'[t] = "src"
           /\ pc[t] = "src" => pc'[t] = "srv"
           /\ pc[t] = "srv" => pc'[t] \in {"flag", "give"}
<1> USE DEF IInv, TypeOK, Goto
<1>1. op[t].item \in Items /\ op[t].kind # "get" /\ pc[t] \in Field
  BY DEF Store, FrameOK, Inside
<1>2. buf[t] \in Entry /\ cache[op[t].item] \in Entry
  BY <1>1
<1> DEFINE x == IF pc[t] = "srv" THEN Now ELSE buf[t][pc[t]]
<1>3. cache'[op[t].item] = [cache[op[t].item] EXCEPT ![pc[t]] = x]
  BY <1>1 DEF Store
<1>4. /\ cache'[op[t].item][pc[t]] = x
      /\ \A g \in Field \ {pc[t]} : cache'[op[t].item][g] = cache[op[t].item][g]
  <2>1. /\ pc[t] = "val" => x \in Value
        /\ pc[t] # "val" => x \in Stamp
    BY <1>1, <1>2, FieldOfEntry, NowIsStamp
  <2> HIDE DEF x
  <2>2. QED
    BY ONLY <1>1, <1>2, <1>3, <2>1, FieldUpdate
<1>5. /\ pc[t] = "val" => pc'[t] = "src"
      /\ pc[t] = "src" => pc'[t] = "srv"
      /\ pc[t] = "srv" => pc'[t] \in {"flag", "give"}
  BY <1>1 DEF Store, AfterField
<1>6. \A i \in Items \ {op[t].item} : cache'[i] = cache[i]
  BY DEF Store
<1>7. QED
  BY <1>1, <1>4, <1>5, <1>6 DEF Store

\* While a task reads, the cache is what the completed updates made it.
LEMMA ReadersSeeCommitted ==
    ASSUME IInv, NEW t \in Tasks, Getting(t)
    PROVE  op[t].item \in Items /\ cache[op[t].item] = reg[op[t].item]
<1>1. op[t].item \in Items
  BY DEF IInv, FrameOK, Getting
<1>2. \A u \in Tasks : ~Setting(u)
  BY Alone DEF Getting, Setting
<1>3. QED
  BY <1>1, <1>2 DEF IInv, CacheIsCommitted

LEMMA GetterStep == IInv /\ TypeOK' /\ [Next]_vars => GetterCopy'
<1> SUFFICES ASSUME IInv, TypeOK', [Next]_vars PROVE GetterCopy'
  OBVIOUS
<1> USE DEF TypeOK, IInv, shared, local, history, Goto,
           GetterCopy, Getting, Inside
<1>1. CASE UNCHANGED vars
  BY <1>1 DEF vars
<1>2. CASE Tick
  BY <1>2 DEF Tick
<1>3. ASSUME NEW t \in Tasks, Begin(t) PROVE GetterCopy'
  BY <1>3 DEF Begin, Field
<1>4. ASSUME NEW t \in Tasks, CheckChannel(t) PROVE GetterCopy'
  BY <1>4, Alone DEF CheckChannel
<1>5. ASSUME NEW t \in Tasks, Take(t) PROVE GetterCopy'
  BY <1>5 DEF Take, Field
<1>6. ASSUME NEW t \in Tasks, TimeOut(t) PROVE GetterCopy'
  BY <1>6, Alone DEF TimeOut
<1>7. ASSUME NEW t \in Tasks, Load(t) PROVE GetterCopy'
  <2>1. \A u \in Tasks : Getting(u)' => u = t
    BY <1>7, LoadEffect, Alone
  <2>2. Getting(t) /\ op' = op /\ reg' = reg /\ cache[op[t].item] = reg[op[t].item]
    BY <1>7, LoadEffect, ReadersSeeCommitted DEF Load
  <2>3. CASE pc[t] = "val"
    BY <2>1, <2>2, <2>3, <1>7, LoadEffect
  <2>4. CASE pc[t] = "src"
    BY <2>1, <2>2, <2>4, <1>7, LoadEffect DEF Field
  <2>5. CASE pc[t] = "srv"
    BY <2>1, <2>2, <2>5, <1>7, LoadEffect DEF Field
  <2>6. QED
    BY <2>3, <2>4, <2>5, <1>7, LoadEffect DEF Field
<1>8. ASSUME NEW t \in Tasks, Store(t) PROVE GetterCopy'
  BY <1>8, StoreEffect DEF Store, Field
<1>9. ASSUME NEW t \in Tasks, SetValid(t) PROVE GetterCopy'
  <2>1. \A u \in Tasks : ~Getting(u)'
    BY <1>9, SetValidEffect, Alone DEF SetValid, Field
  <2>2. QED
    BY <2>1
<1>10. ASSUME NEW t \in Tasks, Give(t) PROVE GetterCopy'
  BY <1>10, Alone DEF Give, Field
<1>11. ASSUME NEW t \in Tasks, Return(t) PROVE GetterCopy'
  BY <1>11, Alone DEF Return
<1>12. QED
  BY <1>1, <1>2, <1>3, <1>4, <1>5, <1>6, <1>7, <1>8, <1>9, <1>10, <1>11
     DEF Next, Step

LEMMA SetterStep == IInv /\ TypeOK' /\ [Next]_vars => SetterCopy'
<1> SUFFICES ASSUME IInv, TypeOK', [Next]_vars PROVE SetterCopy'
  OBVIOUS
<1> USE DEF TypeOK, IInv, shared, local, history, Goto,
           SetterCopy, Setting, Inside, Field, Copied
<1>1. CASE UNCHANGED vars
  BY <1>1 DEF vars
<1>2. CASE Tick
  BY <1>2 DEF Tick
<1>3. ASSUME NEW t \in Tasks, Begin(t) PROVE SetterCopy'
  BY <1>3 DEF Begin
<1>4. ASSUME NEW t \in Tasks, CheckChannel(t) PROVE SetterCopy'
  BY <1>4 DEF CheckChannel
<1>5. ASSUME NEW t \in Tasks, Take(t) PROVE SetterCopy'
  <2>1. pc' = [pc EXCEPT ![t] = "val"]
    BY <1>5 DEF Take
  <2>2. op[t].kind # "get" => Copied(t)' = {}
    BY <1>5, <2>1, CallTyping, ItemsAssumption DEF Take, Targets, FrameOK, Channels
  <2>3. QED
    BY <1>5, <2>1, <2>2 DEF Take
<1>6. ASSUME NEW t \in Tasks, TimeOut(t) PROVE SetterCopy'
  BY <1>6 DEF TimeOut
<1>7. ASSUME NEW t \in Tasks, Load(t) PROVE SetterCopy'
  BY <1>7, LoadEffect DEF Load
<1>8. ASSUME NEW t \in Tasks, Store(t) PROVE SetterCopy'
  <2>1. \A u \in Tasks : Setting(u) => u = t
    BY <1>8, StoreEffect, Alone
  <2>2. \A i \in Copied(t) : i # op[t].item /\ i \in Items
    BY <1>8, StoreEffect, ItemsTyping DEF Targets
  <2>3. \A i \in Copied(t)' : i \in Copied(t) \/ i = op[t].item
    BY <1>8 DEF Store
  <2>4. pc'[t] \in {"flag", "give"} => /\ cache'[op[t].item].val = buf[t].val
                                        /\ cache'[op[t].item].src = buf[t].src
    BY <1>8, StoreEffect
  <2>5. op[t].item \in Copied(t)' => pc'[t] \in {"flag", "give"}
    BY <1>8 DEF Store
  <2>6. \A i \in Copied(t)' : /\ cache'[i].val = buf[t].val
                              /\ cache'[i].src = buf[t].src
    BY <1>8, <2>2, <2>3, <2>4, <2>5, StoreEffect
  <2>7. QED
    <3>1. \A u \in Tasks : Setting(u)' => u = t
      BY <1>8, <2>1 DEF Store
    <3>2. op' = op /\ buf' = buf
      BY <1>8 DEF Store
    <3>3. /\ pc'[t] \in {"src", "srv"} => cache'[op[t].item].val = buf[t].val
          /\ pc'[t] = "srv" => cache'[op[t].item].src = buf[t].src
      BY <1>8, StoreEffect
    <3>4. QED
      BY ONLY <2>6, <3>1, <3>2, <3>3 DEF SetterCopy
<1>9. ASSUME NEW t \in Tasks, SetValid(t) PROVE SetterCopy'
  <2>1. \A u \in Tasks : Setting(u) => u = t
    BY <1>9, SetValidEffect, Alone DEF SetValid
  <2>2. Copied(t)' \subseteq Copied(t)
    <3>1. CASE op'[t].item = op[t].item + 1 /\ op[t].kind = "setAll" /\ pc'[t] = "val"
      BY <1>9, <3>1, SetValidEffect, ItemsAssumption DEF SetValid, Targets, Channels
    <3>2. CASE op' = op /\ pc'[t] = "give"
      BY <1>9, <3>2 DEF SetValid
    <3>3. QED
      BY <1>9, <3>1, <3>2, SetValidEffect
  <2>3. QED
    BY <1>9, <2>1, <2>2, SetValidEffect DEF SetValid
<1>10. ASSUME NEW t \in Tasks, Give(t) PROVE SetterCopy'
  BY <1>10 DEF Give
<1>11. ASSUME NEW t \in Tasks, Return(t) PROVE SetterCopy'
  BY <1>11 DEF Return
<1>12. QED
  BY <1>1, <1>2, <1>3, <1>4, <1>5, <1>6, <1>7, <1>8, <1>9, <1>10, <1>11
     DEF Next, Step

-----------------------------------------------------------------------------
LEMMA InvStep == IInv /\ [Next]_vars => IInv'
BY TypeStep, MutexStep, FrameStep, CommittedStep, GetterStep, SetterStep,
   ValidStep, SawStep DEF IInv

\* The inductive invariant: at every moment the cache is what the completed
\* updates made it, except for the targets of the one update in progress.
THEOREM Invariance == SafeSpec => []IInv
<1>1. Init => IInv
  BY InitInv
<1>2. IInv /\ [Next]_vars => IInv'
  BY InvStep
<1>3. QED
  BY <1>1, <1>2, PTL DEF SafeSpec

\* Type correctness.
THEOREM TypeCorrect == SafeSpec => []TypeOK
BY Invariance, PTL DEF IInv

\* At most one task is between xSemaphoreTake and xSemaphoreGive, and a call
\* that timed out is not there.
THEOREM MutexExcludes == SafeSpec => []MutualExclusion
BY Invariance, PTL DEF IInv

LEMMA InvReadIsCommitted == IInv => ReadIsCommitted
<1> SUFFICES ASSUME IInv, NEW t \in Tasks, pc[t] = "give", op[t].kind = "get"
             PROVE  buf[t] = reg[op[t].item]
  BY DEF ReadIsCommitted
<1>1. Getting(t)
  BY DEF Getting, Inside
<1>2. op[t].item \in Items
  BY <1>1, ReadersSeeCommitted
<1>3. buf[t] \in Entry /\ reg[op[t].item] \in Entry
  BY <1>2 DEF IInv, TypeOK
<1>4. /\ buf[t].val = reg[op[t].item].val
      /\ buf[t].src = reg[op[t].item].src
      /\ buf[t].srv = reg[op[t].item].srv
  BY <1>1 DEF IInv, GetterCopy
<1>5. QED
  BY <1>3, <1>4 DEF Entry

\* The three fields a getter copies one by one are those of one completed
\* update, the latest.
THEOREM ReadsAreCommitted == SafeSpec => []ReadIsCommitted
BY Invariance, InvReadIsCommitted, PTL

\* io_cache_get_adc_channel returns true only for a channel that some update
\* completed, although it looks at adc_valid without the mutex.
THEOREM ChannelReadsWereWritten == SafeSpec => []ChannelReadWasWritten
<1>1. IInv => ChannelReadWasWritten
  BY DEF IInv, GetterSawValid, ChannelReadWasWritten
<1>2. QED
  BY <1>1, Invariance, PTL

-----------------------------------------------------------------------------
(* Time stamps, up to the wrap of the tick counter.                        *)

LEMMA SmallModulus == ASSUME NEW u \in Nat, NEW m \in Nat, u < m
                      PROVE  u % m = u
OBVIOUS

\* While it has not wrapped the clock is the uptime, and never goes back.
LEMMA ClockAdvances ==
    ASSUME MaxUptime < TickModulus, TypeOK, TypeOK', [Next]_vars
    PROVE  /\ Now \in Nat /\ Now' \in Nat /\ Now <= Now'
           /\ ~Tick => Now' = Now
<1>1. Now = uptime /\ Now' = uptime' /\ uptime \in Nat /\ uptime' \in Nat
  <2>1. /\ uptime \in Nat /\ uptime < TickModulus
        /\ uptime' \in Nat /\ uptime' < TickModulus
    BY ClockAssumption DEF TypeOK
  <2>2. QED
    BY <2>1, SmallModulus, ClockAssumption DEF Now
<1>2. uptime' = uptime \/ (Tick /\ uptime' = uptime + 1)
  BY DEF Next, vars, Tick, Step, Begin, CheckChannel, Take, TimeOut, Load, Store,
         SetValid, Give, Return
<1>3. QED
  BY <1>1, <1>2

\* Stamps are natural numbers, so that they can be compared.
LEMMA StampsAreNat ==
    /\ Stamp \subseteq Nat
    /\ \A e \in Entry : e.src \in Nat /\ e.srv \in Nat
BY ClockAssumption DEF Stamp, Entry

LEMMA StampsInit == Init => StampsOrdered
<1> SUFFICES ASSUME Init PROVE StampsOrdered
  OBVIOUS
<1>1. Now = 0
  BY ClockAssumption DEF Init, Now
<1>2. QED
  BY <1>1 DEF Init, StampsOrdered, RegStamps, GivenStamps, CopiedStamps, StampOrder,
         Blank, NoCall, Setting, Inside, Field

LEMMA RegStampsStep ==
    ASSUME MaxUptime < TickModulus, IInv, TypeOK', StampsOrdered, [Next]_vars
    PROVE  RegStamps'
<1> USE DEF IInv, TypeOK
<1>1. Now \in Nat /\ Now' \in Nat /\ Now <= Now'
  BY ClockAdvances
<1>2. CASE UNCHANGED reg
  BY <1>1, <1>2, StampsAreNat DEF StampsOrdered, RegStamps
<1>3. ASSUME NEW t \in Tasks, Give(t), op[t].kind # "get"
      PROVE  RegStamps'
  <2>1. Setting(t)
    BY <1>3 DEF Give, Setting, Inside
  <2>2. Targets(op[t]) \subseteq Copied(t)
    BY <1>3, ItemsAssumption DEF Give, Copied, Targets, FrameOK, Channels
  <2>3. \A i \in Targets(op[t]) : cache[i].src <= cache[i].srv /\ cache[i].srv <= Now
    BY <2>1, <2>2 DEF StampsOrdered, CopiedStamps, FreshCopy
  <2>4. \A i \in Items :
           reg'[i] = IF i \in Targets(op[t]) THEN cache[i] ELSE reg[i]
    BY <1>3 DEF Give
  <2>5. QED
    BY <1>1, <2>3, <2>4, StampsAreNat DEF StampsOrdered, RegStamps
<1>4. QED
  BY <1>2, <1>3 DEF Next, Step, vars, shared, local, history, Tick, Begin,
     CheckChannel, Take, TimeOut, Load, Store, SetValid, Give, Return

LEMMA GivenStampsStep ==
    ASSUME MaxUptime < TickModulus, IInv, TypeOK', StampsOrdered, [Next]_vars
    PROVE  GivenStamps'
<1> USE DEF IInv, TypeOK
<1>1. Now \in Nat /\ Now' \in Nat /\ Now <= Now'
  BY ClockAdvances
<1>2. CASE UNCHANGED <<op, buf>>
  BY <1>1, <1>2, StampsAreNat DEF StampsOrdered, GivenStamps
<1>3. ASSUME NEW t \in Tasks,
             \A u \in Tasks \ {t} : op'[u] = op[u] /\ buf'[u] = buf[u],
             op'[t].kind = "get" \/ buf'[t].src <= Now
      PROVE  GivenStamps'
  BY <1>1, <1>3, StampsAreNat DEF StampsOrdered, GivenStamps
<1>4. ASSUME NEW t \in Tasks, Begin(t) PROVE GivenStamps'
  <2>1. PICK c \in Calls[t] :
          /\ op' = [op EXCEPT ![t] = c]
          /\ \E v \in (IF c.kind = "get" THEN {0} ELSE Value) :
               buf' = [buf EXCEPT ![t] = IF c.kind = "get" THEN Blank
                                 ELSE [val |-> v, src |-> Now, srv |-> 0]]
    BY <1>4 DEF Begin
  <2>2. op'[t].kind = "get" \/ buf'[t].src <= Now
    BY <1>1, <2>1
  <2>3. QED
    BY <1>3, <2>1, <2>2
<1>5. ASSUME NEW t \in Tasks, Load(t) PROVE GivenStamps'
  BY <1>3, <1>5, LoadEffect DEF Load
<1>6. ASSUME NEW t \in Tasks, SetValid(t) PROVE GivenStamps'
  <2>1. op'[t].kind = op[t].kind /\ op[t].kind # "get" /\ buf' = buf
        /\ \A u \in Tasks \ {t} : op'[u] = op[u]
    BY <1>6, SetValidEffect DEF SetValid
  <2>2. QED
    BY <1>3, <2>1 DEF StampsOrdered, GivenStamps
<1>7. ASSUME NEW t \in Tasks, Return(t) PROVE GivenStamps'
  <2>1. buf'[t].src = 0
    BY <1>7 DEF Return, Blank
  <2>2. QED
    BY <1>1, <1>3, <1>7, <2>1 DEF Return
<1>8. QED
  BY <1>2, <1>4, <1>5, <1>6, <1>7 DEF Next, Step, vars, shared, local, history,
     Tick, CheckChannel, Take, TimeOut, Store, Give

LEMMA CopiedStampsStep ==
    ASSUME MaxUptime < TickModulus, IInv, TypeOK', StampsOrdered, [Next]_vars
    PROVE  CopiedStamps'
<1> USE DEF IInv, TypeOK
<1>1. Now \in Nat /\ Now' \in Nat /\ Now <= Now' /\ (~Tick => Now' = Now)
  BY ClockAdvances
<1> SUFFICES ASSUME NEW t \in Tasks, Setting(t)', NEW i \in Copied(t)'
             PROVE  FreshCopy(i)'
  BY DEF CopiedStamps
<1>2. ASSUME Setting(t), i \in Copied(t), cache'[i] = cache[i], reg' = reg
      PROVE  FreshCopy(i)'
  <2>1. i \in Items
    BY <1>2, ItemsTyping DEF Copied, Targets, FrameOK, Setting
  <2>2. QED
    BY <1>1, <1>2, <2>1, StampsAreNat DEF StampsOrdered, CopiedStamps, FreshCopy
<1>3. ASSUME pc'[t] = pc[t], op'[t] = op[t], cache' = cache, reg' = reg
      PROVE  FreshCopy(i)'
  BY <1>2, <1>3 DEF Setting, Copied
<1>4. CASE UNCHANGED <<pc, op, cache, reg>>
  BY <1>3, <1>4
<1>5. ASSUME NEW u \in Tasks, Begin(u) \/ CheckChannel(u) \/ TimeOut(u)
                              \/ Load(u) \/ Return(u)
      PROVE  FreshCopy(i)'
  <2>1. cache' = cache /\ reg' = reg
        /\ \A w \in Tasks \ {u} : pc'[w] = pc[w] /\ op'[w] = op[w]
    BY <1>5 DEF Begin, CheckChannel, TimeOut, Load, Return, shared, local, history, Goto
  <2>2. ~Setting(u)'
    <3>1. CASE Load(u)
      BY <3>1 DEF Load, Setting
    <3>2. CASE ~Load(u)
      BY <1>5, <3>2 DEF Begin, CheckChannel, TimeOut, Return, Setting,
         Inside, Field, Goto
    <3>3. QED
      BY <3>1, <3>2
  <2>3. QED
    BY <1>3, <2>1, <2>2
<1>6. ASSUME NEW u \in Tasks, Take(u)
      PROVE  FreshCopy(i)'
  <2>1. cache' = cache /\ reg' = reg /\ op' = op /\ pc' = [pc EXCEPT ![u] = "val"]
    BY <1>6 DEF Take, local, history, Goto
  <2>2. op[u].kind # "get" => Copied(u)' = {}
    BY <1>6, <2>1, CallTyping, ItemsAssumption
       DEF Take, Copied, Targets, FrameOK, Channels
  <2>3. t # u
    BY <2>1, <2>2 DEF Setting
  <2>4. QED
    BY <1>3, <2>1, <2>3
<1>7. ASSUME NEW u \in Tasks, Store(u)
      PROVE  FreshCopy(i)'
  <2>1. t = u /\ Setting(t) /\ op' = op /\ reg' = reg
    <3>1. pc[u] \in Inside
      BY <1>7, StoreEffect DEF Inside
    <3>2. t = u
      BY <1>7, <3>1, StoreEffect, Alone DEF Setting
    <3>3. QED
      BY <1>7, <3>1, <3>2 DEF Store, Setting, local, history, history
  <2>2. CASE i # op[t].item
    <3>1. i \in Copied(t) /\ i \in Items
      BY <2>1, <2>2, ItemsTyping DEF Copied, Targets
    <3>2. cache'[i] = cache[i]
      BY <1>7, <2>1, <2>2, <3>1, StoreEffect
    <3>3. QED
      BY <1>2, <2>1, <3>1, <3>2
  <2>3. CASE i = op[t].item
    <3>1. pc'[t] \in {"flag", "give"} /\ pc[t] = "srv"
      BY <1>7, <2>1, <2>3, StoreEffect DEF Copied, Field
    <3>2. cache'[i].srv = Now /\ cache'[i].src = cache[i].src
      BY <1>7, <2>1, <2>3, <3>1, StoreEffect DEF Field
    <3>3. cache[i].src = buf[t].src /\ buf[t].src <= Now
      BY <2>1, <2>3, <3>1 DEF SetterCopy, StampsOrdered, GivenStamps, Setting
    <3>4. reg[i].srv <= Now
      BY <1>7, <2>1, <2>3, StoreEffect DEF StampsOrdered, RegStamps
    <3>5. QED
      BY <1>1, <2>1, <3>2, <3>3, <3>4 DEF FreshCopy
  <2>4. QED
    BY <2>2, <2>3
<1>8. ASSUME NEW u \in Tasks, SetValid(u)
      PROVE  FreshCopy(i)'
  <2>1. t = u /\ Setting(t) /\ cache' = cache /\ reg' = reg
    <3>1. pc[u] \in Inside /\ op[u].kind # "get"
      BY <1>8, SetValidEffect DEF SetValid, Inside
    <3>2. t = u
      BY <1>8, <3>1, SetValidEffect, Alone DEF Setting
    <3>3. QED
      BY <1>8, <3>1, <3>2 DEF SetValid, Setting, history
  <2>2. i \in Copied(t)
    <3>1. CASE op'[t].item = op[t].item + 1 /\ op[t].kind = "setAll" /\ pc'[t] = "val"
      BY <1>8, <2>1, <3>1, SetValidEffect, ItemsAssumption
         DEF Copied, Targets, Channels, SetValid
    <3>2. CASE op' = op /\ pc'[t] = "give"
      BY <1>8, <2>1, <3>2 DEF SetValid, Copied
    <3>3. QED
      BY <1>8, <2>1, <3>1, <3>2, SetValidEffect
  <2>3. QED
    BY <1>2, <2>1, <2>2
<1>9. ASSUME NEW u \in Tasks, Give(u) PROVE FreshCopy(i)'
  <2>1. pc[u] \in Inside /\ pc'[u] = "ret" /\ \A w \in Tasks \ {u} : pc'[w] = pc[w]
    BY <1>9 DEF Give, Goto, Inside
  <2>2. pc'[t] \in Inside
    BY DEF Setting
  <2>3. QED
    BY <2>1, <2>2, Alone DEF Inside, Field
<1>10. QED
  BY <1>4, <1>5, <1>6, <1>7, <1>8, <1>9
     DEF Next, Step, vars, shared, local, history, Tick

LEMMA StampOrderStep ==
    ASSUME IInv, TypeOK', StampsOrdered, [Next]_vars
    PROVE  StampOrder'
<1> USE DEF IInv, TypeOK
<1>1. CASE UNCHANGED <<ok, op, buf>>
  BY <1>1 DEF StampsOrdered, StampOrder
<1>2. ASSUME NEW t \in Tasks, ok'[t] = FALSE,
             \A u \in Tasks \ {t} :
                 op'[u] = op[u] /\ buf'[u] = buf[u] /\ ok'[u] = ok[u]
      PROVE  StampOrder'
  BY <1>2 DEF StampsOrdered, StampOrder
<1>3. ASSUME NEW t \in Tasks, Begin(t) \/ Load(t) \/ SetValid(t) \/ Return(t)
      PROVE  StampOrder'
  <2>1. \A u \in Tasks \ {t} : op'[u] = op[u] /\ buf'[u] = buf[u] /\ ok'[u] = ok[u]
    BY <1>3 DEF Begin, Load, SetValid, Return
  <2>2. ok'[t] = FALSE
    BY <1>3 DEF Begin, Load, SetValid, Return, FrameOK, Field
  <2>3. QED
    BY <1>2, <2>1, <2>2
<1>4. ASSUME NEW t \in Tasks, Give(t) PROVE StampOrder'
  <2>1. op[t].kind = "get" => buf[t] = reg[op[t].item] /\ op[t].item \in Items
    BY <1>4, InvReadIsCommitted DEF Give, ReadIsCommitted, FrameOK, Inside
  <2>2. op[t].kind = "get" => buf[t].src <= buf[t].srv
    BY <2>1 DEF StampsOrdered, RegStamps
  <2>3. QED
    BY <1>4, <2>2 DEF Give, StampsOrdered, StampOrder
<1>5. QED
  BY <1>1, <1>3, <1>4 DEF Next, Step, vars, shared, local, history, Tick,
     CheckChannel, Take, TimeOut, Store

LEMMA StampsStep ==
    ASSUME MaxUptime < TickModulus
    PROVE  IInv /\ TypeOK' /\ StampsOrdered /\ [Next]_vars => StampsOrdered'
BY RegStampsStep, GivenStampsStep, CopiedStampsStep, StampOrderStep
   DEF StampsOrdered

\* Within the first 2^32 ms (49.7 days), no successful getter returns an entry
\* that was cached before the hardware was read.
THEOREM StampsInOrder ==
    ASSUME MaxUptime < TickModulus
    PROVE  SafeSpec => []StampOrder
<1>1. Init => StampsOrdered
  BY StampsInit
<1>2. IInv /\ TypeOK' /\ StampsOrdered /\ [Next]_vars => StampsOrdered'
  BY StampsStep
<1>3. StampsOrdered => StampOrder
  BY DEF StampsOrdered
<1>4. QED
  BY <1>1, <1>2, <1>3, Invariance, TypeCorrect, PTL DEF SafeSpec

\* In that time no update replaces an entry by one with an older server stamp,
\* whichever tasks make the updates.
THEOREM UpdatesNeverOlder ==
    ASSUME MaxUptime < TickModulus
    PROVE  SafeSpec => NeverOlder
<1>1. IInv /\ TypeOK' /\ StampsOrdered /\ [Next]_vars
        => [\A i \in Items : reg[i].srv <= reg'[i].srv]_vars
  <2> SUFFICES ASSUME IInv, TypeOK', StampsOrdered, [Next]_vars, NEW i \in Items
               PROVE  reg[i].srv <= reg'[i].srv
    OBVIOUS
  <2>1. reg[i] \in Entry /\ reg[i].srv \in Nat
    BY StampsAreNat DEF IInv, TypeOK
  <2>2. CASE reg' = reg
    BY <2>1, <2>2
  <2>3. ASSUME NEW t \in Tasks, Give(t), op[t].kind # "get"
        PROVE  reg[i].srv <= reg'[i].srv
    <3>1. CASE i \in Targets(op[t])
      <4>1. i \in Copied(t) /\ Setting(t)
        BY <2>3, <3>1, ItemsAssumption
           DEF Give, Copied, Targets, IInv, FrameOK, Channels, Setting, Inside
      <4>2. reg'[i] = cache[i]
        BY <2>3, <3>1 DEF Give
      <4>3. QED
        BY <4>1, <4>2 DEF StampsOrdered, CopiedStamps, FreshCopy
    <3>2. CASE i \notin Targets(op[t])
      BY <2>1, <2>3, <3>2 DEF Give
    <3>3. QED
      BY <3>1, <3>2
  <2>4. QED
    BY <2>2, <2>3 DEF Next, Step, vars, shared, local, history, Tick, Begin,
       CheckChannel, Take, TimeOut, Load, Store, SetValid, Give, Return
<1>2. QED
  BY <1>1, StampsInit, StampsStep, Invariance, TypeCorrect, PTL DEF SafeSpec, NeverOlder

-----------------------------------------------------------------------------
(* Every call returns.  The provers have no ENABLED: that a task inside a    *)
(* function of the cache is scheduled again, and that xSemaphoreTake always  *)
(* returns, is stated as WF_vars(Step(t)) with the states in which a step    *)
(* can be taken named.  The loop over the channels needs an induction that   *)
(* they do not have either; the board's four channels do without.            *)

Runs(t) == []<>(pc[t] = "idle") \/ []<><<Step(t)>>_vars

\* The steps a call has left at most: an update of all channels goes through
\* four for each channel that is left.
Loops(t) == IF op[t].kind = "setAll" /\ op[t].item \in Channels
            THEN 4 * (NumAdc - 1 - op[t].item) ELSE 0
StepsLeft(t) ==
    CASE pc[t] = "idle" -> 0
      [] pc[t] = "ret" -> 1
      [] pc[t] = "give" -> 2
      [] pc[t] = "flag" -> 3 + Loops(t)
      [] pc[t] = "srv" -> 4 + Loops(t)
      [] pc[t] = "src" -> 5 + Loops(t)
      [] pc[t] = "val" -> 6 + Loops(t)
      [] pc[t] = "take" -> 7 + Loops(t)
      [] pc[t] = "check" -> 8

LEMMA StepsLeftBounds ==
    ASSUME IInv, NEW t \in Tasks
    PROVE  /\ Loops(t) \in Nat /\ Loops(t) <= 4 * (NumAdc - 1)
           /\ StepsLeft(t) \in Nat /\ StepsLeft(t) <= 7 + 4 * NumAdc
           /\ StepsLeft(t) = 0 <=> pc[t] = "idle"
<1>1. op[t].item \in Channels => op[t].item \in 0..(NumAdc - 1)
  BY DEF Channels
<1>2. Loops(t) \in Nat /\ Loops(t) <= 4 * (NumAdc - 1)
  BY <1>1, ItemsAssumption DEF Loops
<1>3. pc[t] \in Control
  BY DEF IInv, TypeOK
<1>4. QED
  BY <1>2, <1>3, ItemsAssumption DEF StepsLeft, Control, Field

\* Each step of a call leaves fewer, whether it gets the mutex or not.
LEMMA StepLeavesLess ==
    ASSUME IInv, NEW t \in Tasks, Step(t)
    PROVE  StepsLeft(t)' \in Nat /\ StepsLeft(t)' < StepsLeft(t)
<1> USE DEF Goto, StepsLeft, Loops
<1>1. /\ pc \in [Tasks -> Control] /\ op \in [Tasks -> Frame]
      /\ Loops(t) \in Nat
  BY StepsLeftBounds DEF IInv, TypeOK
<1>2. CASE CheckChannel(t)
  <2>1. ~(op[t].kind = "setAll" /\ op[t].item \in Channels)
    BY <1>2, ItemsTyping DEF IInv, FrameOK, CheckChannel
  <2>2. pc[t] = "check" /\ pc'[t] \in {"take", "ret"} /\ op' = op
    BY <1>1, <1>2 DEF CheckChannel, local
  <2>3. Loops(t)' = 0 /\ StepsLeft(t) = 8
    BY <2>1, <2>2
  <2>4. StepsLeft(t)' = IF pc'[t] = "take" THEN 7 + Loops(t)' ELSE 1
    BY <2>2
  <2> HIDE DEF StepsLeft, Loops
  <2>5. QED
    BY <2>3, <2>4
<1>3. CASE Take(t) \/ TimeOut(t)
  BY <1>1, <1>3 DEF Take, TimeOut, local
<1>4. CASE Load(t) \/ Store(t)
  BY <1>1, <1>4 DEF Load, Store, AfterField, Field, local
<1>5. CASE SetValid(t)
  <2>1. op[t].item \in Channels /\ op[t].item \in 0..(NumAdc - 1)
    BY <1>5, SetValidEffect DEF Channels
  <2>2. CASE op[t].kind = "setAll" /\ op[t].item < NumAdc - 1
    <3>1. /\ pc'[t] = "val" /\ op'[t].kind = "setAll"
          /\ op'[t].item = op[t].item + 1 /\ op'[t].item \in Channels
      BY <1>1, <1>5, <2>1, <2>2, SetValidEffect DEF SetValid
    <3>2. QED
      BY <1>5, <2>1, <2>2, <3>1, ItemsAssumption DEF SetValid
  <2>3. CASE ~(op[t].kind = "setAll" /\ op[t].item < NumAdc - 1)
    BY <1>1, <1>5, <2>3 DEF SetValid
  <2>4. QED
    BY <2>2, <2>3
<1>6. CASE Give(t) \/ Return(t)
  BY <1>1, <1>6 DEF Give, Return
<1>7. QED
  BY <1>2, <1>3, <1>4, <1>5, <1>6 DEF Step

\* What another task, the clock or a new call does adds nothing to a call.
LEMMA OthersLeaveIt ==
    ASSUME IInv, NEW t \in Tasks, [Next]_vars, ~Step(t), pc[t] # "idle"
    PROVE  StepsLeft(t)' = StepsLeft(t)
<1>1. UNCHANGED <<pc[t], op[t]>>
  <2>1. CASE UNCHANGED vars \/ Tick
    BY <2>1 DEF vars, local, Tick
  <2>2. ASSUME NEW u \in Tasks, Begin(u) PROVE UNCHANGED <<pc[t], op[t]>>
    <3>1. u # t
      BY <2>2 DEF Begin
    <3>2. QED
      BY <2>2, <3>1 DEF Begin, Goto, IInv, TypeOK
  <2>3. ASSUME NEW u \in Tasks \ {t}, Step(u) PROVE UNCHANGED <<pc[t], op[t]>>
    BY <2>3 DEF Step, CheckChannel, Take, TimeOut, Load, Store, SetValid, Give, Return,
       Goto, local, IInv, TypeOK
  <2>4. QED
    BY <2>1, <2>2, <2>3 DEF Next
<1>2. QED
  BY <1>1 DEF StepsLeft, Loops

Exactly(t, n) == StepsLeft(t) = n
Within(t, n) == StepsLeft(t) <= n
OneLess(t, n, m) ==
    /\ IInv /\ Exactly(t, n) /\ [Next]_vars => Exactly(t, n)' \/ Within(t, m)'
    /\ IInv /\ Exactly(t, n) /\ <<Step(t)>>_vars => Within(t, m)'
    /\ IInv => (Within(t, n) <=> Exactly(t, n) \/ Within(t, m))
    /\ IInv /\ Exactly(t, n) => ~(pc[t] = "idle")

LEMMA EachStepLess ==
    ASSUME NEW t \in Tasks, NEW m \in Nat, NEW n \in Nat, n = m + 1
    PROVE  OneLess(t, n, m)
<1> USE DEF Exactly, Within
<1>1. ASSUME IInv, Exactly(t, n), Step(t) PROVE Within(t, m)'
  BY <1>1, StepLeavesLess
<1>2. ASSUME IInv, Exactly(t, n) PROVE ~(pc[t] = "idle")
  BY <1>2, StepsLeftBounds
<1>3. ASSUME IInv, Exactly(t, n), [Next]_vars PROVE Exactly(t, n)' \/ Within(t, m)'
  BY <1>1, <1>2, <1>3, OthersLeaveIt
<1>4. ASSUME IInv PROVE Within(t, n) <=> Exactly(t, n) \/ Within(t, m)
  BY <1>4, StepsLeftBounds
<1>5. QED
  BY <1>1, <1>2, <1>3, <1>4 DEF OneLess

\* With the four channels of the board (model.h) every call returns, within 23
\* steps of its task and however the tasks contend for the mutex.
THEOREM CallsReturnOnBoard ==
    ASSUME NumAdc <= 4
    PROVE  SafeSpec /\ (\A t \in Tasks : Runs(t)) => CallsReturn
<1>1. ASSUME NEW t \in Tasks
      PROVE  SafeSpec /\ Runs(t) => (pc[t] # "idle" ~> pc[t] = "idle")
  <2>1. /\ OneLess(t, 1, 0) /\ OneLess(t, 2, 1) /\ OneLess(t, 3, 2)
        /\ OneLess(t, 4, 3) /\ OneLess(t, 5, 4) /\ OneLess(t, 6, 5)
        /\ OneLess(t, 7, 6) /\ OneLess(t, 8, 7)
    BY EachStepLess
  <2>2. /\ OneLess(t, 9, 8) /\ OneLess(t, 10, 9) /\ OneLess(t, 11, 10)
        /\ OneLess(t, 12, 11) /\ OneLess(t, 13, 12) /\ OneLess(t, 14, 13)
        /\ OneLess(t, 15, 14) /\ OneLess(t, 16, 15)
    BY EachStepLess
  <2>3. /\ OneLess(t, 17, 16) /\ OneLess(t, 18, 17) /\ OneLess(t, 19, 18)
        /\ OneLess(t, 20, 19) /\ OneLess(t, 21, 20) /\ OneLess(t, 22, 21)
        /\ OneLess(t, 23, 22)
    BY EachStepLess
  <2>4. IInv => Within(t, 23)
    BY StepsLeftBounds, ItemsAssumption DEF Within
  <2>5. IInv /\ Within(t, 0) => pc[t] = "idle"
    BY StepsLeftBounds DEF Within
  <2>6. SafeSpec /\ Runs(t) => (Within(t, 8) ~> Within(t, 0))
    BY <2>1, Invariance, PTL DEF SafeSpec, Runs, OneLess
  <2>7. SafeSpec /\ Runs(t) => (Within(t, 16) ~> Within(t, 8))
    BY <2>2, Invariance, PTL DEF SafeSpec, Runs, OneLess
  <2>8. SafeSpec /\ Runs(t) => (Within(t, 23) ~> Within(t, 16))
    BY <2>3, Invariance, PTL DEF SafeSpec, Runs, OneLess
  <2>9. QED
    BY <2>4, <2>5, <2>6, <2>7, <2>8, Invariance, PTL
<1>2. QED
  BY <1>1 DEF CallsReturn
=============================================================================
