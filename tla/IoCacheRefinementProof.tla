------------------------ MODULE IoCacheRefinementProof ------------------------
(***************************************************************************)
(* IoCache implements CacheRegister: the field-by-field copies under the   *)
(* mutex are atomic registers to every caller.  (That calls return is a    *)
(* liveness property and is checked with TLC.)                             *)
(***************************************************************************)
EXTENDS IoCacheProofs

\* The variables of the registers after a step that leaves the others alone.
LEMMA MappingTyping ==
    ASSUME TypeOK, NEW t \in Tasks
    PROVE  /\ AbsPhase[t] = "idle" <=> pc[t] = "idle"
           /\ AbsPhase[t] = "done" <=> pc[t] = "ret"
           /\ AbsPhase[t] = "busy" <=> pc[t] \notin {"idle", "ret"}
BY DEF TypeOK, AbsPhase

THEOREM InitRefines == Init => Registers!Init
BY DEF Init, Registers!Init, AbsPhase, AbsCall, AbsGiven, AbsResult, NoCall,
       Registers!Items, Items

LEMMA InvokeRefines ==
    ASSUME IInv, NEW t \in Tasks, Begin(t) PROVE Registers!Invoke(t)
<1> USE DEF IInv, TypeOK
<1>1. PICK c \in Calls[t], v \in Value :
        /\ op' = [op EXCEPT ![t] = c]
        /\ buf' = [buf EXCEPT ![t] = IF c.kind = "get" THEN Blank
                          ELSE [val |-> v, src |-> Now, srv |-> 0]]
        /\ pc' = [pc EXCEPT ![t] = IF Checked(c) THEN "check" ELSE "take"]
  BY ValueAssumption DEF Begin, Goto
<1>2. c \in Call /\ NoCall \in Call
  BY CallTyping, CallsAssumption
<1>3. pc[t] = "idle" /\ ok[t] = FALSE /\ ok' = ok /\ reg' = reg /\ written' = written
  BY DEF Begin, FrameOK, history
<1> DEFINE e == IF c.kind = "get" THEN Blank ELSE [val |-> v, src |-> Now, srv |-> 0]
<1>4. e \in Entry
  BY NowIsStamp, ClockAssumption, BlankIsEntry DEF Entry, Stamp
<1>5. AbsPhase[t] = "idle" /\ AbsPhase' = [AbsPhase EXCEPT ![t] = "busy"]
  BY <1>1, <1>3 DEF AbsPhase
<1>6. AbsCall' = [AbsCall EXCEPT ![t] = IF c.kind = "setAll" THEN NoCall ELSE c]
  BY <1>1, <1>2 DEF AbsCall
<1>7. AbsGiven' = [AbsGiven EXCEPT ![t] = e]
  BY <1>1 DEF AbsGiven
<1>8. AbsResult' = AbsResult
  BY <1>1, <1>3 DEF AbsResult
<1>9. QED
  BY <1>2, <1>3, <1>4, <1>5, <1>6, <1>7, <1>8 DEF Registers!Invoke, Registers!Entry, Entry

\* A call that fails its channel check, or waits in vain.
LEMMA RefuseRefines ==
    ASSUME IInv, NEW t \in Tasks,
           TimeOut(t) \/ (CheckChannel(t) /\ ~Acceptable(op[t]))
    PROVE  Registers!Refuse(t)
<1> USE DEF IInv, TypeOK
<1>1. /\ pc[t] \in {"take", "check"} /\ pc' = [pc EXCEPT ![t] = "ret"]
      /\ UNCHANGED <<reg, written, op, buf, ok>>
  BY DEF TimeOut, CheckChannel, Goto, local, history
<1>2. ok[t] = FALSE
  BY <1>1 DEF FrameOK
<1>3. AbsPhase[t] = "busy" /\ AbsPhase' = [AbsPhase EXCEPT ![t] = "done"]
  BY <1>1 DEF AbsPhase
<1>4. AbsCall' = AbsCall /\ AbsGiven' = AbsGiven
  BY <1>1 DEF AbsCall, AbsGiven
<1>5. AbsResult' = [AbsResult EXCEPT ![t] = Blank]
  BY <1>1, <1>2 DEF AbsResult
<1>6. ok' = [ok EXCEPT ![t] = FALSE]
  BY <1>1, <1>2
<1>7. QED
  BY <1>1, <1>3, <1>4, <1>5, <1>6 DEF Registers!Refuse, Registers!Finish

\* The steps no caller can see.
LEMMA CopyingStutters ==
    ASSUME IInv, NEW t \in Tasks,
           \/ CheckChannel(t) /\ Acceptable(op[t])
           \/ Take(t) \/ Load(t) \/ Store(t) \/ SetValid(t)
    PROVE  UNCHANGED Registers!regVars
<1> USE DEF IInv, TypeOK
<1>1. reg' = reg /\ written' = written /\ ok' = ok
  BY DEF CheckChannel, Take, Load, Store, SetValid, local, history
<1>2. pc[t] \in Inside \cup {"check", "take"} /\ ok[t] = FALSE
  BY DEF CheckChannel, Take, Load, Store, SetValid, FrameOK, Inside, Field
<1>3. pc'[t] \in Inside \cup {"take"} /\ \A u \in Tasks \ {t} : pc'[u] = pc[u]
  <2>1. CASE Load(t)
    BY <2>1, LoadEffect DEF Inside, Field
  <2>2. CASE Store(t)
    BY <2>2, StoreEffect DEF Inside, Field
  <2>3. CASE SetValid(t)
    BY <2>3, SetValidEffect DEF Inside, Field
  <2>4. QED
    BY <2>1, <2>2, <2>3 DEF CheckChannel, Take, Goto, Inside, Field
<1>4. AbsPhase' = AbsPhase
  BY <1>2, <1>3 DEF AbsPhase, Inside, Field
<1>5. /\ \A u \in Tasks : op'[u].kind = op[u].kind
      /\ \A u \in Tasks : op[u].kind # "setAll" => op'[u] = op[u]
      /\ \A u \in Tasks : op[u].kind # "get" => buf'[u] = buf[u]
      /\ \A u \in Tasks \ {t} : buf'[u] = buf[u]
  <2>1. CASE Load(t)
    BY <2>1, LoadEffect DEF Load
  <2>2. CASE SetValid(t)
    <3>1. buf' = buf /\ (op[t].kind # "setAll" => op' = op)
      BY <2>2 DEF SetValid
    <3>2. QED
      BY <2>2, <3>1, SetValidEffect
  <2>3. QED
    BY <2>1, <2>2 DEF CheckChannel, Take, Store, local
<1>6. AbsCall' = AbsCall /\ AbsGiven' = AbsGiven
  BY <1>5 DEF AbsCall, AbsGiven
<1>7. AbsResult' = AbsResult
  BY <1>1, <1>2, <1>5 DEF AbsResult
<1>8. QED
  BY <1>1, <1>4, <1>6, <1>7 DEF Registers!regVars

\* Releasing the mutex is the instant at which the call takes effect.
LEMMA GiveRefines ==
    ASSUME IInv, NEW t \in Tasks, Give(t)
    PROVE  Registers!Read(t) \/ Registers!Write(t)
<1> USE DEF IInv, TypeOK
<1>1. /\ pc[t] = "give" /\ pc' = [pc EXCEPT ![t] = "ret"]
      /\ ok' = [ok EXCEPT ![t] = TRUE] /\ op' = op /\ buf' = buf
      /\ op[t].item \in Items /\ ok[t] = FALSE
  BY DEF Give, Goto, FrameOK, Inside
<1>2. AbsPhase[t] = "busy" /\ AbsPhase' = [AbsPhase EXCEPT ![t] = "done"]
  BY <1>1 DEF AbsPhase
<1>3. AbsCall' = AbsCall /\ AbsGiven' = AbsGiven
  BY <1>1 DEF AbsCall, AbsGiven
<1>4. CASE op[t].kind = "get"
  <2>1. buf[t] = reg[op[t].item]
    BY <1>1, <1>4, InvReadIsCommitted DEF ReadIsCommitted
  <2>2. op[t].item \in Words \/ op[t].item \in written
    BY <1>1, <1>4 DEF GetterSawValid, Inside, Items
  <2>3. AbsCall[t] = op[t]
    BY <1>4 DEF AbsCall
  <2>4. AbsResult' = [AbsResult EXCEPT ![t] = reg[op[t].item]]
    BY <1>1, <1>4, <2>1 DEF AbsResult
  <2>5. reg' = reg /\ written' = written
    BY <1>4 DEF Give, history
  <2>6. Registers!Read(t)
    BY <1>1, <1>2, <1>3, <1>4, <2>2, <2>3, <2>4, <2>5
       DEF Registers!Read, Registers!Finish
  <2>7. QED
    BY <2>6
<1>5. CASE op[t].kind # "get"
  <2>1. /\ AbsCall[t].kind \in {"set", "setAll"} /\ AbsGiven[t] = buf[t]
        /\ Registers!Targets(AbsCall[t]) = Targets(op[t])
    BY <1>5, CallTyping DEF AbsCall, AbsGiven, Registers!Targets, Targets, NoCall
  <2>2. Targets(op[t]) \subseteq Items /\ Targets(op[t]) \subseteq Copied(t)
    BY <1>1, ItemsTyping, ItemsAssumption DEF Targets, Copied, FrameOK, Channels
  <2> DEFINE now == [i \in Targets(op[t]) |-> cache[i].srv]
  <2>3. now \in [Targets(op[t]) -> Stamp]
    BY <2>2 DEF Entry
  <2>4. \A i \in Targets(op[t]) : cache[i] = [buf[t] EXCEPT !.srv = now[i]]
    <3> SUFFICES ASSUME NEW i \in Targets(op[t])
                 PROVE  cache[i] = [buf[t] EXCEPT !.srv = now[i]]
      OBVIOUS
    <3>1. cache[i].val = buf[t].val /\ cache[i].src = buf[t].src
      BY <1>1, <1>5, <2>2 DEF SetterCopy, Setting, Inside
    <3>2. cache[i] \in Entry /\ buf[t] \in Entry
      BY <2>2
    <3>3. QED
      BY <3>1, <3>2 DEF Entry
  <2>5. reg' = [i \in Items |-> IF i \in Targets(op[t])
                                THEN [buf[t] EXCEPT !.srv = now[i]] ELSE reg[i]]
    BY <1>5, <2>4 DEF Give
  <2>6. written' = written \cup Targets(op[t])
    BY <1>5 DEF Give
  <2>7. AbsResult' = [AbsResult EXCEPT ![t] = Blank]
    BY <1>1, <1>5 DEF AbsResult
  <2> HIDE DEF now
  <2>8. Registers!Write(t)
    BY <1>1, <1>2, <1>3, <2>1, <2>2, <2>3, <2>5, <2>6, <2>7
       DEF Registers!Write, Registers!Finish, Registers!Items, Items
  <2>9. QED
    BY <2>8
<1>6. QED
  BY <1>4, <1>5

LEMMA ReturnRefines ==
    ASSUME IInv, NEW t \in Tasks, Return(t) PROVE Registers!Respond(t)
<1> USE DEF IInv, TypeOK
<1>1. AbsPhase[t] = "done" /\ AbsPhase' = [AbsPhase EXCEPT ![t] = "idle"]
  BY DEF Return, Goto, AbsPhase
<1>2. AbsCall' = [AbsCall EXCEPT ![t] = NoCall]
  BY DEF Return, AbsCall, NoCall
<1>3. AbsGiven' = [AbsGiven EXCEPT ![t] = Blank]
  BY DEF Return, AbsGiven, NoCall
<1>4. AbsResult' = [AbsResult EXCEPT ![t] = Blank]
  BY DEF Return, AbsResult, NoCall
<1>5. QED
  BY <1>1, <1>2, <1>3, <1>4 DEF Return, Registers!Respond, history

\* Every behaviour of the cache is a behaviour of the registers: the cache
\* functions are atomic although nothing but the mutex makes them so.
THEOREM CacheIsRegisters == SafeSpec => Registers!SafeSpec
<1>1. Init => Registers!Init
  BY InitRefines
<1>2. IInv /\ [Next]_vars => [Registers!Next]_(Registers!regVars)
  <2> SUFFICES ASSUME IInv, [Next]_vars
               PROVE  Registers!Next \/ UNCHANGED Registers!regVars
    OBVIOUS
  <2>1. CASE UNCHANGED <<pc, local, history>>
    BY <2>1 DEF local, history, Registers!regVars, AbsPhase, AbsCall, AbsGiven,
                AbsResult
  <2>2. ASSUME NEW t \in Tasks, Begin(t) \/ Step(t)
        PROVE  Registers!Next \/ UNCHANGED Registers!regVars
    <3>1. \/ Registers!Invoke(t) \/ Registers!Complete(t)
          \/ UNCHANGED Registers!regVars
      BY <2>2, InvokeRefines, RefuseRefines, CopyingStutters, GiveRefines, ReturnRefines
         DEF Step, Registers!Complete
    <3>2. QED
      BY <3>1 DEF Registers!Next
  <2>3. QED
    BY <2>1, <2>2 DEF Next, Tick, vars
<1>3. QED
  BY <1>1, <1>2, Invariance, PTL DEF SafeSpec, Registers!SafeSpec
=============================================================================
