--------------------------- MODULE CacheRegister ---------------------------
(***************************************************************************)
(* What the I/O cache promises its callers, without mutex or fields: a set *)
(* of registers, each holding one (value, source stamp, server stamp)      *)
(* entry.  A call is invoked, takes effect at one instant between its      *)
(* invocation and its return, or has no effect at all, and returns.        *)
(*                                                                         *)
(* Nothing here mentions a lock or a copy: IoCache is shown to implement   *)
(* this module although it moves entries one field at a time.              *)
(***************************************************************************)
EXTENDS Integers

CONSTANTS
    Tasks,      \* the tasks that call the cache
    Channels,   \* the ADC channels, which have a validity flag
    Words,      \* the discrete inputs word and the discrete outputs word
    Call,       \* the calls: records with a kind and an item
    Value,      \* what a word or a channel can hold
    Stamp,      \* the time stamps
    NoCall,     \* the call of a task that makes none
    Blank       \* the entry a call has before anything is known

VARIABLES
    reg,        \* the entry each item holds
    written,    \* the items some update has reached
    phase,      \* where each task is: "idle", "busy" (invoked) or "done"
    call,       \* the call each task is making
    given,      \* the entry the caller passes in (an update)
    result,     \* the entry a finished call hands back (a read)
    served      \* did the finished call take effect?

regVars == <<reg, written, phase, call, given, result, served>>

Items == Channels \cup Words
Entry == [val : Value, src : Stamp, srv : Stamp]

Init ==
    /\ reg = [i \in Items |-> Blank]
    /\ written = {}
    /\ phase = [t \in Tasks |-> "idle"]
    /\ call = [t \in Tasks |-> NoCall]
    /\ given = [t \in Tasks |-> Blank]
    /\ result = [t \in Tasks |-> Blank]
    /\ served = [t \in Tasks |-> FALSE]

Invoke(t) ==
    /\ phase[t] = "idle"
    /\ phase' = [phase EXCEPT ![t] = "busy"]
    /\ \E c \in Call : call' = [call EXCEPT ![t] = c]
    /\ \E e \in Entry : given' = [given EXCEPT ![t] = e]
    /\ UNCHANGED <<reg, written, result, served>>

Finish(t, r, s) ==
    /\ phase[t] = "busy"
    /\ phase' = [phase EXCEPT ![t] = "done"]
    /\ result' = [result EXCEPT ![t] = r]
    /\ served' = [served EXCEPT ![t] = s]
    /\ UNCHANGED <<call, given>>

\* A read returns the whole entry its item holds at that instant; a channel
\* is readable once it has been written.
Read(t) ==
    /\ call[t].kind = "get"
    /\ call[t].item \in Words \/ call[t].item \in written
    /\ Finish(t, reg[call[t].item], TRUE)
    /\ UNCHANGED <<reg, written>>

\* The items an update call replaces.
Targets(c) == IF c.kind = "setAll" THEN Channels ELSE {c.item}

\* An update replaces all its items at one instant: value and source stamp
\* as given, each with a server stamp of its own.
Write(t) ==
    /\ call[t].kind \in {"set", "setAll"}
    /\ Targets(call[t]) \subseteq Items
    /\ \E now \in [Targets(call[t]) -> Stamp] :
          reg' = [i \in Items |-> IF i \in Targets(call[t])
                                 THEN [given[t] EXCEPT !.srv = now[i]]
                                 ELSE reg[i]]
    /\ written' = written \cup Targets(call[t])
    /\ Finish(t, Blank, TRUE)

\* A call may also be given up: the mutex was not obtained in time, or the
\* channel is out of range or not yet valid.
Refuse(t) ==
    /\ Finish(t, Blank, FALSE)
    /\ UNCHANGED <<reg, written>>

Respond(t) ==
    /\ phase[t] = "done"
    /\ phase' = [phase EXCEPT ![t] = "idle"]
    /\ call' = [call EXCEPT ![t] = NoCall]
    /\ given' = [given EXCEPT ![t] = Blank]
    /\ result' = [result EXCEPT ![t] = Blank]
    /\ served' = [served EXCEPT ![t] = FALSE]
    /\ UNCHANGED <<reg, written>>

Complete(t) == Read(t) \/ Write(t) \/ Refuse(t) \/ Respond(t)

Next == \E t \in Tasks : Invoke(t) \/ Complete(t)

SafeSpec == Init /\ [][Next]_regVars

\* Every call that was made returns.
Spec == SafeSpec /\ \A t \in Tasks : WF_regVars(Complete(t))
=============================================================================
