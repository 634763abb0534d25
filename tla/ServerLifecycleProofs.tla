------------------------ MODULE ServerLifecycleProofs ------------------------
(***************************************************************************)
(* Safety of the server's life cycle, and what it comes to in the end, for *)
(* any number of failures, lost links, assigned addresses and waits for    *)
(* the time.                                                               *)
(***************************************************************************)
EXTENDS ServerLifecycle, TLAPS

\* The inductive invariant behind the safety properties: no server task before
\* isServerCreated, one after it, none that goes on after MaxWdtErrors errors.
CreatedFirst == ~isServerCreated => \A s \in Servers : server[s] = "none"
OnlyOne ==
    \A s, r \in Servers : server[s] # "none" /\ server[r] # "none" => s = r
ErrorsBelow ==
    \A s \in Servers : server[s] \notin {"shutdown", "ended", "stillborn"}
                         => errors[s] < MaxWdtErrors
IInv == TypeOK /\ CreatedFirst /\ OnlyOne /\ ErrorsBelow

-----------------------------------------------------------------------------
USE ServersAssumption, BoundsAssumption

\* The invariant holds when the processor starts.
LEMMA InitInv == Init => IInv
<1> SUFFICES ASSUME Init PROVE IInv
  OBVIOUS
<1>1. TypeOK
  <2>1. events \in Seq({"gotIp", "disconnected"})
    BY DEF Init
  <2>2. server \in [Servers -> {"none", "watch", "new", "startup", "check",
                                "iterate", "shutdown", "ended", "stillborn"}]
    BY DEF Init
  <2>3. errors \in [Servers -> 0..MaxWdtErrors]
    BY DEF Init
  <2>4. /\ retry \in 0..NtpRetries
        /\ faults \in 0..MaxFaults /\ incidents \in 0..MaxIncidents
    BY DEF Init
  <2>5. QED
    BY <2>1, <2>2, <2>3, <2>4 DEF Init, TypeOK
<1>2. QED
  BY <1>1 DEF Init, IInv, CreatedFirst, OnlyOne, ErrorsBelow

\* Types: every action.
LEMMA TypeStep == IInv /\ [Next]_vars => TypeOK'
<1> SUFFICES ASSUME IInv, [Next]_vars PROVE TypeOK'
  OBVIOUS
<1> USE DEF IInv, TypeOK, net, flags, tasks, Fails, Incident, Post, Goto
<1>1. CASE UNCHANGED vars
  BY <1>1 DEF vars
<1>2. CASE Boot
  BY <1>2 DEF Boot
<1>3. CASE Connected
  BY <1>3 DEF Connected
<1>4. CASE Join
  BY <1>4 DEF Join
<1>5. CASE LoseLink
  BY <1>5 DEF LoseLink
<1>6. CASE NewAddress
  BY <1>6 DEF NewAddress
<1>7. CASE Dispatch
  BY <1>7 DEF Dispatch
<1>8. CASE StartNtp
  <2>1. watched' \subseteq Servers \cup {"events"} /\ faults' \in 0..MaxFaults
    BY <1>8 DEF StartNtp
  <2>2. retry' \in 0..NtpRetries
    BY <1>8 DEF StartNtp
  <2>3. sntp' \in BOOLEAN /\ handler' \in {"ntp", "create"}
    BY <1>8, Zenon DEF StartNtp
  <2>4. QED
    BY <1>8, <2>1, <2>2, <2>3 DEF StartNtp
<1>9. CASE WaitNtp
  BY <1>9 DEF WaitNtp
<1>10. CASE LeaveNtp
  BY <1>10 DEF LeaveNtp
<1>11. CASE CreateServer
  <2>1. server' \in [Servers -> {"none", "watch", "new", "startup", "check",
                                 "iterate", "shutdown", "ended", "stillborn"}]
    BY <1>11 DEF CreateServer
  <2>2. errors' \in [Servers -> 0..MaxWdtErrors]
    BY <1>11 DEF CreateServer
  <2>3. faults' \in 0..MaxFaults
    BY <1>11 DEF CreateServer
  <2>4. isServerCreated' \in BOOLEAN
    BY <1>11, Zenon DEF CreateServer
  <2>5. QED
    BY <1>11, <2>1, <2>2, <2>3, <2>4 DEF CreateServer
<1>12. CASE OnGotIp
  BY <1>12 DEF OnGotIp
<1>13. CASE StopServer
  BY <1>13 DEF StopServer
<1>14. CASE Rejoin
  BY <1>14 DEF Rejoin
<1>15. CASE Abort
  <2>1. /\ server' \in [Servers -> {"none", "watch", "new", "startup", "check",
                                    "iterate", "shutdown", "ended", "stillborn"}]
        /\ errors' \in [Servers -> 0..MaxWdtErrors]
    BY <1>15 DEF Abort
  <2>2. faults' \in 0..MaxFaults /\ events' \in Seq({"gotIp", "disconnected"})
    BY <1>15 DEF Abort
  <2>3. retry' \in 0..NtpRetries /\ incidents' \in 0..MaxIncidents
    BY <1>15 DEF Abort
  <2>4. QED
    BY <1>15, <2>1, <2>2, <2>3, Zenon DEF Abort
<1>16. ASSUME NEW s \in Servers, Serve(s) PROVE TypeOK'
  <2>1. CASE Watch(s)
    BY <2>1 DEF Watch
  <2>2. CASE NewServer(s)
    BY <2>2 DEF NewServer
  <2>3. CASE Startup(s)
    <3>1. server' \in [Servers -> {"none", "watch", "new", "startup", "check",
                                   "iterate", "shutdown", "ended", "stillborn"}]
      BY <2>3 DEF Startup
    <3>2. watched' \subseteq Servers \cup {"events"} /\ faults' \in 0..MaxFaults
      BY <2>3 DEF Startup
    <3>3. QED
      BY <2>3, <3>1, <3>2 DEF Startup
  <2>4. CASE CheckRunning(s)
    BY <2>4 DEF CheckRunning
  <2>5. CASE Iterate(s)
    BY <2>5 DEF Iterate, ErrorsBelow
  <2>6. CASE Shutdown(s)
    BY <2>6 DEF Shutdown
  <2>7. QED
    BY <1>16, <2>1, <2>2, <2>3, <2>4, <2>5, <2>6 DEF Serve
<1>17. QED
  BY <1>1, <1>2, <1>3, <1>4, <1>5, <1>6, <1>7, <1>8, <1>9,
     <1>10, <1>11, <1>12, <1>13, <1>14, <1>15, <1>16 DEF Next, EventLoop

\* No task exists before isServerCreated is set.
LEMMA CreatedStep == IInv /\ [Next]_vars => CreatedFirst'
<1> SUFFICES ASSUME IInv, [Next]_vars PROVE CreatedFirst'
  OBVIOUS
<1> USE DEF IInv, TypeOK, CreatedFirst, net, flags, tasks, Goto
<1>1. CASE UNCHANGED vars
  BY <1>1 DEF vars
<1>2. CASE Boot
  BY <1>2 DEF Boot
<1>3. CASE Connected
  BY <1>3 DEF Connected
<1>4. CASE Join
  BY <1>4 DEF Join
<1>5. CASE LoseLink
  BY <1>5 DEF LoseLink
<1>6. CASE NewAddress
  BY <1>6 DEF NewAddress
<1>7. CASE Dispatch
  BY <1>7 DEF Dispatch
<1>8. CASE StartNtp
  BY <1>8 DEF StartNtp
<1>9. CASE WaitNtp
  BY <1>9 DEF WaitNtp
<1>10. CASE LeaveNtp
  BY <1>10 DEF LeaveNtp
<1>11. CASE CreateServer
  BY <1>11 DEF CreateServer
<1>12. CASE OnGotIp
  BY <1>12 DEF OnGotIp
<1>13. CASE StopServer
  BY <1>13 DEF StopServer
<1>14. CASE Rejoin
  BY <1>14 DEF Rejoin
<1>15. CASE Abort
  BY <1>15 DEF Abort
<1>16. ASSUME NEW s \in Servers, Serve(s) PROVE CreatedFirst'
  <2>1. CASE Watch(s)
    BY <2>1 DEF Watch
  <2>2. CASE NewServer(s)
    BY <2>2 DEF NewServer
  <2>3. CASE Startup(s)
    BY <2>3 DEF Startup
  <2>4. CASE CheckRunning(s)
    BY <2>4 DEF CheckRunning
  <2>5. CASE Iterate(s)
    BY <2>5 DEF Iterate
  <2>6. CASE Shutdown(s)
    BY <2>6 DEF Shutdown
  <2>7. QED
    BY <1>16, <2>1, <2>2, <2>3, <2>4, <2>5, <2>6 DEF Serve
<1>17. QED
  BY <1>1, <1>2, <1>3, <1>4, <1>5, <1>6, <1>7, <1>8, <1>9,
     <1>10, <1>11, <1>12, <1>13, <1>14, <1>15, <1>16 DEF Next, EventLoop

\* A task is created only where there is none.
LEMMA OneStep == IInv /\ [Next]_vars => OnlyOne'
<1> SUFFICES ASSUME IInv, [Next]_vars PROVE OnlyOne'
  OBVIOUS
<1> USE DEF IInv, TypeOK, OnlyOne, net, flags, tasks, Goto
<1>1. CASE UNCHANGED vars
  BY <1>1 DEF vars
<1>2. CASE Boot
  BY <1>2 DEF Boot
<1>3. CASE Connected
  BY <1>3 DEF Connected
<1>4. CASE Join
  BY <1>4 DEF Join
<1>5. CASE LoseLink
  BY <1>5 DEF LoseLink
<1>6. CASE NewAddress
  BY <1>6 DEF NewAddress
<1>7. CASE Dispatch
  BY <1>7 DEF Dispatch
<1>8. CASE StartNtp
  BY <1>8 DEF StartNtp
<1>9. CASE WaitNtp
  BY <1>9 DEF WaitNtp
<1>10. CASE LeaveNtp
  BY <1>10 DEF LeaveNtp
<1>11. CASE CreateServer
  BY <1>11 DEF CreateServer, CreatedFirst
<1>12. CASE OnGotIp
  BY <1>12 DEF OnGotIp
<1>13. CASE StopServer
  BY <1>13 DEF StopServer
<1>14. CASE Rejoin
  BY <1>14 DEF Rejoin
<1>15. CASE Abort
  BY <1>15 DEF Abort
<1>16. ASSUME NEW s \in Servers, Serve(s) PROVE OnlyOne'
  <2>1. CASE Watch(s)
    BY <2>1 DEF Watch
  <2>2. CASE NewServer(s)
    BY <2>2 DEF NewServer
  <2>3. CASE Startup(s)
    BY <2>3 DEF Startup
  <2>4. CASE CheckRunning(s)
    BY <2>4 DEF CheckRunning
  <2>5. CASE Iterate(s)
    BY <2>5 DEF Iterate
  <2>6. CASE Shutdown(s)
    BY <2>6 DEF Shutdown
  <2>7. QED
    BY <1>16, <2>1, <2>2, <2>3, <2>4, <2>5, <2>6 DEF Serve
<1>17. QED
  BY <1>1, <1>2, <1>3, <1>4, <1>5, <1>6, <1>7, <1>8, <1>9,
     <1>10, <1>11, <1>12, <1>13, <1>14, <1>15, <1>16 DEF Next, EventLoop

\* A server goes on only below the limit of errors.
LEMMA ErrorsStep == IInv /\ [Next]_vars => ErrorsBelow'
<1> SUFFICES ASSUME IInv, [Next]_vars PROVE ErrorsBelow'
  OBVIOUS
<1> USE DEF IInv, TypeOK, ErrorsBelow, net, flags, tasks, Goto
<1>1. CASE UNCHANGED vars
  BY <1>1 DEF vars
<1>2. CASE Boot
  BY <1>2 DEF Boot
<1>3. CASE Connected
  BY <1>3 DEF Connected
<1>4. CASE Join
  BY <1>4 DEF Join
<1>5. CASE LoseLink
  BY <1>5 DEF LoseLink
<1>6. CASE NewAddress
  BY <1>6 DEF NewAddress
<1>7. CASE Dispatch
  BY <1>7 DEF Dispatch
<1>8. CASE StartNtp
  BY <1>8 DEF StartNtp
<1>9. CASE WaitNtp
  BY <1>9 DEF WaitNtp
<1>10. CASE LeaveNtp
  BY <1>10 DEF LeaveNtp
<1>11. CASE CreateServer
  BY <1>11 DEF CreateServer
<1>12. CASE OnGotIp
  BY <1>12 DEF OnGotIp
<1>13. CASE StopServer
  BY <1>13 DEF StopServer
<1>14. CASE Rejoin
  BY <1>14 DEF Rejoin
<1>15. CASE Abort
  BY <1>15 DEF Abort
<1>16. ASSUME NEW s \in Servers, Serve(s) PROVE ErrorsBelow'
  <2>1. CASE Watch(s)
    BY <2>1 DEF Watch
  <2>2. CASE NewServer(s)
    BY <2>2 DEF NewServer
  <2>3. CASE Startup(s)
    BY <2>3 DEF Startup
  <2>4. CASE CheckRunning(s)
    BY <2>4 DEF CheckRunning
  <2>5. CASE Iterate(s)
    BY <2>5 DEF Iterate
  <2>6. CASE Shutdown(s)
    BY <2>6 DEF Shutdown
  <2>7. QED
    BY <1>16, <2>1, <2>2, <2>3, <2>4, <2>5, <2>6 DEF Serve
<1>17. QED
  BY <1>1, <1>2, <1>3, <1>4, <1>5, <1>6, <1>7, <1>8, <1>9,
     <1>10, <1>11, <1>12, <1>13, <1>14, <1>15, <1>16 DEF Next, EventLoop

\* What the watchdog watches is at work: every action preserves it.
LEMMA WatchedStep ==
    ASSUME IInv, WatchedWhileWorking, [Next]_vars
    PROVE  WatchedWhileWorking'
<1> USE DEF IInv, TypeOK, WatchedWhileWorking, Live, net, flags, tasks, Goto
<1>1. CASE UNCHANGED vars
  BY <1>1 DEF vars
<1>2. CASE Boot
  BY <1>2 DEF Boot
<1>3. CASE Connected
  BY <1>3 DEF Connected
<1>4. CASE Join
  BY <1>4 DEF Join
<1>5. CASE LoseLink
  BY <1>5 DEF LoseLink
<1>6. CASE NewAddress
  BY <1>6 DEF NewAddress
<1>7. CASE Dispatch
  BY <1>7 DEF Dispatch
<1>8. CASE StartNtp
  BY <1>8 DEF StartNtp
<1>9. CASE WaitNtp
  BY <1>9 DEF WaitNtp
<1>10. CASE LeaveNtp
  BY <1>10 DEF LeaveNtp
<1>11. CASE CreateServer
  BY <1>11 DEF CreateServer
<1>12. CASE OnGotIp
  BY <1>12 DEF OnGotIp
<1>13. CASE StopServer
  BY <1>13 DEF StopServer
<1>14. CASE Rejoin
  BY <1>14 DEF Rejoin
<1>15. CASE Abort
  BY <1>15 DEF Abort
<1>16. ASSUME NEW s \in Servers, Serve(s) PROVE WatchedWhileWorking'
  <2>1. CASE Watch(s)
    BY <2>1 DEF Watch
  <2>2. CASE NewServer(s)
    BY <2>2 DEF NewServer
  <2>3. CASE Startup(s)
    BY <2>3 DEF Startup
  <2>4. CASE CheckRunning(s)
    BY <2>4 DEF CheckRunning
  <2>5. CASE Iterate(s)
    BY <2>5 DEF Iterate
  <2>6. CASE Shutdown(s)
    BY <2>6 DEF Shutdown
  <2>7. QED
    BY <1>16, <2>1, <2>2, <2>3, <2>4, <2>5, <2>6 DEF Serve
<1>17. QED
  BY <1>1, <1>2, <1>3, <1>4, <1>5, <1>6, <1>7, <1>8, <1>9,
     <1>10, <1>11, <1>12, <1>13, <1>14, <1>15, <1>16 DEF Next, EventLoop

\* Every step of the tasks and of the network preserves the invariant.
THEOREM Invariance == SafeSpec => []IInv
<1>1. IInv /\ [Next]_vars => IInv'
  BY TypeStep, CreatedStep, OneStep, ErrorsStep DEF IInv
<1>2. QED
  BY InitInv, <1>1, PTL DEF SafeSpec

\* Every variable of the life cycle keeps its type: in particular a server
\* task never counts past max_watchdog_errors.
THEOREM TypeCorrect == SafeSpec => []TypeOK
BY Invariance, PTL DEF IInv

\* There is never a second server task, however often an address is assigned.
THEOREM OneServer == SafeSpec => []AtMostOneServer
<1>1. IInv => AtMostOneServer
  BY DEF IInv, OnlyOne, AtMostOneServer, Live
<1>2. QED
  BY <1>1, Invariance, PTL

\* The watchdog never waits for a task that has ended, but for the exit after
\* UA_Server_new, nor for an idle event loop.
THEOREM WatchdogIsRight == SafeSpec => []WatchedWhileWorking
<1>1. Init => WatchedWhileWorking
  BY DEF Init, WatchedWhileWorking
<1>2. IInv /\ WatchedWhileWorking /\ [Next]_vars => WatchedWhileWorking'
  BY WatchedStep
<1>3. QED
  BY <1>1, <1>2, Invariance, PTL DEF SafeSpec

-----------------------------------------------------------------------------
(* The network's events.                                                   *)

Queued(event) == \E i \in 1..Len(events) : events[i] = event
Once(event) ==
    \A i, j \in 1..Len(events) : events[i] = event /\ events[j] = event => i = j

\* A lost link is known to the event loop, once, until on_wifi_disconnect has
\* asked for another.
OutageKnown ==
    /\ link = "down" <=> handler \in {"stop", "rejoin"} \/ Queued("disconnected")
    /\ handler \in {"stop", "rejoin"} => ~Queued("disconnected")
    /\ Once("disconnected")
    /\ app = "boot" => link = "off"

\* While app_main waits and the station has an address, the address is on its
\* way to the handlers, or the bit app_main waits for is set.
AddressKnown ==
    link = "up" /\ app = "wait"
        => gotIp \/ handler \in {"time", "ntp", "create", "ip"} \/ Queued("gotIp")

LEMMA QueuePosted ==
    ASSUME TypeOK, NEW e \in {"gotIp", "disconnected"}, Post(e)
    PROVE  /\ Len(events') = Len(events) + 1 /\ Len(events) \in Nat
           /\ \A i \in 1..Len(events) : events'[i] = events[i]
           /\ events'[Len(events) + 1] = e
  BY DEF TypeOK, Post

LEMMA QueueTaken ==
    ASSUME TypeOK, events # <<>>, events' = Tail(events)
    PROVE  /\ Len(events') = Len(events) - 1 /\ Len(events) \in Nat \ {0}
           /\ \A i \in 1..Len(events') : events'[i] = events[i + 1]
           /\ Head(events) = events[1] /\ Head(events) \in {"gotIp", "disconnected"}
  BY DEF TypeOK

\* Taking the first event leaves the others.
LEMMA QueueShifted ==
    ASSUME TypeOK, events # <<>>, events' = Tail(events), NEW e
    PROVE  /\ Queued(e) <=> Head(events) = e \/ Queued(e)'
           /\ Once(e) => Once(e)'
           /\ Once(e) /\ Head(events) = e => ~Queued(e)'
<1> USE QueueTaken
<1>1. ASSUME Queued(e), Head(events) # e PROVE Queued(e)'
  <2>1. PICK i \in 1..Len(events) : events[i] = e
    BY <1>1 DEF Queued
  <2>2. i - 1 \in 1..Len(events') /\ events'[i - 1] = e
    BY <1>1, <2>1
  <2>3. QED
    BY <2>2 DEF Queued
<1>2. Queued(e)' \/ Head(events) = e => Queued(e)
  <2>1. ASSUME NEW i \in 1..Len(events'), events'[i] = e PROVE Queued(e)
    <3>1. i + 1 \in 1..Len(events) /\ events[i + 1] = e
      BY <2>1
    <3>2. QED
      BY <3>1 DEF Queued
  <2>2. Head(events) = e => Queued(e)
    BY DEF Queued
  <2>3. QED
    BY <2>1, <2>2 DEF Queued
<1>3. ASSUME Once(e) PROVE Once(e)'
  <2>1. SUFFICES ASSUME NEW i \in 1..Len(events'), NEW j \in 1..Len(events'),
                        events'[i] = e, events'[j] = e
                 PROVE  i = j
    BY DEF Once
  <2>2. i + 1 \in 1..Len(events) /\ j + 1 \in 1..Len(events)
    OBVIOUS
  <2>3. QED
    BY <1>3, <2>1, <2>2 DEF Once
<1>4. ASSUME Once(e), Head(events) = e, NEW i \in 1..Len(events'), events'[i] = e
      PROVE FALSE
  <2>1. i + 1 \in 1..Len(events) /\ events[i + 1] = e /\ 1 \in 1..Len(events)
    BY <1>4
  <2>2. QED
    BY <1>4, <2>1 DEF Once
<1>5. QED
  BY <1>1, <1>2, <1>3, <1>4 DEF Queued

LEMMA OutageStep == TypeOK /\ OutageKnown /\ [Next]_vars => OutageKnown'
<1> SUFFICES ASSUME TypeOK, OutageKnown, [Next]_vars PROVE OutageKnown'
  OBVIOUS
<1> USE DEF OutageKnown, net, flags, tasks
<1>1. CASE UNCHANGED <<app, link, events, handler>>
  BY <1>1 DEF Queued, Once
<1>2. CASE Boot
  BY <1>2 DEF Boot, Queued, Once
<1>3. CASE Join
  <2>1. PICK e \in {"gotIp"} : Post(e)
    BY <1>3 DEF Join
  <2>2. QED
    BY <1>3, <2>1, QueuePosted DEF Join, Queued, Once
<1>4. CASE LoseLink
  BY <1>4, QueuePosted DEF LoseLink, Queued, Once
<1>5. CASE NewAddress
  BY <1>5, QueuePosted DEF NewAddress, Queued, Once
<1>6. CASE Dispatch
  BY <1>6, QueueShifted, QueueTaken DEF Dispatch
<1>7. CASE StartNtp \/ LeaveNtp \/ CreateServer \/ OnGotIp
  BY <1>7 DEF StartNtp, LeaveNtp, CreateServer, OnGotIp, Queued, Once
<1>8. CASE StopServer \/ Rejoin
  BY <1>8 DEF StopServer, Rejoin, Queued, Once
<1>9. CASE Abort
  BY <1>9 DEF Abort, Queued, Once
<1>10. CASE Connected \/ WaitNtp \/ \E s \in Servers : Serve(s)
  BY <1>10 DEF Connected, WaitNtp, Serve, Watch, NewServer, Startup,
     CheckRunning, Iterate, Shutdown, Queued, Once
<1>11. QED
  BY <1>1, <1>2, <1>3, <1>4, <1>5, <1>6, <1>7, <1>8, <1>9, <1>10
     DEF Next, EventLoop, vars

\* No lost link is forgotten or handled twice: the station is down exactly as
\* long as the event loop has one disconnection to deal with.  This is what
\* lets the station come back.
THEOREM NoOutageForgotten == SafeSpec => []OutageKnown
<1>1. Init => OutageKnown
  BY DEF Init, OutageKnown, Queued, Once
<1>2. QED
  BY <1>1, OutageStep, TypeCorrect, PTL DEF SafeSpec

LEMMA AddressStep == TypeOK /\ AddressKnown /\ [Next]_vars => AddressKnown'
<1> SUFFICES ASSUME TypeOK, AddressKnown, [Next]_vars PROVE AddressKnown'
  OBVIOUS
<1> USE DEF AddressKnown, net, flags, tasks
<1>1. CASE UNCHANGED <<app, link, events, handler, gotIp>>
  BY <1>1 DEF Queued
<1>2. CASE Boot \/ Connected
  BY <1>2 DEF Boot, Connected, Queued
<1>3. CASE Join
  BY <1>3, QueuePosted DEF Join, Queued
<1>4. CASE LoseLink
  BY <1>4 DEF LoseLink
<1>5. CASE NewAddress
  BY <1>5, QueuePosted DEF NewAddress, Queued
<1>6. CASE Dispatch
  BY <1>6, QueueShifted DEF Dispatch
<1>7. CASE StartNtp \/ LeaveNtp \/ CreateServer \/ OnGotIp
  BY <1>7 DEF StartNtp, LeaveNtp, CreateServer, OnGotIp, Queued
<1>8. CASE StopServer \/ Rejoin
  BY <1>8 DEF StopServer, Rejoin, Queued
<1>9. CASE Abort
  BY <1>9 DEF Abort
<1>10. CASE WaitNtp \/ \E s \in Servers : Serve(s)
  BY <1>10, <1>1 DEF WaitNtp, Serve, Watch, NewServer, Startup,
     CheckRunning, Iterate, Shutdown, Queued
<1>11. QED
  BY <1>1, <1>2, <1>3, <1>4, <1>5, <1>6, <1>7, <1>8, <1>9, <1>10
     DEF Next, EventLoop, vars

\* app_main, which waits without a timeout, is never left waiting for an address
\* the station already has and no handler will report.
THEOREM NoAddressForgotten == SafeSpec => []AddressKnown
<1>1. Init => AddressKnown
  BY DEF Init, AddressKnown
<1>2. QED
  BY <1>1, AddressStep, TypeCorrect, PTL DEF SafeSpec

-----------------------------------------------------------------------------
(* A server that is told to stop.                                          *)

\* The steps a server task still takes when it finds running FALSE.
StepsLeft(label) ==
    CASE label = "watch" -> 5
      [] label = "new" -> 4
      [] label \in {"startup", "iterate"} -> 3
      [] label = "check" -> 2
      [] label = "shutdown" -> 1
      [] OTHER -> 0

\* Once told, always told; and each further step is one of at most five.
StopIsFinal ==
    [][~running /\ app' # "boot" =>
         /\ ~running'
         /\ \A s \in Servers : server'[s] # server[s] /\ Live(s)
               => StepsLeft(server'[s]) < StepsLeft(server[s])]_vars

LEMMA TaskStep ==
    ASSUME TypeOK, NEW s \in Servers, Serve(s), ~running
    PROVE  /\ ~running' /\ \A r \in Servers \ {s} : server'[r] = server[r]
           /\ StepsLeft(server'[s]) < StepsLeft(server[s])
<1> USE DEF TypeOK, Goto, flags, StepsLeft
<1>1. CASE Watch(s)
  BY <1>1 DEF Watch
<1>2. CASE NewServer(s)
  BY <1>2 DEF NewServer
<1>3. CASE Startup(s)
  BY <1>3 DEF Startup
<1>4. CASE CheckRunning(s)
  BY <1>4 DEF CheckRunning
<1>5. CASE Iterate(s)
  BY <1>5 DEF Iterate
<1>6. CASE Shutdown(s)
  BY <1>6 DEF Shutdown
<1>7. QED
  BY <1>1, <1>2, <1>3, <1>4, <1>5, <1>6 DEF Serve

\* The other steps leave live tasks and the flag as they are, or reset the board.
LEMMA OtherStep ==
    ASSUME TypeOK, [Next]_vars, \A s \in Servers : ~Serve(s), ~running
    PROVE  \/ /\ ~running'
              /\ \A s \in Servers : Live(s) => server'[s] = server[s]
           \/ app' = "boot" /\ \A s \in Servers : server'[s] = "none"
<1> USE DEF TypeOK, net, flags, tasks
<1>1. CASE UNCHANGED vars
  BY <1>1 DEF vars
<1>2. CASE Boot \/ Connected \/ Join \/ LoseLink \/ NewAddress
  BY <1>2 DEF Boot, Connected, Join, LoseLink, NewAddress
<1>3. CASE Dispatch \/ StartNtp \/ WaitNtp \/ LeaveNtp \/ OnGotIp \/ StopServer \/ Rejoin
  BY <1>3 DEF Dispatch, StartNtp, WaitNtp, LeaveNtp, OnGotIp, StopServer, Rejoin
<1>4. CASE CreateServer
  BY <1>4 DEF CreateServer, Live
<1>5. CASE Abort
  BY <1>5 DEF Abort
<1>6. QED
  BY <1>1, <1>2, <1>3, <1>4, <1>5 DEF Next, EventLoop

\* disconnect_handler's order cannot be taken back or outlived: until the board
\* is reset, no server task does more than finish what it has begun.
THEOREM StopStaysStopped == SafeSpec => StopIsFinal
<1>1. ASSUME TypeOK, [Next]_vars, ~running, app' # "boot"
      PROVE  /\ ~running'
             /\ \A s \in Servers : server'[s] # server[s] /\ Live(s)
                  => StepsLeft(server'[s]) < StepsLeft(server[s])
  <2>1. CASE \E s \in Servers : Serve(s)
    BY <1>1, <2>1, TaskStep
  <2>2. CASE \A s \in Servers : ~Serve(s)
    BY <1>1, <2>2, OtherStep
  <2>3. QED
    BY <2>1, <2>2
<1>2. QED
  BY <1>1, TypeCorrect, PTL DEF SafeSpec, StopIsFinal

\* A server task runs: while it lives, it takes steps again and again.
Runs(s) == []<>(~Live(s)) \/ []<><<Serve(s)>>_vars

\* If it lives it has been told to stop, and has at most n steps left.
Told(s, n) == Live(s) => ~running /\ StepsLeft(server[s]) <= n

Exactly(s, n) == Live(s) /\ ~running /\ StepsLeft(server[s]) = n

\* With n steps left, a step of the task leaves fewer, and nothing adds to them.
OneLess(s, n, m) ==
    /\ TypeOK /\ Exactly(s, n) /\ [Next]_vars => Exactly(s, n)' \/ Told(s, m)'
    /\ TypeOK /\ Exactly(s, n) /\ <<Serve(s)>>_vars => Told(s, m)'
    /\ TypeOK => (Told(s, n) <=> Exactly(s, n) \/ Told(s, m))
    /\ ~Live(s) => Told(s, m)

LEMMA OneStepLess ==
    ASSUME NEW s \in Servers, NEW n \in 1..5, NEW m \in 0..4, n = m + 1
    PROVE  OneLess(s, n, m)
<1> USE DEF Exactly
<1>1. TypeOK => StepsLeft(server[s]) \in 0..5 /\ (Live(s) => StepsLeft(server[s]) > 0)
  BY DEF StepsLeft, Live, TypeOK
<1>2. TypeOK /\ Exactly(s, n) /\ [Next]_vars => Exactly(s, n)' \/ Told(s, m)'
  <2>1. SUFFICES ASSUME TypeOK, Exactly(s, n), [Next]_vars
                 PROVE  Exactly(s, n)' \/ Told(s, m)'
    OBVIOUS
  <2>2. ASSUME NEW r \in Servers, Serve(r) PROVE Exactly(s, n)' \/ Told(s, m)'
    <3>1. CASE r = s
      BY <1>1, <2>1, <2>2, <3>1, TaskStep DEF Told, StepsLeft
    <3>2. CASE r # s
      BY <2>1, <2>2, <3>2, TaskStep DEF Live
    <3>3. QED
      BY <3>1, <3>2
  <2>3. CASE \A r \in Servers : ~Serve(r)
    BY <2>1, <2>3, OtherStep DEF Told, Live
  <2>4. QED
    BY <2>2, <2>3
<1>3. TypeOK /\ Exactly(s, n) /\ <<Serve(s)>>_vars => Told(s, m)'
  BY <1>1, TaskStep DEF Told, StepsLeft
<1>4. TypeOK => (Told(s, n) <=> Exactly(s, n) \/ Told(s, m))
  BY <1>1 DEF Told
<1>5. ~Live(s) => Told(s, m)
  BY DEF Told
<1>6. QED
  BY <1>2, <1>3, <1>4, <1>5 DEF OneLess

\* A server that is told to stop stops, whatever else happens, if its task is
\* scheduled.
THEOREM ToldServersStop == SafeSpec /\ (\A s \in Servers : Runs(s)) => ServerStops
<1>1. ASSUME NEW s \in Servers
      PROVE  SafeSpec /\ Runs(s) => ((~running /\ Live(s)) ~> ~Live(s))
  <2>1. ~running /\ Live(s) => Told(s, 5)
    BY DEF Told, StepsLeft, TypeOK
  <2>2. TypeOK /\ Told(s, 0) => ~Live(s)
    BY DEF TypeOK, Told, StepsLeft, Live
  <2>3. /\ OneLess(s, 5, 4) /\ OneLess(s, 4, 3) /\ OneLess(s, 3, 2)
        /\ OneLess(s, 2, 1) /\ OneLess(s, 1, 0)
    BY OneStepLess
  <2>4. QED
    BY <2>1, <2>2, <2>3, TypeCorrect, PTL DEF SafeSpec, Runs, OneLess
<1>2. QED
  BY <1>1 DEF ServerStops

-----------------------------------------------------------------------------
(* The end of a server, and what keeps one up.                             *)

\* Once a server task has ended nothing serves any more, until the board is reset.
NoSecondServer ==
    [][app' # "boot" =>
         \A s \in Servers : server[s] \in {"ended", "stillborn"}
             => \A r \in Servers : ~Live(r) /\ ~Live(r)']_vars

LEMMA EndStep ==
    ASSUME IInv, [Next]_vars, app' # "boot",
           NEW s \in Servers, server[s] \in {"ended", "stillborn"}
    PROVE  server' = server
<1> USE DEF IInv, TypeOK, net, flags, tasks
<1>1. CASE \E r \in Servers : Serve(r)
  <2>1. PICK r \in Servers : Serve(r)
    BY <1>1
  <2>2. r = s
    BY <2>1 DEF OnlyOne, Serve, Watch, NewServer, Startup, CheckRunning, Iterate, Shutdown
  <2>3. QED
    BY <2>1, <2>2 DEF Serve, Watch, NewServer, Startup, CheckRunning, Iterate, Shutdown
<1>2. CASE CreateServer
  BY <1>2 DEF CreateServer, CreatedFirst
<1>3. CASE Abort
  BY <1>3 DEF Abort
<1>4. CASE UNCHANGED server
  BY <1>4
<1>5. QED
  BY <1>1, <1>2, <1>3, <1>4 DEF Next, EventLoop, vars, Boot, Connected, Join,
     LoseLink, NewAddress, Dispatch, StartNtp, WaitNtp, LeaveNtp, OnGotIp,
     StopServer, Rejoin

\* "Automatic reconnection" and "restarting task" are out of the question in
\* every behaviour, not only in the ones a run shows: whatever ended the server,
\* isServerCreated keeps another from being created.
THEOREM EndsForGood == SafeSpec => NoSecondServer
<1>1. ASSUME IInv, [Next]_vars, app' # "boot",
             NEW s \in Servers, server[s] \in {"ended", "stillborn"}, NEW r \in Servers
      PROVE  ~Live(r) /\ ~Live(r)'
  <2>1. server' = server
    BY <1>1, EndStep
  <2>2. ~Live(r)
    BY <1>1 DEF IInv, OnlyOne, Live
  <2>3. QED
    BY <2>1, <2>2 DEF Live
<1>2. IInv /\ [Next]_vars =>
        (app' # "boot" =>
           \A s \in Servers : server[s] \in {"ended", "stillborn"}
               => \A r \in Servers : ~Live(r) /\ ~Live(r)')
  BY <1>1
<1>3. QED
  BY <1>2, Invariance, PTL DEF SafeSpec, NoSecondServer

\* As long as nothing has failed, a server past its subscription is watched.
WatchedUnlessFailed ==
    faults = 0 => \A s \in Servers :
        server[s] \in {"new", "startup", "check", "iterate"} => s \in watched

\* A server that serves goes on serving while the link is kept and nothing fails.
KeepsServing == [][running /\ faults' = 0 /\ Serving => Serving']_vars

LEMMA WatchStep == IInv /\ WatchedUnlessFailed /\ [Next]_vars => WatchedUnlessFailed'
<1> SUFFICES ASSUME IInv, WatchedUnlessFailed, [Next]_vars, faults' = 0
             PROVE  WatchedUnlessFailed'
  BY DEF WatchedUnlessFailed
<1> USE DEF IInv, TypeOK, WatchedUnlessFailed, net, flags, tasks, Fails, Goto
<1>1. CASE UNCHANGED <<server, watched, faults>>
  BY <1>1
<1>2. CASE StartNtp \/ LeaveNtp
  BY <1>2 DEF StartNtp, LeaveNtp
<1>3. CASE CreateServer
  BY <1>3 DEF CreateServer
<1>4. CASE Abort
  BY <1>4 DEF Abort
<1>5. ASSUME NEW s \in Servers, Serve(s) PROVE WatchedUnlessFailed'
  BY <1>5 DEF Serve, Watch, NewServer, Startup, CheckRunning, Iterate, Shutdown
<1>6. QED
  BY <1>1, <1>2, <1>3, <1>4, <1>5 DEF Next, EventLoop, vars, Boot, Connected, Join,
     LoseLink, NewAddress, Dispatch, WaitNtp, OnGotIp, StopServer, Rejoin

LEMMA ServingStep ==
    ASSUME IInv, WatchedUnlessFailed, [Next]_vars, running, faults' = 0, Serving
    PROVE  Serving'
<1> USE DEF IInv, TypeOK, Serving, net, flags, tasks, Fails, Goto
<1>1. CASE UNCHANGED server
  BY <1>1
<1>2. CASE CreateServer
  BY <1>2 DEF CreateServer
<1>3. CASE Abort
  BY <1>3 DEF Abort
<1>4. ASSUME NEW s \in Servers, Serve(s) PROVE Serving'
  <2>1. CASE Iterate(s)
    <3>1. s \in watched
      BY <2>1 DEF Iterate, WatchedUnlessFailed
    <3>2. QED
      BY <2>1, <3>1, BoundsAssumption DEF Iterate
  <2>2. CASE ~Iterate(s)
    BY <1>4, <2>2 DEF Serve, Watch, NewServer, Startup, CheckRunning, Shutdown
  <2>3. QED
    BY <2>1, <2>2
<1>5. QED
  BY <1>1, <1>2, <1>3, <1>4 DEF Next, EventLoop, vars, Boot, Connected, Join,
     LoseLink, NewAddress, Dispatch, StartNtp, WaitNtp, LeaveNtp, OnGotIp,
     StopServer, Rejoin

\* An undisturbed server stays up, watchdog included: the safety half of StaysUp.
THEOREM ServerKeepsServing == SafeSpec => KeepsServing
<1>1. Init => WatchedUnlessFailed
  BY DEF Init, WatchedUnlessFailed
<1>2. SafeSpec => []WatchedUnlessFailed
  BY <1>1, WatchStep, Invariance, PTL DEF SafeSpec
<1>3. IInv /\ WatchedUnlessFailed /\ [Next]_vars
        => (running /\ faults' = 0 /\ Serving => Serving')
  BY ServingStep
<1>4. QED
  BY <1>2, <1>3, Invariance, PTL DEF SafeSpec, KeepsServing
-----------------------------------------------------------------------------
(* An undisturbed board brings its server up.                              *)

\* Fairness without ENABLED: what can go on goes on, again and again.
Boots == []<>~(app = "boot") \/ []<><<Boot>>_vars
Joins == []<>~(link = "joining") \/ []<><<Join>>_vars
Idle == handler = "idle" /\ events = <<>>
Loops == []<>Idle \/ []<><<EventLoop>>_vars
Serves == []<>(~\E s \in Servers : Live(s)) \/ []<><<\E s \in Servers : Serve(s)>>_vars

\* As long as nothing fails and no link is lost, there is something that leads
\* to the server: the join, an event, its handler, or the task itself.
At(label) == \E s \in Servers : server[s] = label
OnTheWay ==
    running /\ faults = 0 =>
        /\ handler # "rejoin"
        /\ handler = "ip" => isServerCreated
        /\ app # "boot" /\ Idle /\ ~isServerCreated => link = "joining"
        /\ isServerCreated => At("watch") \/ At("new") \/ At("startup") \/ Serving

Good == /\ IInv /\ WatchedUnlessFailed /\ OnTheWay
        /\ running /\ faults = 0

LEMMA OnTheWayStep ==
    IInv /\ WatchedUnlessFailed /\ OnTheWay /\ [Next]_vars => OnTheWay'
<1> SUFFICES ASSUME IInv, WatchedUnlessFailed, OnTheWay, [Next]_vars,
                    running', faults' = 0
             PROVE  OnTheWay'
  BY DEF OnTheWay
<1> USE DEF IInv, TypeOK, Idle, net, flags, tasks, Fails, Post, Incident
<1>1. ASSUME server' = server
      PROVE  (At("watch") \/ At("new") \/ At("startup") \/ Serving)
               => At("watch")' \/ At("new")' \/ At("startup")' \/ Serving'
  BY <1>1 DEF At, Serving
<1>2. CASE UNCHANGED vars
  BY <1>1, <1>2 DEF vars, OnTheWay
<1>3. CASE Boot
  BY <1>1, <1>3 DEF Boot, OnTheWay
<1>4. CASE Connected
  BY <1>1, <1>4 DEF Connected, OnTheWay
<1>5. CASE Join
  BY <1>1, <1>5 DEF Join, OnTheWay
<1>6. CASE LoseLink
  BY <1>1, <1>6 DEF LoseLink, OnTheWay
<1>7. CASE NewAddress
  BY <1>1, <1>7 DEF NewAddress, OnTheWay
<1>8. CASE Dispatch
  BY <1>1, <1>8 DEF Dispatch, OnTheWay
<1>9. CASE StartNtp
  BY <1>1, <1>9 DEF StartNtp, OnTheWay
<1>10. CASE WaitNtp \/ LeaveNtp
  BY <1>1, <1>10 DEF WaitNtp, LeaveNtp, OnTheWay
<1>11. CASE CreateServer
  BY <1>1, <1>11 DEF CreateServer, OnTheWay, At
<1>12. CASE OnGotIp
  BY <1>1, <1>12 DEF OnGotIp, OnTheWay
<1>13. CASE StopServer \/ Rejoin \/ Abort
  BY <1>13 DEF StopServer, Rejoin, Abort, OnTheWay
<1>14. ASSUME NEW s \in Servers, Serve(s) PROVE OnTheWay'
  <2>1. running /\ faults = 0 /\ UNCHANGED <<app, net, handler, flags>>
    <3>1. faults' \in {faults, faults + 1}
      BY <1>14 DEF Serve, Watch, NewServer, Startup, CheckRunning, Iterate, Shutdown
    <3>2. UNCHANGED <<app, net, handler, flags>>
      BY <1>14, Zenon DEF Serve, Watch, NewServer, Startup, CheckRunning, Iterate,
         Shutdown
    <3>3. faults = 0
      BY <3>1
    <3>4. running
      BY <3>2, Zenon
    <3>5. QED
      BY <3>2, <3>3, <3>4, Zenon
  <2>2. At("watch") \/ At("new") \/ At("startup")
          => At("watch")' \/ At("new")' \/ At("startup")' \/ Serving'
    BY <1>14, <2>1 DEF Serve, Watch, NewServer, Startup, CheckRunning, Iterate,
       Shutdown, Goto, OnlyOne, At, Serving
  <2>3. Serving => Serving'
    BY <2>1, ServingStep
  <2>4. QED
    BY <2>1, <2>2, <2>3 DEF OnTheWay
<1>15. QED
  BY <1>2, <1>3, <1>4, <1>5, <1>6, <1>7, <1>8, <1>9, <1>10,
     <1>11, <1>12, <1>13, <1>14 DEF Next, EventLoop

\* The station gets its address.
Calling == ~(app = "boot") /\ ~isServerCreated /\ Idle /\ link = "joining"

\* An event waits for the loop, which will create the server.
Waits == ~isServerCreated /\ ~Idle

LEMMA CallStep ==
    /\ Good /\ ~(app = "boot") => Calling \/ Waits \/ isServerCreated
    /\ Good /\ Good' /\ [Next]_vars /\ ~(app = "boot") => (~(app = "boot"))'
    /\ Good /\ Good' /\ [Next]_vars /\ Calling => Calling' \/ Waits' \/ isServerCreated'
    /\ Calling /\ <<Join>>_vars => Waits'
    /\ <<Boot>>_vars => (~(app = "boot"))'
<1> USE DEF Good, Calling, Waits, Idle, IInv, TypeOK
<1>1. Good /\ ~(app = "boot") => Calling \/ Waits \/ isServerCreated
  BY DEF OnTheWay
<1>2. ASSUME Good, Good', [Next]_vars, ~(app = "boot") PROVE (~(app = "boot"))'
  BY <1>2 DEF Next, EventLoop, Boot, Connected, Join, LoseLink, NewAddress, Dispatch,
     StartNtp, WaitNtp, LeaveNtp, CreateServer, OnGotIp, StopServer, Rejoin, Abort,
     Fails, Serve, Watch, NewServer, Startup, CheckRunning, Iterate, Shutdown, vars
<1>3. ASSUME Good, Good', [Next]_vars, Calling
      PROVE  Calling' \/ Waits' \/ isServerCreated'
  BY <1>2, <1>3 DEF OnTheWay
<1>4. Calling /\ <<Join>>_vars => Waits'
  BY DEF Join, Post, flags
<1>5. <<Boot>>_vars => (~(app = "boot"))'
  BY DEF Boot
<1>6. QED
  BY <1>1, <1>2, <1>3, <1>4, <1>5

\* The steps of the event loop until the server has been created.
LoopsLeft == IF handler = "idle" THEN NtpRetries + 4
             ELSE IF handler = "time" THEN NtpRetries + 3
             ELSE IF handler = "ntp" THEN NtpRetries - retry + 2
             ELSE 1

LEMMA LoopStep ==
    ASSUME Good, Good', [Next]_vars, Waits
    PROVE  /\ EventLoop => \/ isServerCreated'
                           \/ Waits' /\ LoopsLeft' \in Nat /\ LoopsLeft' < LoopsLeft
           /\ ~EventLoop => Waits' /\ LoopsLeft' = LoopsLeft
<1> USE DEF Good, Waits, Idle
<1>1. /\ retry \in 0..NtpRetries /\ retry' \in 0..NtpRetries
      /\ faults = 0 /\ faults' = 0
      /\ handler \in {"idle", "time", "ntp", "create", "ip", "stop", "rejoin"}
      /\ events \in Seq({"gotIp", "disconnected"})
  BY DEF IInv, TypeOK
<1>2. CASE Dispatch
  <2>1. handler = "idle" /\ handler' \in {"time", "stop"} /\ ~isServerCreated'
    BY <1>2 DEF Dispatch, flags
  <2>2. EventLoop
    BY <1>2 DEF EventLoop
  <2>3. QED
    BY <2>1, <2>2 DEF LoopsLeft
<1>3. CASE StartNtp
  <2>1. /\ handler = "time" /\ ~isServerCreated'
        /\ handler' = "create" \/ (handler' = "ntp" /\ retry' = 0)
    BY <1>3 DEF StartNtp
  <2>2. EventLoop
    BY <1>3 DEF EventLoop
  <2>3. QED
    BY <2>1, <2>2 DEF LoopsLeft
<1>4. CASE WaitNtp
  <2>1. /\ handler = "ntp" /\ handler' = "ntp" /\ retry' = retry + 1
        /\ ~isServerCreated'
    BY <1>4 DEF WaitNtp, flags
  <2>2. EventLoop
    BY <1>4 DEF EventLoop
  <2>3. QED
    BY <1>1, <2>1, <2>2 DEF LoopsLeft
<1>5. CASE LeaveNtp
  <2>1. handler = "ntp" /\ handler' = "create" /\ ~isServerCreated'
    BY <1>5 DEF LeaveNtp, flags
  <2>2. EventLoop
    BY <1>5 DEF EventLoop
  <2>3. QED
    BY <1>1, <2>1, <2>2 DEF LoopsLeft
<1>6. CASE CreateServer
  <2>1. isServerCreated'
    BY <1>1, <1>6 DEF CreateServer, Fails
  <2>2. EventLoop
    BY <1>6 DEF EventLoop
  <2>3. QED
    BY <2>1, <2>2
<1>7. CASE OnGotIp \/ StopServer \/ Rejoin \/ Abort
  BY <1>7 DEF OnGotIp, StopServer, Rejoin, Abort, OnTheWay, IInv, TypeOK
<1>8. CASE ~EventLoop
  <2>1. handler' = handler /\ retry' = retry /\ isServerCreated' = isServerCreated
    BY <1>8 DEF Next, vars, flags, Boot, Connected, Join, LoseLink, NewAddress, Serve,
       Watch, NewServer, Startup, CheckRunning, Iterate, Shutdown
  <2>2. events # <<>> => events' # <<>>
    BY <1>8 DEF Next, vars, net, Boot, Connected, Join, LoseLink, NewAddress, Post,
       Serve, Watch, NewServer, Startup, CheckRunning, Iterate, Shutdown
  <2>3. QED
    BY <1>8, <2>1, <2>2 DEF LoopsLeft
<1>9. QED
  BY <1>2, <1>3, <1>4, <1>5, <1>6, <1>7, <1>8 DEF EventLoop

Has(n) == Waits /\ LoopsLeft = n
HasAtMost(n) == isServerCreated \/ (Waits /\ LoopsLeft <= n)

OneLoopLess(n, m) ==
    /\ Good /\ Good' /\ Has(n) /\ [Next]_vars => Has(n)' \/ HasAtMost(m)'
    /\ Good /\ Good' /\ Has(n) /\ <<EventLoop>>_vars => HasAtMost(m)'
    /\ Good => (HasAtMost(n) <=> Has(n) \/ HasAtMost(m))
    /\ Has(n) => ~Idle

LEMMA EachLoopLess ==
    ASSUME NEW n \in Nat \ {0}, NEW m \in Nat, n = m + 1
    PROVE  OneLoopLess(n, m)
<1>1. Good /\ Waits => LoopsLeft \in Nat \ {0}
  BY DEF Good, IInv, TypeOK, LoopsLeft
<1>2. ASSUME Good, Good', Has(n), [Next]_vars
      PROVE  (EventLoop => HasAtMost(m)') /\ (Has(n)' \/ HasAtMost(m)')
  BY <1>2, LoopStep DEF Has, HasAtMost
<1>3. ASSUME Good, Good', Has(n), <<EventLoop>>_vars PROVE HasAtMost(m)'
  BY <1>2, <1>3 DEF Next
<1>4. Has(n) => ~Idle
  BY DEF Has, Waits
<1>5. Good => (HasAtMost(n) <=> Has(n) \/ HasAtMost(m))
  BY <1>1 DEF Has, HasAtMost
<1>6. QED
  BY <1>2, <1>3, <1>4, <1>5 DEF OneLoopLess

\* A server task that has been created gets to its loop.
LEMMA ServeStep ==
    /\ Good /\ isServerCreated => At("watch") \/ At("new") \/ At("startup") \/ Serving
    /\ Good /\ Good' /\ [Next]_vars =>
         /\ At("watch") => At("watch")' \/ At("new")'
         /\ At("new") => At("new")' \/ At("startup")'
         /\ At("startup") => At("startup")' \/ Serving'
         /\ Serving => Serving'
    /\ Good /\ Good' /\ <<\E s \in Servers : Serve(s)>>_vars =>
         /\ At("watch") => At("new")'
         /\ At("new") => At("startup")'
         /\ At("startup") => Serving'
    /\ At("watch") \/ At("new") \/ At("startup") => \E s \in Servers : Live(s)
<1>1. Good /\ isServerCreated => At("watch") \/ At("new") \/ At("startup") \/ Serving
  BY DEF Good, OnTheWay
<1>2. ASSUME Good, Good', NEW s \in Servers, Serve(s)
      PROVE  /\ At("watch") => At("new")'
             /\ At("new") => At("startup")'
             /\ At("startup") => Serving'
  <2>1. \A l \in {"watch", "new", "startup"} : At(l) => server[s] = l
    BY <1>2 DEF At, Good, IInv, OnlyOne, Serve, Watch, NewServer, Startup,
       CheckRunning, Iterate, Shutdown
  <2>2. faults = 0 /\ faults' = 0
    BY <1>2 DEF Good
  <2>3. server[s] = "watch" => server' = [server EXCEPT ![s] = "new"]
    BY <1>2 DEF Serve, Watch, NewServer, Startup, CheckRunning, Iterate, Shutdown, Goto
  <2>4. server[s] = "new" => server' = [server EXCEPT ![s] = "startup"]
    BY <1>2, <2>2 DEF Serve, Watch, NewServer, Startup, CheckRunning, Iterate,
       Shutdown, Goto, Fails
  <2>5. server[s] = "startup" => server' = [server EXCEPT ![s] = "check"]
    BY <1>2, <2>2 DEF Serve, Watch, NewServer, Startup, CheckRunning, Iterate,
       Shutdown, Goto, Fails
  <2>6. \A l : server' = [server EXCEPT ![s] = l] => server'[s] = l
    BY <1>2 DEF Good, IInv, TypeOK
  <2>7. QED
    BY <2>1, <2>3, <2>4, <2>5, <2>6 DEF At, Serving
<1>3. ASSUME Good, Good', [Next]_vars, \A s \in Servers : ~Serve(s),
             NEW l \in {"watch", "new", "startup"}, At(l)
      PROVE  At(l)'
  <2>1. CASE UNCHANGED server
    BY <1>3, <2>1 DEF At
  <2>2. CASE CreateServer
    BY <1>3, <2>2 DEF At, CreateServer, Good, IInv, TypeOK, tasks
  <2>3. CASE Abort
    BY <1>3, <2>3 DEF Abort, Good, IInv, TypeOK, Fails
  <2>4. QED
    BY <1>3, <2>1, <2>2, <2>3 DEF Next, EventLoop, vars, tasks, Boot, Connected, Join,
       LoseLink, NewAddress, Dispatch, StartNtp, WaitNtp, LeaveNtp, OnGotIp,
       StopServer, Rejoin
<1>4. ASSUME Good, Good', [Next]_vars, Serving PROVE Serving'
  BY <1>4, ServingStep DEF Good
<1>5. At("watch") \/ At("new") \/ At("startup") => \E s \in Servers : Live(s)
  BY DEF At, Live
<1>6. QED
  BY <1>1, <1>2, <1>3, <1>4, <1>5

\* A server whose network is never lost comes up and stays up, if nothing
\* fails, whether obtain_time gets the time or gives up after its ten retries.
THEOREM ServerComesUp ==
    ASSUME NtpRetries <= 10
    PROVE  SafeSpec /\ Boots /\ Joins /\ Loops /\ Serves => StaysUp
<1> DEFINE Safe == [][Next]_vars /\ []Good
<1>1. Safe /\ Boots => <>[]~(app = "boot")
  BY CallStep, PTL DEF Boots
<1>2. Safe /\ Joins => (~(app = "boot") ~> Waits \/ isServerCreated)
  <2>1. Calling => link = "joining"
    BY DEF Calling
  <2>2. QED
    BY <2>1, CallStep, PTL DEF Joins
<1>3. Safe /\ Loops => (Waits ~> HasAtMost(7))
  <2>1. /\ OneLoopLess(14, 13) /\ OneLoopLess(13, 12) /\ OneLoopLess(12, 11)
        /\ OneLoopLess(11, 10) /\ OneLoopLess(10, 9) /\ OneLoopLess(9, 8)
        /\ OneLoopLess(8, 7)
    BY EachLoopLess
  <2>2. Good /\ Waits => HasAtMost(14)
    BY DEF HasAtMost, LoopsLeft, Good, IInv, TypeOK
  <2>3. QED
    BY <2>1, <2>2, PTL DEF Loops, OneLoopLess
<1>4. Safe /\ Loops => (HasAtMost(7) ~> isServerCreated)
  <2>1. /\ OneLoopLess(7, 6) /\ OneLoopLess(6, 5) /\ OneLoopLess(5, 4)
        /\ OneLoopLess(4, 3) /\ OneLoopLess(3, 2) /\ OneLoopLess(2, 1)
        /\ OneLoopLess(1, 0)
    BY EachLoopLess
  <2>2. Good /\ HasAtMost(0) => isServerCreated
    BY DEF HasAtMost, LoopsLeft, Good, IInv, TypeOK
  <2>3. QED
    BY <2>1, <2>2, PTL DEF Loops, OneLoopLess
<1>5. Safe /\ Serves => (isServerCreated ~> []Serving)
  BY ServeStep, PTL DEF Serves
<1>6. SafeSpec => [][Next]_vars /\ []WatchedUnlessFailed /\ []OnTheWay
  <2>1. Init => WatchedUnlessFailed /\ OnTheWay
    BY DEF Init, WatchedUnlessFailed, OnTheWay
  <2>2. QED
    BY <2>1, WatchStep, OnTheWayStep, Invariance, PTL DEF SafeSpec
<1>7. IInv /\ WatchedUnlessFailed /\ OnTheWay /\ (running /\ faults = 0) => Good
  BY DEF Good
<1>8. QED
  BY <1>1, <1>2, <1>3, <1>4, <1>5, <1>6, <1>7, Invariance, PTL DEF StaysUp

-----------------------------------------------------------------------------
(* app_main gets past its wait for an address.                             *)

Connects == []<>~(app = "wait" /\ gotIp) \/ []<><<Connected>>_vars

\* Sooner or later no attempt to join fails any more, and the board is not reset.
Calmly == (link = "joining" => ~(link' = "down")) /\ ~(app' = "boot")
Calm == <>[][Calmly]_vars

\* While a disconnection waits, no address is posted after it.
OutageLast ==
    /\ \A i \in 1..Len(events) : events[i] = "disconnected" => i = Len(events)
    /\ handler \in {"stop", "rejoin"} => events = <<>>
    /\ link = "off" => app = "boot"
Known == TypeOK /\ OutageKnown /\ AddressKnown /\ OutageLast

LEMMA LastStep == TypeOK /\ OutageKnown /\ OutageLast /\ [Next]_vars => OutageLast'
<1> SUFFICES ASSUME TypeOK, OutageKnown, OutageLast, [Next]_vars PROVE OutageLast'
  OBVIOUS
<1> USE DEF OutageLast, net, flags, tasks
<1>1. CASE UNCHANGED <<app, link, events, handler>>
  BY <1>1
<1>2. CASE Boot \/ StartNtp \/ LeaveNtp \/ CreateServer \/ OnGotIp \/ StopServer \/ Rejoin
  BY <1>2 DEF Boot, StartNtp, LeaveNtp, CreateServer, OnGotIp, StopServer, Rejoin
<1>3. CASE Abort \/ Connected
  BY <1>3 DEF Abort, Connected, OutageKnown
<1>4. ASSUME link \in {"joining", "up"}
      PROVE  ~(handler \in {"stop", "rejoin"})
             /\ \A i \in 1..Len(events) : events[i] # "disconnected"
  BY <1>4 DEF OutageKnown, Queued
<1>5. CASE Join \/ NewAddress \/ LoseLink
  BY <1>4, <1>5, QueuePosted DEF Join, NewAddress, LoseLink
<1>6. CASE Dispatch
  <2>1. events # <<>> /\ events' = Tail(events) /\ UNCHANGED <<app, link>>
    BY <1>6 DEF Dispatch
  <2>2. ASSUME NEW i \in 1..Len(events'), events'[i] = "disconnected"
        PROVE  i = Len(events')
    <3>1. /\ Len(events') = Len(events) - 1 /\ Len(events) \in Nat \ {0}
          /\ events'[i] = events[i + 1]
      BY <2>1, <2>2, QueueTaken
    <3>2. i + 1 = Len(events)
      BY <2>2, <3>1
    <3>3. QED
      BY <3>1, <3>2
  <2>3. handler' \in {"stop", "rejoin"} => events' = <<>>
    <3>1. handler' \in {"stop", "rejoin"} => events[1] = "disconnected"
      BY <1>6, <2>1, QueueTaken DEF Dispatch
    <3>2. 1 \in 1..Len(events) /\ (Len(events) = 1 => Tail(events) = <<>>)
      BY <2>1, QueueTaken DEF TypeOK
    <3>3. QED
      BY <2>1, <3>1, <3>2
  <2>4. QED
    BY <2>1, <2>2, <2>3
<1>7. CASE WaitNtp \/ \E s \in Servers : Serve(s)
  BY <1>7, <1>1 DEF WaitNtp, Serve, Watch, NewServer, Startup, CheckRunning, Iterate,
     Shutdown
<1>8. QED
  BY <1>1, <1>2, <1>3, <1>5, <1>6, <1>7 DEF Next, EventLoop, vars

LEMMA KnownAlways == SafeSpec => []Known
<1>1. Init => OutageLast
  BY DEF Init, OutageLast
<1>2. TypeOK /\ OutageKnown /\ AddressKnown /\ OutageLast => Known
  BY DEF Known
<1>3. QED
  BY <1>1, <1>2, LastStep, TypeCorrect, NoOutageForgotten, NoAddressForgotten,
     PTL DEF SafeSpec

\* Where the address is that app_main waits for: asked for, on its way to
\* on_got_ip, or lost with the link.
Waiting == app = "wait" /\ ~gotIp
Asking == Waiting /\ Idle
InHand == Waiting /\ \/ handler \in {"time", "ntp", "create", "ip"}
                     \/ handler = "idle" /\ events # <<>> /\ Head(events) = "gotIp"
Lost == Waiting /\ \/ handler \in {"stop", "rejoin"}
                   \/ handler = "idle" /\ events # <<>> /\ Head(events) = "disconnected"

LEMMA WhereItIs ==
    ASSUME Known, Waiting
    PROVE  /\ InHand \/ Lost \/ Asking
           /\ Asking => link = "joining"
           /\ Lost => link = "down"
           /\ Lost /\ events # <<>> => Tail(events) = <<>>
<1> USE DEF Known, Waiting, Asking, InHand, Lost, Idle
<1>1. events # <<>> => Head(events) \in {"gotIp", "disconnected"}
                       /\ Len(events) \in Nat \ {0} /\ Head(events) = events[1]
  BY DEF TypeOK
<1>2. Asking => link = "joining"
  BY DEF TypeOK, OutageKnown, AddressKnown, OutageLast, Queued
<1>3. Lost => link = "down"
  BY <1>1 DEF OutageKnown, Queued
<1>4. Lost /\ events # <<>> => Tail(events) = <<>>
  <2>1. Lost /\ events # <<>> => Len(events) = 1
    BY <1>1 DEF OutageLast
  <2>2. \A q \in Seq({"gotIp", "disconnected"}) : Len(q) = 0 => q = <<>>
    OBVIOUS
  <2>3. ASSUME events # <<>>
        PROVE  /\ Tail(events) \in Seq({"gotIp", "disconnected"})
               /\ Len(Tail(events)) = Len(events) - 1
    BY <2>3 DEF TypeOK
  <2>4. ASSUME events # <<>>, Len(events) = 1 PROVE Tail(events) = <<>>
    <3>1. Len(Tail(events)) = 0
      BY <2>3, <2>4
    <3>2. QED
      BY <2>2, <2>3, <2>4, <3>1, Zenon
  <2>5. QED
    BY <2>1, <2>4
<1>5. InHand \/ Lost \/ Asking
  BY <1>1 DEF TypeOK
<1>6. QED
  BY <1>2, <1>3, <1>4, <1>5

\* The steps of the event loop until an address is in hand, or asked for again.
InHandLeft == IF handler = "idle" THEN NtpRetries + 5
              ELSE IF handler = "time" THEN NtpRetries + 4
              ELSE IF handler = "ntp" THEN NtpRetries - retry + 3
              ELSE IF handler = "create" THEN 2
              ELSE 1
LostLeft == IF handler = "idle" THEN 3 ELSE IF handler = "stop" THEN 2 ELSE 1

LEMMA AskStep ==
    ASSUME Known, Known', [Next]_vars, Calmly, Asking
    PROVE  /\ Asking' \/ InHand'
           /\ Join => InHand'
<1> USE DEF Waiting, Asking, InHand, Idle, Calmly
<1>1. link = "joining"
  BY WhereItIs
<1>2. CASE Join
  <2>1. app' = app /\ ~gotIp' /\ handler' = handler /\ Post("gotIp")
    BY <1>2 DEF Join, flags
  <2>2. events' # <<>> /\ Head(events') = "gotIp"
    BY <2>1 DEF Post
  <2>3. QED
    BY <2>1, <2>2
<1>3. CASE ~Join
  <2>1. UNCHANGED <<app, handler, events>> /\ ~gotIp'
    BY <1>1, <1>3 DEF Next, EventLoop, vars, net, flags, Boot, Connected, LoseLink,
       NewAddress, Dispatch, StartNtp, WaitNtp, LeaveNtp, CreateServer, OnGotIp,
       StopServer, Rejoin, Abort, Serve, Watch, NewServer, Startup, CheckRunning,
       Iterate, Shutdown
  <2>2. QED
    BY <1>3, <2>1
<1>4. QED
  BY <1>2, <1>3

LEMMA LostStep ==
    ASSUME Known, Known', [Next]_vars, Calmly, Lost
    PROVE  /\ EventLoop => Asking' \/ (Lost' /\ LostLeft' < LostLeft)
           /\ ~EventLoop => Lost' /\ LostLeft' = LostLeft
<1> USE DEF Waiting, Lost, Asking, Idle
<1>1. link = "down" /\ (events # <<>> => Tail(events) = <<>>)
  BY WhereItIs DEF Known, Waiting
<1>2. CASE EventLoop
  <2>1. app' = app /\ ~gotIp'
    BY <1>2 DEF EventLoop, flags, Dispatch, StartNtp, WaitNtp, LeaveNtp, CreateServer,
       OnGotIp, StopServer, Rejoin, Abort, Calmly
  <2>2. CASE handler = "idle"
    <3>1. handler' = "stop"
      BY <1>2, <2>2 DEF EventLoop, Dispatch, StartNtp, WaitNtp, LeaveNtp,
         CreateServer, OnGotIp, StopServer, Rejoin, Abort
    <3>2. QED
      BY <1>2, <2>1, <2>2, <3>1 DEF LostLeft
  <2>3. CASE handler = "stop"
    <3>1. handler' = "rejoin"
      BY <1>2, <2>3 DEF EventLoop, Dispatch, StartNtp, WaitNtp, LeaveNtp,
         CreateServer, OnGotIp, StopServer, Rejoin, Abort
    <3>2. QED
      BY <1>2, <2>1, <2>3, <3>1 DEF LostLeft
  <2>4. CASE handler = "rejoin"
    <3>1. handler' = "idle" /\ events' = events
      BY <1>2, <2>4 DEF EventLoop, Dispatch, StartNtp, WaitNtp, LeaveNtp,
         CreateServer, OnGotIp, StopServer, Rejoin, Abort, Calmly
    <3>2. events = <<>>
      BY <2>4 DEF Known, OutageLast
    <3>3. QED
      BY <1>2, <2>1, <2>4, <3>1, <3>2
  <2>5. QED
    BY <2>2, <2>3, <2>4
<1>3. CASE ~EventLoop
  <2>1. UNCHANGED <<app, handler, events>> /\ ~gotIp'
    BY <1>1, <1>3 DEF Next, vars, net, flags, Boot, Connected, Join, LoseLink,
       NewAddress, Serve, Watch, NewServer, Startup, CheckRunning, Iterate, Shutdown
  <2>2. QED
    BY <1>3, <2>1 DEF LostLeft
<1>4. QED
  BY <1>2, <1>3

LEMMA InHandStep ==
    ASSUME Known, Known', [Next]_vars, Calmly, InHand
    PROVE  /\ EventLoop => \/ app' = "wait" /\ gotIp'
                           \/ InHand' /\ InHandLeft' \in Nat /\ InHandLeft' < InHandLeft
           /\ ~EventLoop => InHand' /\ InHandLeft' = InHandLeft
<1> USE DEF Waiting, InHand
<1>1. retry \in 0..NtpRetries /\ retry' \in 0..NtpRetries
  BY DEF Known, TypeOK
<1>2. CASE Dispatch
  <2>1. handler = "idle" /\ handler' = "time" /\ app' = app /\ ~gotIp'
    BY <1>2 DEF Dispatch, flags
  <2>2. EventLoop
    BY <1>2 DEF EventLoop
  <2>3. QED
    BY <2>1, <2>2 DEF InHandLeft
<1>3. CASE StartNtp
  <2>1. /\ handler = "time" /\ app' = app /\ ~gotIp'
        /\ handler' = "create" \/ (handler' = "ntp" /\ retry' = 0)
    BY <1>3 DEF StartNtp
  <2>2. EventLoop
    BY <1>3 DEF EventLoop
  <2>3. QED
    BY <2>1, <2>2 DEF InHandLeft
<1>4. CASE WaitNtp
  <2>1. /\ handler = "ntp" /\ handler' = "ntp" /\ retry' = retry + 1
        /\ app' = app /\ ~gotIp'
    BY <1>4 DEF WaitNtp, flags
  <2>2. EventLoop
    BY <1>4 DEF EventLoop
  <2>3. QED
    BY <1>1, <2>1, <2>2 DEF InHandLeft
<1>5. CASE LeaveNtp
  <2>1. handler = "ntp" /\ handler' = "create" /\ app' = app /\ ~gotIp'
    BY <1>5 DEF LeaveNtp, flags
  <2>2. EventLoop
    BY <1>5 DEF EventLoop
  <2>3. QED
    BY <1>1, <2>1, <2>2 DEF InHandLeft
<1>6. CASE CreateServer
  <2>1. handler = "create" /\ handler' = "ip" /\ app' = app /\ ~gotIp'
    BY <1>6 DEF CreateServer
  <2>2. EventLoop
    BY <1>6 DEF EventLoop
  <2>3. QED
    BY <2>1, <2>2 DEF InHandLeft
<1>7. CASE OnGotIp
  <2>1. gotIp' /\ app' = app /\ EventLoop
    BY <1>7 DEF OnGotIp, EventLoop
  <2>2. QED
    BY <2>1
<1>8. CASE StopServer \/ Rejoin \/ Abort
  BY <1>8 DEF StopServer, Rejoin, Abort
<1>9. CASE ~EventLoop
  <2>1. UNCHANGED <<app, handler, retry>> /\ ~gotIp'
    BY <1>9 DEF Next, vars, net, flags, Boot, Connected, Join, LoseLink,
       NewAddress, Serve, Watch, NewServer, Startup, CheckRunning, Iterate, Shutdown
  <2>2. events # <<>> => events' # <<>> /\ Head(events') = Head(events)
    BY <1>9 DEF Next, vars, net, Boot, Connected, Join, LoseLink, NewAddress, Post,
       Known, TypeOK, Serve, Watch, NewServer, Startup, CheckRunning, Iterate, Shutdown
  <2>3. QED
    BY <1>9, <2>1, <2>2 DEF InHandLeft
<1>10. QED
  BY <1>2, <1>3, <1>4, <1>5, <1>6, <1>7, <1>8, <1>9 DEF EventLoop

HasInHand(n) == InHand /\ InHandLeft = n
InHandAtMost(n) == (app = "wait" /\ gotIp) \/ (InHand /\ InHandLeft <= n)
HasLost(n) == Lost /\ LostLeft = n
LostAtMost(n) == Asking \/ (Lost /\ LostLeft <= n)

OneInHandLess(n, m) ==
    /\ Known /\ Known' /\ HasInHand(n) /\ [Next]_vars /\ [Calmly]_vars
         => HasInHand(n)' \/ InHandAtMost(m)'
    /\ Known /\ Known' /\ HasInHand(n) /\ <<EventLoop>>_vars /\ [Calmly]_vars
         => InHandAtMost(m)'
    /\ Known => (InHandAtMost(n) <=> HasInHand(n) \/ InHandAtMost(m))
    /\ HasInHand(n) => ~Idle

OneLostLess(n, m) ==
    /\ Known /\ Known' /\ HasLost(n) /\ [Next]_vars /\ [Calmly]_vars
         => HasLost(n)' \/ LostAtMost(m)'
    /\ Known /\ Known' /\ HasLost(n) /\ <<EventLoop>>_vars /\ [Calmly]_vars
         => LostAtMost(m)'
    /\ Known => (LostAtMost(n) <=> HasLost(n) \/ LostAtMost(m))
    /\ HasLost(n) => ~Idle

\* What a stuttering step leaves alone.
LEMMA Stutter ==
    ASSUME UNCHANGED vars
    PROVE  /\ Asking' = Asking /\ InHand' = InHand /\ Lost' = Lost
           /\ InHandLeft' = InHandLeft /\ LostLeft' = LostLeft
  BY DEF vars, net, flags, Asking, InHand, Lost, Waiting, Idle, InHandLeft, LostLeft

LEMMA EachInHandLess ==
    ASSUME NEW n \in Nat \ {0}, NEW m \in Nat, n = m + 1
    PROVE  OneInHandLess(n, m)
<1>1. Known /\ InHand => InHandLeft \in Nat \ {0}
  BY DEF Known, TypeOK, InHandLeft
<1>2. ASSUME Known, Known', HasInHand(n), [Next]_vars, Calmly
      PROVE  (EventLoop => InHandAtMost(m)') /\ (HasInHand(n)' \/ InHandAtMost(m)')
  BY <1>2, InHandStep DEF HasInHand, InHandAtMost
<1>3. ASSUME HasInHand(n), UNCHANGED vars PROVE HasInHand(n)'
  BY <1>3, Stutter DEF HasInHand
<1>4. ASSUME Known, Known', HasInHand(n), [Next]_vars, [Calmly]_vars
      PROVE  HasInHand(n)' \/ InHandAtMost(m)'
  BY <1>2, <1>3, <1>4
<1>5. ASSUME Known, Known', HasInHand(n), <<EventLoop>>_vars, [Calmly]_vars
      PROVE  InHandAtMost(m)'
  BY <1>2, <1>5 DEF Next
<1>6. HasInHand(n) => ~Idle
  BY DEF HasInHand, InHand, Idle
<1>7. Known => (InHandAtMost(n) <=> HasInHand(n) \/ InHandAtMost(m))
  BY <1>1 DEF HasInHand, InHandAtMost
<1>8. QED
  BY <1>4, <1>5, <1>6, <1>7 DEF OneInHandLess

LEMMA EachLostLess ==
    ASSUME NEW n \in 1..3, NEW m \in 0..2, n = m + 1
    PROVE  OneLostLess(n, m)
<1>1. LostLeft \in 1..3 /\ LostLeft' \in 1..3
  BY DEF LostLeft
<1>2. ASSUME Known, Known', HasLost(n), [Next]_vars, Calmly
      PROVE  (EventLoop => LostAtMost(m)') /\ (HasLost(n)' \/ LostAtMost(m)')
  BY <1>1, <1>2, LostStep DEF HasLost, LostAtMost
<1>3. ASSUME HasLost(n), UNCHANGED vars PROVE HasLost(n)'
  BY <1>3, Stutter DEF HasLost
<1>4. ASSUME Known, Known', HasLost(n), [Next]_vars, [Calmly]_vars
      PROVE  HasLost(n)' \/ LostAtMost(m)'
  BY <1>2, <1>3, <1>4
<1>5. ASSUME Known, Known', HasLost(n), <<EventLoop>>_vars, [Calmly]_vars
      PROVE  LostAtMost(m)'
  BY <1>2, <1>5 DEF Next
<1>6. HasLost(n) => ~Idle
  BY DEF Known, HasLost, Lost, Idle
<1>7. Known => (LostAtMost(n) <=> HasLost(n) \/ LostAtMost(m))
  BY <1>1 DEF HasLost, LostAtMost
<1>8. QED
  BY <1>4, <1>5, <1>6, <1>7 DEF OneLostLess

LEMMA WaitStep ==
    /\ TypeOK => app = "boot" \/ app = "wait" \/ app = "returned"
    /\ <<Boot>>_vars => (app = "wait")'
    /\ app = "boot" /\ [Next]_vars => (app = "boot")' \/ (app = "wait")'
    /\ app = "returned" /\ [Next]_vars /\ [Calmly]_vars => (app = "returned")'
    /\ app = "wait" /\ gotIp /\ [Next]_vars /\ [Calmly]_vars
         => (app = "wait" /\ gotIp)' \/ (app = "returned")'
    /\ <<Connected>>_vars => (app = "returned")'
    /\ Known /\ app = "wait" => gotIp \/ InHand \/ Lost \/ Asking
<1> USE DEF net, flags, tasks
<1>1. TypeOK => app = "boot" \/ app = "wait" \/ app = "returned"
  BY DEF TypeOK
<1>2. <<Boot>>_vars => (app = "wait")'
  BY DEF Boot
<1>3. [Next]_vars => \/ app' = app
                     \/ app = "boot" /\ app' = "wait"
                     \/ app = "wait" /\ app' = "returned"
                     \/ app' = "boot" /\ handler = "rejoin" /\ Abort
  BY DEF Next, EventLoop, vars, Boot, Connected, Join, LoseLink, NewAddress, Dispatch,
     StartNtp, WaitNtp, LeaveNtp, CreateServer, OnGotIp, StopServer, Rejoin, Abort,
     Serve, Watch, NewServer, Startup, CheckRunning, Iterate, Shutdown
<1>4. [Calmly]_vars /\ ~(app = "boot") => ~(app' = "boot")
  BY DEF Calmly, vars
<1>5. app = "wait" /\ gotIp /\ [Next]_vars /\ [Calmly]_vars
        => (app = "wait" /\ gotIp)' \/ (app = "returned")'
  BY <1>4 DEF Next, EventLoop, vars, Boot, Connected, Join, LoseLink, NewAddress,
     Dispatch, StartNtp, WaitNtp, LeaveNtp, CreateServer, OnGotIp, StopServer, Rejoin,
     Abort, Serve, Watch, NewServer, Startup, CheckRunning, Iterate, Shutdown
<1>6. <<Connected>>_vars => (app = "returned")'
  BY DEF Connected
<1>7. Known /\ app = "wait" => gotIp \/ InHand \/ Lost \/ Asking
  BY WhereItIs DEF Waiting
<1>8. app = "boot" /\ [Next]_vars => (app = "boot")' \/ (app = "wait")'
  BY <1>3
<1>9. app = "returned" /\ [Next]_vars /\ [Calmly]_vars => (app = "returned")'
  BY <1>3, <1>4
<1>10. QED
  BY <1>1, <1>2, <1>5, <1>6, <1>7, <1>8, <1>9

\* app_main waits without a timeout, through wrong turns of the network and the
\* retries of obtain_time: it returns once the station can join.
THEOREM AppMainReturns ==
    ASSUME NtpRetries <= 10
    PROVE  SafeSpec /\ Boots /\ Joins /\ Loops /\ Connects /\ Calm => AppReturns
<1> DEFINE Safe == [][Next]_vars /\ []Known /\ [][Calmly]_vars
<1>1. Safe /\ Loops => (Lost ~> Asking)
  <2>1. OneLostLess(3, 2) /\ OneLostLess(2, 1) /\ OneLostLess(1, 0)
    BY EachLostLess
  <2>2. Lost => LostAtMost(3)
    BY DEF LostAtMost, LostLeft
  <2>3. LostAtMost(0) => Asking
    BY DEF LostAtMost, LostLeft
  <2>4. QED
    BY <2>1, <2>2, <2>3, PTL DEF Loops, OneLostLess
<1>2. Safe /\ Joins => (Asking ~> InHand)
  <2>1. Known /\ Asking => link = "joining"
    BY WhereItIs DEF Asking
  <2>2. Known /\ Known' /\ Asking /\ [Next]_vars /\ [Calmly]_vars => Asking' \/ InHand'
    BY AskStep, Stutter
  <2>3. Known /\ Known' /\ Asking /\ <<Join>>_vars /\ [Calmly]_vars => InHand'
    BY AskStep DEF Next
  <2>4. QED
    BY <2>1, <2>2, <2>3, PTL DEF Joins
<1>3. Safe /\ Loops => (InHand ~> InHandAtMost(8))
  <2>1. /\ OneInHandLess(15, 14) /\ OneInHandLess(14, 13) /\ OneInHandLess(13, 12)
        /\ OneInHandLess(12, 11) /\ OneInHandLess(11, 10) /\ OneInHandLess(10, 9)
        /\ OneInHandLess(9, 8)
    BY EachInHandLess
  <2>2. Known /\ InHand => InHandAtMost(15)
    BY DEF InHandAtMost, InHandLeft, Known, TypeOK
  <2>3. QED
    BY <2>1, <2>2, PTL DEF Loops, OneInHandLess
<1>4. Safe /\ Loops => (InHandAtMost(8) ~> app = "wait" /\ gotIp)
  <2>1. /\ OneInHandLess(8, 7) /\ OneInHandLess(7, 6) /\ OneInHandLess(6, 5)
        /\ OneInHandLess(5, 4) /\ OneInHandLess(4, 3) /\ OneInHandLess(3, 2)
        /\ OneInHandLess(2, 1) /\ OneInHandLess(1, 0)
    BY EachInHandLess
  <2>2. Known /\ InHandAtMost(0) => app = "wait" /\ gotIp
    BY DEF InHandAtMost, InHandLeft, Known, TypeOK
  <2>3. QED
    BY <2>1, <2>2, PTL DEF Loops, OneInHandLess
<1>5. Safe /\ Connects => ((app = "wait" /\ gotIp) ~> app = "returned")
  BY WaitStep, PTL DEF Connects
<1>6. Safe /\ Boots => (app = "boot" ~> app = "wait")
  BY WaitStep, PTL DEF Boots
<1>7. Known => app = "boot" \/ app = "wait" \/ app = "returned"
  BY DEF Known, TypeOK
<1>8. Known /\ app = "wait" => gotIp \/ InHand \/ Lost \/ Asking
  BY WaitStep
<1>9. SafeSpec => []Known
  BY KnownAlways
<1>10. Safe /\ Boots /\ Joins /\ Loops /\ Connects => <>(app = "returned")
  <2>1. Safe /\ Boots => <>(app = "wait" \/ app = "returned")
    BY <1>6, <1>7, PTL
  <2>2. Safe /\ Joins /\ Loops /\ Connects
          => (app = "wait" ~> app = "returned")
    BY <1>1, <1>2, <1>3, <1>4, <1>5, <1>8, PTL DEF Joins, Loops, Connects
  <2>3. QED
    BY <2>1, <2>2, PTL
<1>11. QED
  BY <1>9, <1>10, PTL DEF SafeSpec, Calm, AppReturns, Boots, Joins, Loops, Connects

-----------------------------------------------------------------------------
(* The station is connected again after every outage.                      *)

\* The steps until the handler that runs has ended.
HandlerLeft == IF handler = "time" THEN NtpRetries + 4
               ELSE IF handler = "ntp" THEN NtpRetries - retry + 3
               ELSE IF handler \in {"create", "stop"} THEN 2
               ELSE 1

HandlerHas(n) == ~(handler = "idle") /\ HandlerLeft = n
HandlerAtMost(n) == handler = "idle" \/ HandlerLeft <= n

OneHandlerLess(n, m) ==
    /\ TypeOK /\ HandlerHas(n) /\ [Next]_vars => HandlerHas(n)' \/ HandlerAtMost(m)'
    /\ TypeOK /\ HandlerHas(n) /\ <<EventLoop>>_vars => HandlerAtMost(m)'
    /\ TypeOK => (HandlerAtMost(n) <=> HandlerHas(n) \/ HandlerAtMost(m))
    /\ HandlerHas(n) => ~Idle

LEMMA HandlerStep ==
    ASSUME TypeOK, [Next]_vars, ~(handler = "idle")
    PROVE  /\ EventLoop => handler' = "idle" \/ HandlerLeft' < HandlerLeft
           /\ ~EventLoop => handler' = handler /\ HandlerLeft' = HandlerLeft
<1> USE DEF TypeOK
<1>1. CASE StartNtp
  <2>1. handler = "time" /\ (handler' = "create" \/ (handler' = "ntp" /\ retry' = 0))
    BY <1>1 DEF StartNtp
  <2>2. EventLoop
    BY <1>1 DEF EventLoop
  <2>3. QED
    BY <2>1, <2>2 DEF HandlerLeft
<1>2. CASE WaitNtp
  <2>1. handler = "ntp" /\ handler' = "ntp" /\ retry' = retry + 1
    BY <1>2 DEF WaitNtp
  <2>2. EventLoop
    BY <1>2 DEF EventLoop
  <2>3. QED
    BY <2>1, <2>2 DEF HandlerLeft
<1>3. CASE LeaveNtp
  <2>1. handler = "ntp" /\ handler' = "create"
    BY <1>3 DEF LeaveNtp
  <2>2. EventLoop
    BY <1>3 DEF EventLoop
  <2>3. QED
    BY <2>1, <2>2 DEF HandlerLeft
<1>4. CASE CreateServer
  <2>1. handler = "create" /\ handler' = "ip"
    BY <1>4 DEF CreateServer
  <2>2. EventLoop
    BY <1>4 DEF EventLoop
  <2>3. QED
    BY <2>1, <2>2 DEF HandlerLeft
<1>5. CASE StopServer
  <2>1. handler = "stop" /\ handler' = "rejoin"
    BY <1>5 DEF StopServer
  <2>2. EventLoop
    BY <1>5 DEF EventLoop
  <2>3. QED
    BY <2>1, <2>2 DEF HandlerLeft
<1>6. CASE Dispatch \/ OnGotIp \/ Rejoin \/ Abort
  BY <1>6 DEF Dispatch, OnGotIp, Rejoin, Abort, EventLoop
<1>7. CASE ~EventLoop
  <2>1. handler' = handler /\ retry' = retry
    BY <1>7 DEF Next, vars, Boot, Connected, Join, LoseLink, NewAddress, Serve,
       Watch, NewServer, Startup, CheckRunning, Iterate, Shutdown
  <2>2. QED
    BY <1>7, <2>1 DEF HandlerLeft
<1>8. QED
  BY <1>1, <1>2, <1>3, <1>4, <1>5, <1>6, <1>7 DEF EventLoop

LEMMA EachHandlerLess ==
    ASSUME NEW n \in Nat \ {0}, NEW m \in Nat, n = m + 1
    PROVE  OneHandlerLess(n, m)
<1>1. TypeOK => HandlerLeft \in Nat \ {0}
  BY DEF TypeOK, HandlerLeft
<1>2. TypeOK /\ [Next]_vars => HandlerLeft' \in Nat \ {0}
  <2>1. TypeOK /\ [Next]_vars => retry' \in 0..NtpRetries
    <3>1. [Next]_vars => \/ retry' \in {retry, 0}
                         \/ retry < NtpRetries /\ retry' = retry + 1
      BY DEF Next, EventLoop, vars, Boot, Connected, Join, LoseLink, NewAddress,
         Dispatch, StartNtp, WaitNtp, LeaveNtp, CreateServer, OnGotIp, StopServer,
         Rejoin, Abort, Serve, Watch, NewServer, Startup, CheckRunning, Iterate,
         Shutdown
    <3>2. QED
      BY <3>1 DEF TypeOK
  <2>2. QED
    BY <2>1 DEF HandlerLeft
<1>3. ASSUME TypeOK, HandlerHas(n), [Next]_vars
      PROVE  /\ EventLoop => HandlerAtMost(m)'
             /\ HandlerHas(n)' \/ HandlerAtMost(m)'
  BY <1>1, <1>2, <1>3, HandlerStep DEF HandlerHas, HandlerAtMost
<1>4. ASSUME TypeOK, HandlerHas(n), <<EventLoop>>_vars PROVE HandlerAtMost(m)'
  BY <1>3, <1>4 DEF Next
<1>5. TypeOK => (HandlerAtMost(n) <=> HandlerHas(n) \/ HandlerAtMost(m))
  BY <1>1 DEF HandlerHas, HandlerAtMost
<1>6. HandlerHas(n) => ~Idle
  BY DEF HandlerHas, Idle
<1>7. QED
  BY <1>3, <1>4, <1>5, <1>6 DEF OneHandlerLess

\* No handler holds up the event loop for ever: the wait for the time, the only
\* one of them that loops, ends with its retries.
THEOREM HandlersEnd ==
    ASSUME NtpRetries <= 10
    PROVE  SafeSpec /\ Loops => []<>(handler = "idle")
<1>1. /\ OneHandlerLess(14, 13) /\ OneHandlerLess(13, 12) /\ OneHandlerLess(12, 11)
      /\ OneHandlerLess(11, 10) /\ OneHandlerLess(10, 9) /\ OneHandlerLess(9, 8)
      /\ OneHandlerLess(8, 7)
  BY EachHandlerLess
<1>2. /\ OneHandlerLess(7, 6) /\ OneHandlerLess(6, 5) /\ OneHandlerLess(5, 4)
      /\ OneHandlerLess(4, 3) /\ OneHandlerLess(3, 2) /\ OneHandlerLess(2, 1)
      /\ OneHandlerLess(1, 0)
  BY EachHandlerLess
<1>3. TypeOK => HandlerAtMost(14)
  BY DEF HandlerAtMost, HandlerLeft, TypeOK
<1>4. TypeOK /\ HandlerAtMost(0) => handler = "idle"
  BY DEF HandlerAtMost, HandlerLeft, TypeOK
<1>5. SafeSpec /\ Loops => []<>HandlerAtMost(7)
  BY <1>1, <1>3, TypeCorrect, PTL DEF SafeSpec, Loops, OneHandlerLess
<1>6. SafeSpec /\ Loops => (HandlerAtMost(7) ~> HandlerAtMost(0))
  BY <1>2, TypeCorrect, PTL DEF SafeSpec, Loops, OneHandlerLess
<1>7. QED
  BY <1>4, <1>5, <1>6, TypeCorrect, PTL

\* The station is down and n events wait; or fewer, or it has been asked to join.
Down(n) == link = "down" /\ Len(events) = n
DownAtMost(n) == link = "joining" \/ (link = "down" /\ Len(events) <= n)

OneEventLess(n, m) ==
    /\ Known /\ Down(n) /\ [Next]_vars /\ [Calmly]_vars => Down(n)' \/ DownAtMost(m)'
    /\ Known /\ Down(n) /\ handler = "idle" /\ <<EventLoop>>_vars => DownAtMost(m)'
    /\ Known => (DownAtMost(n) <=> Down(n) \/ DownAtMost(m))
    /\ Known /\ Down(n) => ~Idle

LEMMA EachEventLess ==
    ASSUME NEW n \in Nat \ {0}, NEW m \in Nat, n = m + 1
    PROVE  OneEventLess(n, m)
<1>1. Known => Len(events) \in Nat /\ (events = <<>> => Len(events) = 0)
  BY DEF Known, TypeOK
<1>2. ASSUME Known, Down(n), Dispatch PROVE DownAtMost(m)'
  BY <1>2, QueueTaken DEF Dispatch, Down, DownAtMost, Known
<1>3. ASSUME Known, Down(n), handler = "idle", <<EventLoop>>_vars
      PROVE  DownAtMost(m)'
  BY <1>2, <1>3 DEF EventLoop, StartNtp, WaitNtp, LeaveNtp, CreateServer, OnGotIp,
     StopServer, Rejoin, Abort
<1>4. ASSUME Known, Down(n), [Next]_vars, [Calmly]_vars
      PROVE  Down(n)' \/ DownAtMost(m)'
  <2>1. CASE Dispatch
    BY <1>2, <1>4, <2>1
  <2>2. CASE Rejoin
    BY <2>2 DEF Rejoin, DownAtMost
  <2>3. CASE Abort
    BY <1>4, <2>3 DEF Abort, Calmly, Known, OutageKnown, Down, vars
  <2>4. CASE UNCHANGED <<link, events>>
    BY <1>4, <2>4 DEF Down
  <2>5. CASE Boot \/ Join \/ LoseLink \/ NewAddress
    BY <1>4, <2>5 DEF Boot, Join, LoseLink, NewAddress, Down, DownAtMost
  <2>6. QED
    BY <1>4, <2>1, <2>2, <2>3, <2>4, <2>5 DEF Next, EventLoop, vars, net, Connected,
       StartNtp, WaitNtp, LeaveNtp, CreateServer, OnGotIp, StopServer, Serve, Watch,
       NewServer, Startup, CheckRunning, Iterate, Shutdown
<1>5. Known => (DownAtMost(n) <=> Down(n) \/ DownAtMost(m))
  BY <1>1 DEF Down, DownAtMost
<1>6. Known /\ Down(n) => ~Idle
  BY <1>1 DEF Down, Idle
<1>7. QED
  BY <1>3, <1>4, <1>5, <1>6 DEF OneEventLess

LEMMA RejoinStep ==
    /\ Known /\ Len(events) <= 32 /\ link = "down" => DownAtMost(32)
    /\ Known /\ DownAtMost(0) => link = "joining" \/ Down(0)
    /\ Known /\ Down(0) => ~(handler = "idle")
    /\ Known /\ Down(0) /\ [Next]_vars /\ [Calmly]_vars
         => Down(0)' \/ (link = "joining")'
    /\ handler = "idle" /\ [Next]_vars => (handler = "idle")' \/ <<EventLoop>>_vars
<1>1. Known => Len(events) \in Nat
  BY DEF Known, TypeOK
<1>2. Known /\ Len(events) <= 32 /\ link = "down" => DownAtMost(32)
  BY DEF DownAtMost
<1>3. Known /\ DownAtMost(0) => link = "joining" \/ Down(0)
  BY <1>1 DEF DownAtMost, Down
<1>4. Known /\ Down(0) => ~(handler = "idle") /\ events = <<>>
  <2>1. Known /\ Down(0) => handler \in {"stop", "rejoin"}
    BY DEF Known, Down, OutageKnown, Queued
  <2>2. QED
    BY <2>1 DEF Known, OutageLast
<1>5. ASSUME Known, Down(0), [Next]_vars, [Calmly]_vars
      PROVE  Down(0)' \/ (link = "joining")'
  BY <1>4, <1>5 DEF Down, Next, EventLoop, vars, net, Boot, Connected, Join, LoseLink,
     NewAddress, Dispatch, StartNtp, WaitNtp, LeaveNtp, CreateServer, OnGotIp,
     StopServer, Rejoin, Abort, Calmly, Serve, Watch, NewServer, Startup,
     CheckRunning, Iterate, Shutdown
<1>6. ASSUME handler = "idle", [Next]_vars
      PROVE  (handler = "idle")' \/ <<EventLoop>>_vars
  <2>1. CASE EventLoop
    BY <1>6, <2>1 DEF EventLoop, Dispatch, StartNtp, WaitNtp, LeaveNtp, CreateServer,
       OnGotIp, StopServer, Rejoin, Abort, vars
  <2>2. CASE ~EventLoop
    BY <1>6, <2>2 DEF Next, vars, Boot, Connected, Join, LoseLink, NewAddress, Serve,
       Watch, NewServer, Startup, CheckRunning, Iterate, Shutdown
  <2>3. QED
    BY <2>1, <2>2
<1>7. QED
  BY <1>2, <1>3, <1>4, <1>5, <1>6

LEMMA JoinStep ==
    /\ TypeOK => link = "off" \/ link = "joining" \/ link = "up" \/ link = "down"
    /\ Known /\ link = "off" => app = "boot"
    /\ Known /\ link = "off" /\ [Next]_vars => (link = "off")' \/ (link = "joining")'
    /\ <<Boot>>_vars => (link = "joining")'
    /\ Known /\ link = "joining" /\ [Next]_vars /\ [Calmly]_vars
         => (link = "joining")' \/ (link = "up")'
    /\ <<Join>>_vars => (link = "up")'
<1>1. TypeOK => link = "off" \/ link = "joining" \/ link = "up" \/ link = "down"
  BY DEF TypeOK
<1>2. Known /\ link = "off" => app = "boot" /\ ~(handler \in {"stop", "rejoin"})
  BY DEF Known, OutageLast, OutageKnown
<1>3. ASSUME Known, link = "off", [Next]_vars
      PROVE  (link = "off")' \/ (link = "joining")'
  BY <1>2, <1>3 DEF Next, EventLoop, vars, net, Boot, Connected, Join, LoseLink,
     NewAddress, Dispatch, StartNtp, WaitNtp, LeaveNtp, CreateServer, OnGotIp,
     StopServer, Rejoin, Abort, Serve, Watch, NewServer, Startup, CheckRunning,
     Iterate, Shutdown
<1>4. ASSUME Known, link = "joining", [Next]_vars, [Calmly]_vars
      PROVE  (link = "joining")' \/ (link = "up")'
  BY <1>4 DEF Next, EventLoop, vars, net, Boot, Connected, Join, LoseLink,
     NewAddress, Dispatch, StartNtp, WaitNtp, LeaveNtp, CreateServer, OnGotIp,
     StopServer, Rejoin, Abort, Calmly, Serve, Watch, NewServer, Startup,
     CheckRunning, Iterate, Shutdown
<1>5. (<<Boot>>_vars => (link = "joining")') /\ (<<Join>>_vars => (link = "up")')
  BY DEF Boot, Join
<1>6. QED
  BY <1>1, <1>2, <1>3, <1>4, <1>5

\* The queue of the event loop (CONFIG_ESP_SYSTEM_EVENT_QUEUE_SIZE).
QueueSize == [](Len(events) <= 32)

\* The station is connected again after every outage, whatever waits before the
\* disconnection in the queue, if in the end it can join.
THEOREM StationReturns ==
    ASSUME NtpRetries <= 10
    PROVE  SafeSpec /\ Boots /\ Joins /\ Loops /\ Calm /\ QueueSize => NetworkReturns
<1> DEFINE Safe == /\ [][Next]_vars /\ []Known /\ [][Calmly]_vars
                   /\ []<>(handler = "idle") /\ Loops
<1>1. Safe => (DownAtMost(32) ~> DownAtMost(24))
  <2>1. /\ OneEventLess(32, 31) /\ OneEventLess(31, 30) /\ OneEventLess(30, 29)
        /\ OneEventLess(29, 28) /\ OneEventLess(28, 27) /\ OneEventLess(27, 26)
        /\ OneEventLess(26, 25) /\ OneEventLess(25, 24)
    BY EachEventLess
  <2>2. QED
    BY <2>1, RejoinStep, PTL DEF Loops, OneEventLess
<1>2. Safe => (DownAtMost(24) ~> DownAtMost(16))
  <2>1. /\ OneEventLess(24, 23) /\ OneEventLess(23, 22) /\ OneEventLess(22, 21)
        /\ OneEventLess(21, 20) /\ OneEventLess(20, 19) /\ OneEventLess(19, 18)
        /\ OneEventLess(18, 17) /\ OneEventLess(17, 16)
    BY EachEventLess
  <2>2. QED
    BY <2>1, RejoinStep, PTL DEF Loops, OneEventLess
<1>3. Safe => (DownAtMost(16) ~> DownAtMost(8))
  <2>1. /\ OneEventLess(16, 15) /\ OneEventLess(15, 14) /\ OneEventLess(14, 13)
        /\ OneEventLess(13, 12) /\ OneEventLess(12, 11) /\ OneEventLess(11, 10)
        /\ OneEventLess(10, 9) /\ OneEventLess(9, 8)
    BY EachEventLess
  <2>2. QED
    BY <2>1, RejoinStep, PTL DEF Loops, OneEventLess
<1>4. Safe => (DownAtMost(8) ~> DownAtMost(0))
  <2>1. /\ OneEventLess(8, 7) /\ OneEventLess(7, 6) /\ OneEventLess(6, 5)
        /\ OneEventLess(5, 4) /\ OneEventLess(4, 3) /\ OneEventLess(3, 2)
        /\ OneEventLess(2, 1) /\ OneEventLess(1, 0)
    BY EachEventLess
  <2>2. QED
    BY <2>1, RejoinStep, PTL DEF Loops, OneEventLess
<1>5. Safe => (DownAtMost(0) ~> link = "joining")
  BY RejoinStep, PTL
<1>6. Safe /\ QueueSize => (link = "down" ~> link = "joining")
  BY <1>1, <1>2, <1>3, <1>4, <1>5, RejoinStep, PTL DEF QueueSize, Loops
<1>7. Safe /\ Joins => (link = "joining" ~> link = "up")
  BY JoinStep, PTL DEF Joins
<1>8. Safe /\ Boots => (link = "off" ~> link = "joining")
  BY JoinStep, PTL DEF Boots
<1>9. Safe /\ Boots /\ Joins /\ QueueSize => (~(link = "up") ~> link = "up")
  <2>1. Known => link = "off" \/ link = "joining" \/ link = "up" \/ link = "down"
    BY JoinStep DEF Known
  <2>2. QED
    BY <1>6, <1>7, <1>8, <2>1, PTL DEF Loops, Boots, Joins, QueueSize
<1>10. SafeSpec => []Known
  BY KnownAlways
<1>11. link # "up" <=> ~(link = "up")
  OBVIOUS
<1>12. QED
  BY <1>9, <1>10, <1>11, HandlersEnd, PTL
     DEF SafeSpec, Calm, Loops, Boots, Joins, QueueSize, NetworkReturns
=============================================================================
