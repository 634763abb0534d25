--------------------------- MODULE ServerLifecycle ---------------------------
(***************************************************************************)
(* The life of the OPC UA server: app_main, the handlers of the network's  *)
(* events and the server task of main/opcua_esp32.c, with the handlers of  *)
(* components/ethernet/ethernet_connect.c for the same events (WiFi, as in *)
(* sdkconfig).                                                             *)
(*                                                                         *)
(* All handlers run in the event loop's task, one event at a time, in the  *)
(* order of their registration: opc_event_handler before on_got_ip, and    *)
(* disconnect_handler before on_wifi_disconnect.  The server task runs     *)
(* beside them and reads the flag running.                                 *)
(***************************************************************************)
EXTENDS Naturals, Sequences

CONSTANTS
    Servers,        \* the tasks that could be created with opcua_task
    MaxWdtErrors,   \* max_watchdog_errors
    NtpRetries,     \* retry_count of obtain_time
    Faults,         \* what may fail: "add", "new", "startup", "create", "wifi"
    MaxFaults,      \* bound of the model: failures
    MaxIncidents    \* bound of the model: lost links, failed joins, new addresses

ASSUME ServersAssumption == "events" \notin Servers
ASSUME BoundsAssumption ==
    /\ MaxWdtErrors \in Nat \ {0} /\ NtpRetries \in Nat
    /\ MaxFaults \in Nat /\ MaxIncidents \in Nat

VARIABLES
    app,                \* app_main
    link,               \* the WiFi station, with its address
    events,             \* queue of the default event loop
    handler,            \* where the event loop's task is
    retry,              \* of obtain_time
    sntp,               \* esp_sntp_initialized
    running,            \* written by disconnect_handler
    isServerCreated,
    gotIp,              \* GOT_IPV4_BIT of s_connect_event_group
    server,             \* control point of each server task
    errors,             \* watchdog_reset_errors of each server task
    watched,            \* tasks subscribed to the task watchdog
    faults, incidents   \* how many so far

net == <<link, events>>
flags == <<sntp, running, isServerCreated, gotIp>>
tasks == <<server, errors>>
vars == <<app, net, handler, retry, flags, tasks, watched, faults, incidents>>

TypeOK ==
    /\ app \in {"boot", "wait", "returned"}
    /\ link \in {"off", "joining", "up", "down"}
    /\ events \in Seq({"gotIp", "disconnected"})
    /\ handler \in {"idle", "time", "ntp", "create", "ip", "stop", "rejoin"}
    /\ retry \in 0..NtpRetries
    /\ sntp \in BOOLEAN /\ running \in BOOLEAN
    /\ isServerCreated \in BOOLEAN /\ gotIp \in BOOLEAN
    /\ server \in [Servers -> {"none", "watch", "new", "startup", "check",
                               "iterate", "shutdown", "ended", "stillborn"}]
    /\ errors \in [Servers -> 0..MaxWdtErrors]
    /\ watched \subseteq Servers \cup {"events"}
    /\ faults \in 0..MaxFaults /\ incidents \in 0..MaxIncidents

-----------------------------------------------------------------------------
Init ==
    /\ app = "boot" /\ link = "off" /\ events = <<>>
    /\ handler = "idle" /\ retry = 0
    /\ sntp = FALSE /\ running = TRUE /\ isServerCreated = FALSE /\ gotIp = FALSE
    /\ server = [s \in Servers |-> "none"]
    /\ errors = [s \in Servers |-> 0]
    /\ watched = {}
    /\ faults = 0 /\ incidents = 0

Fails(kind) == kind \in Faults /\ faults < MaxFaults /\ faults' = faults + 1

\* Something happens to the network, as often as the bound allows.
Incident == incidents < MaxIncidents /\ incidents' = incidents + 1
Post(event) == events' = Append(events, event)

\* app_main starts the polling task, then the network, whose handlers it
\* registers before example_connect asks for the connection.
Boot ==
    /\ app = "boot"
    /\ app' = "wait"
    /\ link' = "joining"
    /\ UNCHANGED <<events, handler, retry, flags, tasks, watched, faults, incidents>>

\* example_connect has its bit, clears it, and app_main returns.
Connected ==
    /\ app = "wait" /\ gotIp
    /\ app' = "returned"
    /\ gotIp' = FALSE
    /\ UNCHANGED <<net, handler, retry, sntp, running, isServerCreated, tasks,
                   watched, faults, incidents>>

\* The station joins and gets an address; or does not join.
Join ==
    /\ link = "joining"
    /\ link' = "up"
    /\ Post("gotIp")
    /\ UNCHANGED <<app, handler, retry, flags, tasks, watched, faults, incidents>>

LoseLink ==
    /\ link \in {"joining", "up"}
    /\ Incident
    /\ link' = "down"
    /\ Post("disconnected")
    /\ UNCHANGED <<app, handler, retry, flags, tasks, watched, faults>>

\* DHCP assigns another address to a station that is up.
NewAddress ==
    /\ link = "up"
    /\ Incident
    /\ Post("gotIp")
    /\ UNCHANGED <<app, link, handler, retry, flags, tasks, watched, faults>>

-----------------------------------------------------------------------------
(* The event loop's task.                                                  *)

Dispatch ==
    /\ handler = "idle" /\ events # <<>>
    /\ handler' = IF Head(events) = "gotIp" THEN "time" ELSE "stop"
    /\ events' = Tail(events)
    /\ UNCHANGED <<app, link, retry, flags, tasks, watched, faults, incidents>>

\* opc_event_handler asks for the time once; timeinfo is zero until then.
\* obtain_time puts the event loop's task under the watchdog; a failure of
\* that is only logged.
StartNtp ==
    /\ handler = "time"
    /\ \/ /\ sntp
          /\ handler' = "create"
          /\ UNCHANGED <<sntp, retry, watched, faults>>
       \/ /\ ~sntp
          /\ sntp' = TRUE
          /\ retry' = 0
          /\ handler' = "ntp"
          /\ \/ watched' = watched \cup {"events"} /\ UNCHANGED faults
             \/ Fails("add") /\ UNCHANGED watched
    /\ UNCHANGED <<app, net, running, isServerCreated, gotIp, tasks, incidents>>

\* Mutant of WaitNtp: the retries are not limited.
WaitNtpUncounted ==
    /\ handler = "ntp" /\ retry < NtpRetries
    /\ retry' = (retry + 1) % NtpRetries
    /\ UNCHANGED <<app, net, handler, flags, tasks, watched, faults, incidents>>

\* Another 2 s of waiting for the time, no event is handled meanwhile.
WaitNtp ==
    /\ handler = "ntp" /\ retry < NtpRetries
    /\ retry' = retry + 1
    /\ UNCHANGED <<app, net, handler, flags, tasks, watched, faults, incidents>>

\* The time has come or has not; the server is created without it too.
LeaveNtp ==
    /\ handler = "ntp"
    /\ watched' = watched \ {"events"}
    /\ handler' = "create"
    /\ UNCHANGED <<app, net, retry, flags, tasks, faults, incidents>>

\* Mutant of CreateServer: isServerCreated is set and never looked at.
CreateServerAgain ==
    /\ handler = "create"
    /\ handler' = "ip"
    /\ \/ \A s \in Servers : server[s] # "none"
          /\ UNCHANGED <<isServerCreated, server, errors, faults>>
       \/ /\ \E s \in Servers :
                /\ server[s] = "none"
                /\ server' = [server EXCEPT ![s] = "watch"]
                /\ errors' = [errors EXCEPT ![s] = 0]
          /\ isServerCreated' = TRUE
          /\ UNCHANGED faults
       \/ /\ Fails("create")
          /\ UNCHANGED <<isServerCreated, server, errors>>
    /\ UNCHANGED <<app, net, retry, sntp, running, gotIp, watched, incidents>>

CreateServer ==
    /\ handler = "create"
    /\ handler' = "ip"
    /\ \/ isServerCreated /\ UNCHANGED <<isServerCreated, server, errors, faults>>
       \/ /\ ~isServerCreated
          /\ \E s \in Servers :
                /\ server[s] = "none"
                /\ server' = [server EXCEPT ![s] = "watch"]
                /\ errors' = [errors EXCEPT ![s] = 0]
          /\ isServerCreated' = TRUE
          /\ UNCHANGED faults
       \/ /\ ~isServerCreated
          /\ Fails("create")
          /\ UNCHANGED <<isServerCreated, server, errors>>
    /\ UNCHANGED <<app, net, retry, sntp, running, gotIp, watched, incidents>>

OnGotIp ==
    /\ handler = "ip"
    /\ gotIp' = TRUE
    /\ handler' = "idle"
    /\ UNCHANGED <<app, net, retry, sntp, running, isServerCreated, tasks, watched,
                   faults, incidents>>

\* disconnect_handler.
StopServer ==
    /\ handler = "stop"
    /\ running' = FALSE
    /\ handler' = "rejoin"
    /\ UNCHANGED <<app, net, retry, sntp, isServerCreated, gotIp, tasks, watched,
                   faults, incidents>>

\* Mutant of Rejoin: no esp_wifi_connect after a lost link.
RejoinForgotten ==
    /\ handler = "rejoin"
    /\ handler' = "idle"
    /\ UNCHANGED <<app, net, retry, flags, tasks, watched, faults, incidents>>

\* on_wifi_disconnect asks for a new connection.  (It returns early when the
\* driver is not started, as it is only once the shutdown handler stop has run,
\* on the way to a reset.)
Rejoin ==
    /\ handler = "rejoin"
    /\ link' = "joining"
    /\ handler' = "idle"
    /\ UNCHANGED <<app, events, retry, flags, tasks, watched, faults, incidents>>

\* ESP_ERROR_CHECK aborts when the driver refuses, and the processor restarts.
Abort ==
    /\ handler = "rejoin"
    /\ Fails("wifi")
    /\ app' = "boot" /\ link' = "off" /\ events' = <<>>
    /\ handler' = "idle" /\ retry' = 0
    /\ sntp' = FALSE /\ running' = TRUE /\ isServerCreated' = FALSE /\ gotIp' = FALSE
    /\ server' = [s \in Servers |-> "none"]
    /\ errors' = [s \in Servers |-> 0]
    /\ watched' = {}
    /\ UNCHANGED incidents

EventLoop == \/ Dispatch \/ StartNtp \/ WaitNtp \/ LeaveNtp \/ CreateServer
             \/ OnGotIp \/ StopServer \/ Rejoin \/ Abort

-----------------------------------------------------------------------------
(* opcua_task.                                                             *)

Goto(s, label) == server' = [server EXCEPT ![s] = label]

\* Mutant of Watch: opcua_task does not call esp_task_wdt_add.
WatchForgotten(s) ==
    /\ server[s] = "watch"
    /\ Goto(s, "new")
    /\ UNCHANGED <<app, net, handler, retry, flags, errors, watched, faults, incidents>>

\* esp_task_wdt_add: a failure is only logged.
Watch(s) ==
    /\ server[s] = "watch"
    /\ Goto(s, "new")
    /\ \/ watched' = watched \cup {s} /\ UNCHANGED faults
       \/ Fails("add") /\ UNCHANGED watched
    /\ UNCHANGED <<app, net, handler, retry, flags, errors, incidents>>

\* Mutant of NewServer: the task sets running itself.
NewServerRunning(s) ==
    /\ server[s] = "new"
    /\ \/ Goto(s, "startup") /\ UNCHANGED faults
       \/ Goto(s, "stillborn") /\ Fails("new")
    /\ running' = TRUE
    /\ UNCHANGED <<app, net, handler, retry, sntp, isServerCreated, gotIp,
                   errors, watched, incidents>>

\* UA_Server_new; without a server the task deletes itself at once, and does
\* not leave the watchdog.
NewServer(s) ==
    /\ server[s] = "new"
    /\ \/ Goto(s, "startup") /\ UNCHANGED faults
       \/ Goto(s, "stillborn") /\ Fails("new")
    /\ UNCHANGED <<app, net, handler, retry, flags, errors, watched, incidents>>

\* Mutant of Startup: the task ends without a farewell to the watchdog.
StartupLeavesWatchdog(s) ==
    /\ server[s] = "startup"
    /\ \/ Goto(s, "check") /\ UNCHANGED faults
       \/ Goto(s, "ended") /\ Fails("startup")
    /\ UNCHANGED <<app, net, handler, retry, flags, errors, watched, incidents>>

\* The variables are added and UA_Server_run_startup opens the port.
Startup(s) ==
    /\ server[s] = "startup"
    /\ \/ Goto(s, "check") /\ UNCHANGED <<watched, faults>>
       \/ Goto(s, "ended") /\ watched' = watched \ {s} /\ Fails("startup")
    /\ UNCHANGED <<app, net, handler, retry, flags, errors, incidents>>

\* while (running)
CheckRunning(s) ==
    /\ server[s] = "check"
    /\ Goto(s, IF running THEN "iterate" ELSE "shutdown")
    /\ UNCHANGED <<app, net, handler, retry, flags, errors, watched, faults, incidents>>

\* Mutant of Iterate: errors of the watchdog are counted without a limit.
IterateUnlimited(s) ==
    /\ server[s] = "iterate"
    /\ errors' = [errors EXCEPT ![s] = IF s \in watched THEN 0 ELSE @ + 1]
    /\ Goto(s, "check")
    /\ UNCHANGED <<app, net, handler, retry, flags, watched, faults, incidents>>

\* UA_Server_run_iterate, then esp_task_wdt_reset, which fails for a task that
\* is not subscribed.
Iterate(s) ==
    /\ server[s] = "iterate"
    /\ errors' = [errors EXCEPT ![s] = IF s \in watched THEN 0 ELSE @ + 1]
    /\ Goto(s, IF errors'[s] >= MaxWdtErrors THEN "shutdown" ELSE "check")
    /\ UNCHANGED <<app, net, handler, retry, flags, watched, faults, incidents>>

Shutdown(s) ==
    /\ server[s] = "shutdown"
    /\ Goto(s, "ended")
    /\ watched' = watched \ {s}
    /\ UNCHANGED <<app, net, handler, retry, flags, errors, faults, incidents>>

Serve(s) == \/ Watch(s) \/ NewServer(s) \/ Startup(s) \/ CheckRunning(s)
            \/ Iterate(s) \/ Shutdown(s)

Next == \/ Boot \/ Connected \/ Join \/ LoseLink \/ NewAddress \/ EventLoop
        \/ \E s \in Servers : Serve(s)

SafeSpec == Init /\ [][Next]_vars

\* The tasks are scheduled, and the access point lets the station join in the
\* end.
Spec == /\ SafeSpec
        /\ WF_vars(Boot) /\ WF_vars(Connected) /\ WF_vars(Join)
        /\ WF_vars(EventLoop)
        /\ \A s \in Servers : WF_vars(Serve(s))

-----------------------------------------------------------------------------
Live(s) == server[s] \notin {"none", "ended", "stillborn"}
Serving == \E s \in Servers : server[s] \in {"check", "iterate"}

\* However often an address is assigned, the server (one port, one set of
\* hardware) has one task.
AtMostOneServer == \A s, r \in Servers : Live(s) /\ Live(r) => s = r

\* The watchdog waits for no task that has ended, nor for the event loop when
\* it has nothing to do: either would make it bark for ever.  The one exit of
\* opcua_task that forgets the watchdog is excepted.
WatchedWhileWorking ==
    /\ \A s \in Servers : s \in watched => Live(s) \/ server[s] = "stillborn"
    /\ "events" \in watched => handler = "ntp"

\* A server that is told to stop stops, also if it is told while it starts.
ServerStops == \A s \in Servers : ~running /\ Live(s) ~> ~Live(s)

\* The station is connected again after every outage, and app_main gets past
\* its wait for the address, whatever happens during the wait for the time.
NetworkReturns == link # "up" ~> link = "up"
AppReturns == <>(app = "returned")

\* A server whose network is never lost comes up and stays up, if nothing
\* fails.
StaysUp == [](running /\ faults = 0) => <>[]Serving

\* "Automatic reconnection on network failure": once the network is back for
\* good, so is the server.
ServerReturns == <>[](link = "up") => <>[]Serving
=============================================================================
