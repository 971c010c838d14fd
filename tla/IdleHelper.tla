------------------------------ MODULE IdleHelper ------------------------------
(***************************************************************************)
(* The idle helper of a graphical session, src/src/idle/main.cpp with the   *)
(* IdleMonitor of src/src/daemon/idle_monitor.cpp, and the daemon at the    *)
(* other end of the control socket.                                         *)
(*                                                                         *)
(* The compositor tells the monitor's thread when the user goes idle and    *)
(* when the user is back; the thread sends the daemon a line of each. The   *)
(* main thread waits for a signal, takes an idle user back and stops the    *)
(* monitor. The daemon may be stopped and started at any time; guests are   *)
(* other clients of the socket, which come and go.                          *)
(***************************************************************************)
EXTENDS ControlSocket

CONSTANTS
    MaxMoves,      \* bound: how often the user goes idle or comes back
    MaxSignals,    \* bound: signals to the helper
    MaxTroubles,   \* bound: stops of the daemon and failures of the Wayland connection
    MaxGuests      \* bound: other clients of the socket

ASSUME IdleAssumption ==
    /\ Clients = {"monitor", "main", "guest"}
    /\ Messages = {"useridle", "userbusy"}
    /\ {MaxMoves, MaxSignals, MaxTroubles, MaxGuests} \subseteq Nat

VARIABLES
    user,      \* the compositor's view: [idle, events], events not read yet
    monitor,   \* the thread of IdleMonitor: [at, batch, idle, conn, running]
    main,      \* the main thread: [at, conn]
    quit,      \* the flag the signal handler sets
    daemon,    \* [told, heard]: the last line, and the connection of the last line of
               \* the monitor and of the main thread
    budget     \* what the bounds still allow

helper == <<user, monitor, main, quit>>

vars == <<server, conns, helper, daemon, budget>>

Line(idle) == IF idle THEN "useridle" ELSE "userbusy"

Init ==
    /\ SocketInit
    /\ user = [idle |-> FALSE, events |-> <<>>]
    /\ monitor = [at |-> "loop", batch |-> <<>>, idle |-> FALSE, conn |-> 0, running |-> TRUE]
    /\ main = [at |-> "test", conn |-> 0]
    /\ quit = FALSE
    /\ daemon = [told |-> Nothing, heard |-> [t \in Clients |-> 0]]
    /\ \E moves \in 0 .. MaxMoves :
         budget = [moves |-> moves, signals |-> MaxSignals, troubles |-> MaxTroubles,
                   guests |-> MaxGuests]

Spend(kind) == budget[kind] > 0 /\ budget' = [budget EXCEPT ![kind] = @ - 1]

-----------------------------------------------------------------------------
(* The monitor's thread.                                                    *)

UserMoves ==
    /\ Spend("moves")
    /\ user' = [idle |-> ~user.idle, events |-> Append(user.events, ~user.idle)]
    /\ UNCHANGED <<socket, monitor, main, quit, daemon>>

\* The loop of run(): the flag is looked at between two polls of at most 200 ms.
MonitorLoop ==
    /\ monitor.at = "loop"
    /\ monitor' = [monitor EXCEPT !.at = IF monitor.running THEN "poll" ELSE "done"]
    /\ UNCHANGED <<socket, user, main, quit, daemon, budget>>

\* All events that have arrived are read, none when the poll times out.
MonitorPoll ==
    /\ monitor.at = "poll"
    /\ monitor' = [monitor EXCEPT !.at = "dispatch", !.batch = user.events]
    /\ user' = [user EXCEPT !.events = <<>>]
    /\ UNCHANGED <<socket, main, quit, daemon, budget>>

\* The Wayland connection fails: the loop is left, and nobody is told.
MonitorBreaks ==
    /\ monitor.at = "poll"
    /\ Spend("troubles")
    /\ monitor' = [monitor EXCEPT !.at = "done"]
    /\ UNCHANGED <<socket, user, main, quit, daemon>>

\* Mutant: the events read are handled as one.
MonitorDispatchFirst ==
    /\ monitor.at = "dispatch"
    /\ monitor' = IF monitor.batch = <<>> THEN [monitor EXCEPT !.at = "loop"]
                  ELSE [monitor EXCEPT !.at = "connect", !.idle = Head(monitor.batch),
                                       !.batch = <<>>]
    /\ UNCHANGED <<socket, user, main, quit, daemon, budget>>

\* onIdled and onResumed: the flag first, then the handler.
MonitorDispatch ==
    /\ monitor.at = "dispatch"
    /\ monitor' = IF monitor.batch = <<>> THEN [monitor EXCEPT !.at = "loop"]
                  ELSE [monitor EXCEPT !.at = "connect", !.idle = Head(monitor.batch),
                                       !.batch = Tail(@)]
    /\ UNCHANGED <<socket, user, main, quit, daemon, budget>>

\* tell, in its two steps; a daemon that cannot be reached is noted and forgotten.
MonitorConnect ==
    /\ monitor.at = "connect"
    /\ \/ /\ Connect("monitor")
          /\ monitor' = [monitor EXCEPT !.at = "write", !.conn = Len(conns')]
       \/ /\ ~server.listening
          /\ monitor' = [monitor EXCEPT !.at = "dispatch"]
          /\ UNCHANGED socket
    /\ UNCHANGED <<user, main, quit, daemon, budget>>

MonitorWrite ==
    /\ monitor.at = "write"
    /\ WriteAndLeave(monitor.conn, Line(monitor.idle))
    /\ monitor' = [monitor EXCEPT !.at = "dispatch", !.conn = 0]
    /\ UNCHANGED <<user, main, quit, daemon, budget>>

Monitoring ==
    \/ MonitorLoop \/ MonitorPoll \/ MonitorDispatch \/ MonitorConnect \/ MonitorWrite

-----------------------------------------------------------------------------
(* The main thread.                                                         *)

\* onSignal runs on the main thread: it wakes a wait, not one that has yet to begin.
Signal ==
    /\ Spend("signals")
    /\ main.at # "exited"
    /\ quit' = TRUE
    /\ main' = IF main.at = "wait" THEN [main EXCEPT !.at = "test"] ELSE main
    /\ UNCHANGED <<socket, user, monitor, daemon>>

\* quit_signal.wait with its predicate: the flag is tested, then the wait begins.
MainTests ==
    /\ main.at = "test"
    /\ main' = [main EXCEPT !.at = IF quit THEN "check" ELSE "sleep"]
    /\ UNCHANGED <<socket, user, monitor, quit, daemon, budget>>

MainWaits ==
    /\ main.at = "sleep"
    /\ main' = [main EXCEPT !.at = "wait"]
    /\ UNCHANGED <<socket, user, monitor, quit, daemon, budget>>

\* Mutant: the helper leaves without a word.
MainLeaves ==
    /\ main.at = "check"
    /\ main' = [main EXCEPT !.at = "stop"]
    /\ UNCHANGED <<socket, user, monitor, quit, daemon, budget>>

\* Leaving the user marked idle would strand the display off.
MainChecks ==
    /\ main.at = "check"
    /\ main' = [main EXCEPT !.at = IF monitor.idle THEN "connect" ELSE "stop"]
    /\ UNCHANGED <<socket, user, monitor, quit, daemon, budget>>

MainConnect ==
    /\ main.at = "connect"
    /\ \/ Connect("main") /\ main' = [at |-> "write", conn |-> Len(conns')]
       \/ ~server.listening /\ main' = [main EXCEPT !.at = "stop"] /\ UNCHANGED socket
    /\ UNCHANGED <<user, monitor, quit, daemon, budget>>

MainWrite ==
    /\ main.at = "write"
    /\ WriteAndLeave(main.conn, "userbusy")
    /\ main' = [at |-> "stop", conn |-> 0]
    /\ UNCHANGED <<user, monitor, quit, daemon, budget>>

\* IdleMonitor::stop.
MainStops ==
    /\ main.at = "stop"
    /\ monitor' = [monitor EXCEPT !.running = FALSE]
    /\ main' = [main EXCEPT !.at = "join"]
    /\ UNCHANGED <<socket, user, quit, daemon, budget>>

MainExits ==
    /\ main.at = "join"
    /\ monitor.at = "done"
    /\ main' = [main EXCEPT !.at = "exited"]
    /\ UNCHANGED <<socket, user, monitor, quit, daemon, budget>>

Leaving ==
    \/ MainTests \/ MainWaits \/ MainChecks \/ MainConnect \/ MainWrite \/ MainStops
    \/ MainExits

-----------------------------------------------------------------------------
(* The daemon and the guests.                                               *)

\* The callback: the engine takes the report.
OnReport ==
    /\ OnLine
    /\ daemon' = [told |-> conns[Subject].line,
                  heard |-> [daemon.heard EXCEPT ![conns[Subject].by] = Subject]]
    /\ UNCHANGED <<helper, budget>>

DaemonHousekeeping == Housekeeping /\ UNCHANGED <<helper, daemon, budget>>

DaemonStops ==
    /\ Spend("troubles")
    /\ Stop
    /\ UNCHANGED <<helper, daemon>>

\* The process ends, and what it was told with it.
DaemonStopped ==
    /\ Stopped
    /\ daemon' = [daemon EXCEPT !.told = Nothing]
    /\ UNCHANGED <<helper, budget>>

DaemonStarts == Start /\ UNCHANGED <<helper, daemon, budget>>

GuestComes ==
    /\ Spend("guests")
    /\ Connect("guest")
    /\ UNCHANGED <<helper, daemon>>

GuestLeaves ==
    /\ \E i \in DOMAIN conns :
         conns[i].by = "guest" /\ ~conns[i].left /\ WriteAndLeave(i, Nothing)
    /\ UNCHANGED <<helper, daemon, budget>>

Serving == OnReport \/ DaemonHousekeeping \/ DaemonStopped

Next ==
    \/ UserMoves \/ Monitoring \/ MonitorBreaks \/ Signal \/ Leaving
    \/ Serving \/ DaemonStops \/ DaemonStarts \/ GuestComes \/ GuestLeaves

Spec == Init /\ [][Next]_vars

\* Every thread runs. A guest leaves in the end: the clients of this repository wait for
\* an answer for a bounded time.
LiveSpec ==
    /\ Spec
    /\ WF_vars(Monitoring) /\ WF_vars(Leaving) /\ WF_vars(Serving) /\ WF_vars(GuestLeaves)

-----------------------------------------------------------------------------
(* Properties.                                                              *)

\* The variables have their types, and a thread holds a connection between the two
\* steps of tell only.
TypeOK ==
    /\ SocketTypeOK
    /\ user \in [idle : BOOLEAN, events : Seq(BOOLEAN)]
    /\ monitor \in [at : {"loop", "poll", "dispatch", "connect", "write", "done"},
                    batch : Seq(BOOLEAN), idle : BOOLEAN, conn : 0 .. Len(conns),
                    running : BOOLEAN]
    /\ (monitor.at = "write") = (monitor.conn # 0)
    /\ main \in [at : {"test", "sleep", "wait", "check", "connect", "write", "stop", "join",
                       "exited"}, conn : 0 .. Len(conns)]
    /\ (main.at = "write") = (main.conn # 0)
    /\ quit \in BOOLEAN
    /\ daemon \in [told : Messages \cup {Nothing}, heard : [Clients -> 0 .. Len(conns)]]

\* While the server runs, a client that waits and a line that was written have a handler
\* that gets to them: each end of a handler starts the operation that follows it.
NoClientForgotten ==
    server.at = "up" =>
      /\ server.accepting \/ \E h \in ToSet(server.handlers) : h.kind \in {"accept", "refused"}
      /\ \A i \in DOMAIN conns :
           conns[i].at = "open" =>
             \/ conns[i].reading /\ conns[i].line = Nothing
             \/ \E h \in ToSet(server.handlers) : h.conn = i

\* The daemon hears the reports of one thread in the order they were made, though each
\* has a connection of its own.
ReportsInOrder == [][\A t \in Clients : daemon'.heard[t] >= daemon.heard[t]]_daemon

\* With the daemon running and the compositor there, the daemon ends up believing what
\* the compositor last said, however fast the user came and went.
LastReportCounts ==
    [](budget.signals = MaxSignals /\ budget.troubles = MaxTroubles)
      => <>[]((daemon.told = "useridle") = user.idle)

\* What has been reported has arrived, and there is nothing to report.
Settled ==
    /\ user.events = <<>> /\ monitor.batch = <<>>
    /\ monitor.at \notin {"connect", "write"}
    /\ \A i \in DOMAIN conns : conns[i].by # "guest" => conns[i].line = Nothing

\* A helper that leaves while nothing else happens does not leave an idle user behind
\* (idle/main.cpp, "Leaving the user marked idle would strand the display off").
ExitLeavesBusy ==
    (/\ main.at = "check" /\ Settled
     /\ budget.moves = 0 /\ budget.troubles = 0 /\ server.at = "up")
      ~> (main.at = "exited" /\ daemon.told # "useridle")

\* A daemon that is told to stop gets rid of its clients and of its own thread.
StopEnds == server.at = "stopping" ~> server.at = "down"
================================================================================
