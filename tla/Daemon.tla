-------------------------------- MODULE Daemon --------------------------------
(***************************************************************************)
(* The daemon on its way through sleep and shutdown: the monitor of logind  *)
(* (src/src/daemon/logind.cpp), the power handler and the resume threads    *)
(* (src/src/daemon/main.cpp) over the engine of Companion.                  *)
(*                                                                         *)
(* logind announces a sleep or a shutdown, waits until the delay locks are  *)
(* released or its patience is over, and goes ahead. The handler runs on    *)
(* the monitor's thread; the daemon stands still while the machine sleeps.  *)
(* Time passes, in half seconds, while the handler waits for the sessions;  *)
(* everything else takes none.                                              *)
(***************************************************************************)
EXTENDS Companion, Sequences

CONSTANTS
    Resumes,         \* the threads that main.cpp detaches, one for each wake-up
    PowerOnAtLogin,  \* the setting
    Metadata,        \* logind tells the kind of a shutdown
    InhibitDelay,    \* InhibitDelayMaxUSec
    MaxRequests,     \* bound: sleeps and shutdowns asked for
    MaxReports       \* bound: reports of the user

ASSUME DaemonAssumption ==
    /\ Threads = {"bus", "main", "socket"} \cup Resumes
    /\ Resumes \cap {"bus", "main", "socket"} = {}
    /\ PowerOnAtLogin \in BOOLEAN
    /\ Metadata \in BOOLEAN
    /\ InhibitDelay \in Nat
    /\ MaxRequests \in Nat
    /\ MaxReports \in Nat

VARIABLES
    machine,   \* logind: [phase, kind, elapsed, cancelled]
    signals,   \* on the monitor's bus connection
    monitor,   \* [lock, handled]: inhibitor_fd_ >= 0, shutdown_handled_
    script,    \* each thread: the steps it has yet to take
    waited,    \* how long the handler has waited in its present wait
    screen,    \* what each display shows, "unknown" after a session that gave up
    user,      \* what the idle helper reported last: "busy" or "idle"
    haste,     \* history: which requests came before the daemon was done with the last
    left       \* requests and reports that the bounds still allow

world == <<machine, signals, monitor, script, waited, screen, user, haste, left>>

vars == <<engine, world>>

Kinds == {"sleep", "poweroff", "reboot"}

Pictures == {"on", "off", "blank", "unknown"}

\* The margin of the drain is one half second; the wait of a suspend ends after nine.
DrainBudget == IF InhibitDelay > 1 THEN InhibitDelay - 1 ELSE 1

SuspendWait == 18

Types == {"TYPE_UNDEFINED", "TYPE_SHUTDOWN", "TYPE_REBOOT", "TYPE_UNSURE"}

TypeOf(step) == CASE step = "TYPE_SHUTDOWN" -> "SHUTDOWN"
                  [] step = "TYPE_REBOOT"   -> "REBOOT"
                  [] step = "TYPE_UNSURE"   -> "UNSURE"
                  [] OTHER                  -> "UNDEFINED"

Steps == Types \cup SystemEvents \cup {"REBOOT", "drain", "release", "wake", "network"}

-----------------------------------------------------------------------------
(* What main.cpp does, thread by thread.                                    *)

\* The event of the start only notes the time of it, and is left out.
Startup == IF PowerOnAtLogin THEN <<"network", "DISPLAYON">> ELSE <<>>

SuspendScript == <<"SUSPEND", "drain", "release">>

\* Mutant: the lock is given up as soon as the work is queued.
ShutdownScriptAtOnce(type) == <<type, "SHUTDOWN", "release">>

ShutdownScript(type) == <<type, "SHUTDOWN", "drain", "release">>

\* Mutant: the engine hears of the shutdown before its kind.
RebootScriptLate == <<"SHUTDOWN", "TYPE_REBOOT", "drain", "release">>

RebootScript == <<"TYPE_REBOOT", "REBOOT", "drain", "release">>

\* Mutant: a resume restores the power status and no more.
ResumeScriptShort == <<"wake", "network", "TYPE_UNDEFINED", "RESUME">>

ResumeScript == <<"wake", "network", "TYPE_UNDEFINED", "RESUME", "DISPLAYON">>

Init ==
    /\ EngineInit
    /\ machine = [phase |-> "awake", kind |-> "sleep", elapsed |-> 0, cancelled |-> FALSE]
    /\ signals = <<>>
    /\ monitor = [lock |-> TRUE, handled |-> FALSE]
    /\ script = [t \in Threads |-> IF t = "main" THEN Startup ELSE <<>>]
    /\ waited = 0
    /\ screen \in [Device -> {"on", "off"}]
    /\ user = "busy"
    /\ haste = {}
    /\ left = [requests |-> MaxRequests, reports |-> MaxReports]

Up == machine.phase \in {"awake", "going", "stopping"}

Idle(t) == call[t].at = "idle" /\ script[t] = <<>>

Rest(t) == script' = [script EXCEPT ![t] = Tail(@)]

AtStep(t, steps) == Up /\ call[t].at = "idle" /\ script[t] # <<>> /\ Head(script[t]) \in steps

-----------------------------------------------------------------------------
(* The steps of a script.                                                   *)

TellType(t) ==
    /\ AtStep(t, Types)
    /\ ShutdownType(t, TypeOf(Head(script[t])))
    /\ Rest(t)
    /\ UNCHANGED <<machine, signals, monitor, waited, screen, user, haste, left>>

TellEvent(t) ==
    /\ AtStep(t, SystemEvents)
    /\ SystemEvent(t, Head(script[t]))
    /\ Rest(t)
    /\ UNCHANGED <<machine, signals, monitor, waited, screen, user, haste, left>>

\* systemEvent has no case for a reboot. The network comes back, or thirty seconds pass.
Skip(t) ==
    /\ AtStep(t, {"REBOOT", "network"})
    /\ Rest(t)
    /\ UNCHANGED <<engine, machine, signals, monitor, waited, screen, user, haste, left>>

\* The early magic packet needs no network, and no session knows of it.
WakeRaw(t) ==
    /\ AtStep(t, {"wake"})
    /\ Rest(t)
    /\ screen' \in {screen, [d \in Device |-> IF d \in prefs.enabled THEN "on" ELSE screen[d]]}
    /\ UNCHANGED <<engine, machine, signals, monitor, waited, user, haste, left>>

Drain ==
    /\ AtStep("bus", {"drain"})
    /\ IsBusy => waited >= DrainBudget
    /\ Rest("bus")
    /\ waited' = 0
    /\ UNCHANGED <<engine, machine, signals, monitor, screen, user, haste, left>>

\* Mutant: the file descriptor of the lock stays open.
ReleaseNothing ==
    /\ AtStep("bus", {"release"})
    /\ Rest("bus")
    /\ UNCHANGED <<engine, machine, signals, monitor, waited, screen, user, haste, left>>

ReleaseInhibitor ==
    /\ AtStep("bus", {"release"})
    /\ monitor' = [monitor EXCEPT !.lock = FALSE]
    /\ Rest("bus")
    /\ UNCHANGED <<engine, machine, signals, waited, screen, user, haste, left>>

\* The engine goes on with the event of a thread.
Process(t) ==
    /\ Up
    /\ ProcessEvent(t) \/ PostProcess(t)
    /\ UNCHANGED world

Settle ==
    /\ Up
    /\ EndSettle("bus", waited >= SuspendWait)
    /\ waited' = 0
    /\ UNCHANGED <<machine, signals, monitor, script, screen, user, haste, left>>

\* A display does what it was asked last.
Acknowledge(d) ==
    /\ Up
    /\ SessionEnds(d)
    /\ screen' = [screen EXCEPT ![d] = session[d].asked]
    /\ UNCHANGED <<machine, signals, monitor, script, waited, user, haste, left>>

\* The session gives up after its last retry, or the close of a lingering connection
\* clears what was queued meanwhile. The engine sees no more than that it is no longer
\* busy; the display shows whatever it got to of all it was asked.
GivesUp(d) ==
    /\ Up
    /\ SessionEnds(d)
    /\ screen' = [screen EXCEPT ![d] = "unknown"]
    /\ UNCHANGED <<machine, signals, monitor, script, waited, user, haste, left>>

\* The idle helper of the session tells the control socket what the user does, who does
\* nothing more once the machine was told to sleep or to stop.
Report ==
    /\ machine.phase = "awake"
    /\ left.reports > 0
    /\ left' = [left EXCEPT !.reports = @ - 1]
    /\ UserReport("socket", IF user = "busy" THEN "USERIDLE" ELSE "USERBUSY")
    /\ user' = IF user = "busy" THEN "idle" ELSE "busy"
    /\ UNCHANGED <<machine, signals, monitor, script, waited, screen, haste>>

-----------------------------------------------------------------------------
(* The monitor of logind.                                                   *)

Signal(name, goingDown) ==
    /\ Up
    /\ Idle("bus")
    /\ signals # <<>>
    /\ Head(signals).name = name
    /\ Head(signals).goingDown = goingDown
    /\ signals' = Tail(signals)
    /\ UNCHANGED <<engine, machine, waited, screen, user, haste, left>>

Run(t, steps) == script' = [script EXCEPT ![t] = steps]

OnPrepareForSleep ==
    /\ Signal("sleep", TRUE)
    /\ Run("bus", SuspendScript)
    /\ UNCHANGED monitor

\* logind refuses a lock for an operation that has begun.
OnWakeUp ==
    /\ Signal("sleep", FALSE)
    /\ monitor' = [lock |-> machine.phase = "awake", handled |-> FALSE]
    /\ \E t \in Resumes : Idle(t)
    /\ Run(CHOOSE t \in Resumes : Idle(t), ResumeScript)

ScriptOf(kind) == CASE kind = "poweroff" -> ShutdownScript("TYPE_SHUTDOWN")
                    [] kind = "reboot"   -> RebootScript
                    [] OTHER             -> ShutdownScript("TYPE_UNSURE")

\* Mutant: both announcements of a shutdown are acted upon.
HandleEach(kind) ==
    /\ monitor' = [monitor EXCEPT !.handled = TRUE]
    /\ Run("bus", ScriptOf(kind))

Handle(kind) ==
    /\ monitor' = [monitor EXCEPT !.handled = TRUE]
    /\ IF monitor.handled THEN UNCHANGED script ELSE Run("bus", ScriptOf(kind))

OnPrepareForShutdown == Signal("shutdown", TRUE) /\ Handle("unsure")

OnPrepareForShutdownWithMetadata ==
    Signal("metadata", TRUE) /\ Handle(Head(signals).kind)

OnCancelled ==
    /\ Signal("shutdown", FALSE) \/ Signal("metadata", FALSE)
    /\ UNCHANGED <<monitor, script>>

-----------------------------------------------------------------------------
(* logind and the machine.                                                  *)

Announce(name, kind, goingDown) == [name |-> name, kind |-> kind, goingDown |-> goingDown]

\* The richer announcement of a shutdown is sent before the plain one.
Announced(kind, goingDown) ==
    IF kind = "sleep" THEN <<Announce("sleep", kind, goingDown)>>
    ELSE (IF Metadata THEN <<Announce("metadata", kind, goingDown)>> ELSE <<>>)
           \o <<Announce("shutdown", kind, goingDown)>>

AtRest == (\A t \in Threads : Idle(t)) /\ signals = <<>> /\ ~IsBusy

Request(kind) ==
    /\ machine.phase = "awake"
    /\ left.requests > 0
    /\ left' = [left EXCEPT !.requests = @ - 1]
    /\ haste' = haste \cup (IF AtRest THEN {} ELSE {"restless"})
                     \cup (IF monitor.lock /\ signals = <<>> THEN {} ELSE {"unheard"})
    /\ machine' = [machine EXCEPT !.phase = "going", !.kind = kind, !.elapsed = 0]
    /\ signals' = signals \o Announced(kind, TRUE)
    /\ UNCHANGED <<engine, monitor, script, waited, screen, user>>

Waiting ==
    /\ IsBusy
    /\ \/ call["bus"].at = "settle" /\ waited < SuspendWait
       \/ AtStep("bus", {"drain"}) /\ waited < DrainBudget

Tick ==
    /\ Up
    /\ Waiting
    /\ machine.phase = "going" => machine.elapsed < InhibitDelay
    /\ machine' = [machine EXCEPT !.elapsed = IF machine.phase = "going" THEN @ + 1 ELSE @]
    /\ waited' = waited + 1
    /\ UNCHANGED <<engine, signals, monitor, script, screen, user, haste, left>>

Proceed ==
    /\ machine.phase = "going"
    /\ monitor.lock => machine.elapsed = InhibitDelay
    /\ machine' = [machine EXCEPT !.phase = IF machine.kind = "sleep" THEN "asleep"
                                                                     ELSE "stopping"]
    /\ UNCHANGED <<engine, signals, monitor, script, waited, screen, user, haste, left>>

\* The wait of the engine goes by the clock on the wall, the drain by one that stops.
Wake ==
    /\ machine.phase = "asleep"
    /\ machine' = [machine EXCEPT !.phase = "awake", !.elapsed = 0]
    /\ signals' = signals \o Announced("sleep", FALSE)
    /\ waited' = IF call["bus"].at = "settle" THEN SuspendWait ELSE waited
    /\ UNCHANGED <<engine, monitor, script, screen, user, haste, left>>

GoDown ==
    /\ machine.phase = "stopping"
    /\ machine' = [machine EXCEPT !.phase = "down"]
    /\ UNCHANGED <<engine, signals, monitor, script, waited, screen, user, haste, left>>

\* The job of the shutdown fails or is cancelled.
Cancel ==
    /\ machine.phase = "stopping"
    /\ machine' = [machine EXCEPT !.phase = "awake", !.elapsed = 0, !.cancelled = TRUE]
    /\ signals' = signals \o Announced(machine.kind, FALSE)
    /\ UNCHANGED <<engine, monitor, script, waited, screen, user, haste, left>>

-----------------------------------------------------------------------------
ScriptStep(t) ==
    TellType(t) \/ TellEvent(t) \/ Skip(t) \/ WakeRaw(t) \/ Process(t)

Monitor ==
    \/ OnPrepareForSleep \/ OnWakeUp \/ OnPrepareForShutdown
    \/ OnPrepareForShutdownWithMetadata \/ OnCancelled
    \/ Settle \/ Drain \/ ReleaseInhibitor

Machine == Tick \/ Proceed \/ Wake \/ GoDown \/ Cancel

System ==
    \/ \E t \in Threads : ScriptStep(t)
    \/ Monitor
    \/ \E d \in Device : Acknowledge(d) \/ GivesUp(d)
    \/ Machine

Next ==
    \/ System
    \/ Report
    \/ \E kind \in Kinds : Request(kind)

Spec == Init /\ [][Next]_vars

\* The system never rests while a thread can run, a display has something to answer, time
\* can pass, or the machine can do what it announced; every round of it is finite. So each
\* session ends, done or given up: one whose retries put each other off for ever (the run
\* client_livelock) is left out.
Fairness == WF_vars(System)

LiveSpec == Spec /\ Fairness

-----------------------------------------------------------------------------
(* Properties.                                                              *)

TypeOK ==
    /\ EngineTypeOK
    /\ machine \in [phase : {"awake", "going", "asleep", "stopping", "down"}, kind : Kinds,
                    elapsed : 0 .. InhibitDelay, cancelled : BOOLEAN]
    /\ signals \in Seq([name : {"sleep", "metadata", "shutdown"}, kind : Kinds,
                        goingDown : BOOLEAN])
    /\ monitor \in [lock : BOOLEAN, handled : BOOLEAN]
    /\ script \in [Threads -> Seq(Steps)]
    /\ waited \in 0 .. SuspendWait
    /\ screen \in [Device -> Pictures]
    /\ user \in {"busy", "idle"}
    /\ haste \subseteq {"restless", "unheard"}
    /\ left \in [requests : 0 .. MaxRequests, reports : 0 .. MaxReports]

Undisturbed == PowerOnAtLogin /\ ~machine.cancelled

GoneDark ==
    \/ machine.phase = "asleep"
    \/ machine.phase \in {"stopping", "down"} /\ machine.kind = "poweroff"

\* The last thing a display was asked is this, and its session ended without it: it gave
\* up, or dropped it.
Missed(d, ask) ==
    screen[d] = "unknown" /\ ~session[d].pending /\ session[d].asked = ask

\* A machine that sleeps or is off has its displays off, unless the time the drain has
\* was used up and they had not answered, or the session gave the power-off up: the lock
\* outlasts the work, whichever thread queued it and whatever the power status says. That
\* takes a daemon at rest when the sleep is asked for: one that still waits for the
\* network has not declared the displays on.
DarkInTime ==
    Undisturbed /\ haste = {} /\ GoneDark
      => \A d \in managed : screen[d] = "off" \/ Missed(d, "off")
                            \/ machine.elapsed >= DrainBudget

\* Where logind tells a reboot from a shutdown, a reboot asks no display to switch off:
\* the last thing each was asked is still something else.
RebootKeepsLit ==
    (/\ Undisturbed /\ "restless" \notin haste /\ Metadata
     /\ machine.phase \in {"stopping", "down"} /\ machine.kind = "reboot")
      => \A d \in managed : session[d].asked # "off"

\* The daemon has nothing left to do after a start or a wake-up, and the user is there:
\* each display is on, or was asked to be and its session gave up, whatever the resume
\* threads, the start and the control socket did at once, and whatever was under way when
\* the machine was put to sleep. No display is off or blank because it was forgotten.
AwakeIsLit ==
    Undisturbed /\ machine.phase = "awake" /\ AtRest /\ user = "busy"
      => \A d \in managed : screen[d] = "on" \/ Missed(d, "on")

\* The handler of a machine that goes down runs while the lock is held, and once: both
\* announcements of a shutdown would otherwise call it. A request that comes before the
\* monitor heard of the last wake-up finds no lock.
HandlerUnderLock ==
    ~machine.cancelled /\ "unheard" \notin haste /\ script["bus"] # <<>> => monitor.lock

\* A sleep that was asked for comes, ends, and the displays are on or their sessions gave
\* the power-on up, or the user is away, or the machine has been told to go down since.
NightPasses ==
    (Undisturbed /\ machine.phase = "going" /\ machine.kind = "sleep")
      ~> \/ /\ machine.phase = "awake"
            /\ user = "idle" \/ \A d \in managed : screen[d] = "on" \/ Missed(d, "on")
         \/ machine.kind # "sleep"

-----------------------------------------------------------------------------
(* What the program's comments say and its code does not do.                 *)

\* "Leave a margin so we release the lock before logind stops waiting" (main.cpp).
ReleasedInTime == machine.elapsed = InhibitDelay => ~monitor.lock
==============================================================================
