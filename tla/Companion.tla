------------------------------- MODULE Companion -------------------------------
(***************************************************************************)
(* The engine of the daemon, src/src/daemon/companion.cpp: which power      *)
(* command an event of the system or a message of the control socket        *)
(* becomes, for which display.                                              *)
(*                                                                         *)
(* An event is processed by the thread that brings it: a step for each      *)
(* display (processEvent), then the part that follows for all of them       *)
(* (dispatchEvent, "post processing"), which for a suspend includes a wait  *)
(* of up to nine seconds. No lock keeps two threads apart. A session with a *)
(* display is what WebOsClient shows it to be: it keeps the io_context busy *)
(* until the last power command it accepted has had its outcome.            *)
(***************************************************************************)
EXTENDS Naturals, FiniteSets

CONSTANTS
    Displays,   \* number of devices in the configuration
    Threads,    \* threads that bring events
    Settings    \* configurations, a set of records of Prefs

Device == 1 .. Displays

\* topology is the setting of the file, not the member topology_support_ of the engine.
Prefs == [enabled : SUBSET Device, topology : BOOLEAN, keepOnBoot : BOOLEAN,
          userIdle : BOOLEAN, preferPowerOff : BOOLEAN]

ASSUME CompanionAssumption ==
    /\ Displays \in Nat \ {0}
    /\ Settings \subseteq Prefs

VARIABLES
    prefs,      \* the configuration
    status,     \* [power, remote, type]: windows_power_status_on_, remote_client_connected_,
                \* event_log_callback_status_
    managed,    \* displays under automatic management: device_.enabled
    topology,   \* [support, on]: topology_support_, and the displays it has enabled
    saved,      \* the topology file: [state, on]
    session,    \* each display: what it was asked last, by which event, and whether the
                \* session still works on it
    call        \* each thread: the event it processes, for which displays, and how far it is

engine == <<prefs, status, managed, topology, saved, session, call>>

ShutdownTypes == {"UNDEFINED", "SHUTDOWN", "REBOOT", "UNSURE"}

ForcedEvents == {"FORCE_DISPLAYON", "FORCE_DISPLAYOFF", "FORCE_BLANKSCREEN"}

SystemEvents == {"BOOT", "DISPLAYON", "RESUME", "SUSPEND", "SHUTDOWN"}

Events == ForcedEvents \cup SystemEvents
            \cup {"REBOOT", "UNSURE", "REMOTE_CONNECT", "REMOTE_DISCONNECT", "USERIDLE",
                  "USERBUSY", "TOPOLOGY"}

Asks == {"none", "on", "off", "blank"}

\* An ask is the user's where the user took the display over, and early where a busy
\* user lights it though the displays were never declared on.
Origins == Events \cup {"user", "early"}

Places == {"idle", "process", "post", "settle", "save"}

NoCall == [at |-> "idle", event |-> "BOOT", to |-> {}, next |-> 1]

Unused == [asked |-> "none", by |-> "user", pending |-> FALSE]

-----------------------------------------------------------------------------
(* Construction.                                                            *)

\* setTopology of the devices in the file; a file that cannot be parsed sets nothing.
Loaded(file) ==
    IF file.state = "whole" THEN [support |-> TRUE, on |-> file.on]
                            ELSE [support |-> FALSE, on |-> {}]

NoFile == [state |-> "none", on |-> {}]

NoTopology == [support |-> FALSE, on |-> {}]

Restored(p, file) == IF p.topology /\ p.keepOnBoot THEN Loaded(file) ELSE NoTopology

Kept(p, file) == IF p.topology /\ ~p.keepOnBoot THEN NoFile ELSE file

InitStatus == [power |-> FALSE, remote |-> FALSE, type |-> "UNDEFINED"]

EngineInit ==
    /\ prefs \in Settings
    /\ status = InitStatus
    /\ managed = prefs.enabled
    /\ saved = NoFile
    /\ topology = Restored(prefs, NoFile)
    /\ session = [d \in Device |-> Unused]
    /\ call = [t \in Threads |-> NoCall]

\* The process ends, in the middle of whatever it does, and is started again.
Restart ==
    /\ status' = InitStatus
    /\ managed' = prefs.enabled
    /\ topology' = Restored(prefs, saved)
    /\ saved' = Kept(prefs, saved)
    /\ session' = [d \in Device |-> Unused]
    /\ call' = [t \in Threads |-> NoCall]
    /\ UNCHANGED prefs

-----------------------------------------------------------------------------
(* processEvent: what the event asks of a display.                          *)

Included(d) == topology.support => d \in topology.on

\* Mutant: a busy user is answered whoever is at the displays.
LightsUpForUser(e, d) ==
    \/ e = "FORCE_DISPLAYON"
    \/ /\ d \in managed
       /\ \/ e = "REMOTE_DISCONNECT" /\ status.remote /\ status.power
          \/ e = "DISPLAYON" /\ ~status.remote /\ Included(d)
          \/ e = "USERBUSY" /\ Included(d) /\ prefs.userIdle
          \/ e = "TOPOLOGY" /\ ~status.remote /\ topology.support /\ d \in topology.on

LightsUp(e, d) ==
    \/ e = "FORCE_DISPLAYON"
    \/ /\ d \in managed
       /\ \/ e = "REMOTE_DISCONNECT" /\ status.remote /\ status.power
          \/ e = "DISPLAYON" /\ ~status.remote /\ Included(d)
          \/ e = "USERBUSY" /\ ~status.remote /\ Included(d) /\ prefs.userIdle
          \/ e = "TOPOLOGY" /\ ~status.remote /\ topology.support /\ d \in topology.on

\* Mutant: a suspend switches the displays off only while no streaming client is there.
SwitchesOffLocally(e, d) ==
    \/ e = "FORCE_DISPLAYOFF"
    \/ /\ d \in managed
       /\ \/ e = "REMOTE_CONNECT" /\ ~status.remote /\ status.power /\ prefs.preferPowerOff
          \/ e \in {"SHUTDOWN", "UNSURE"}
          \/ e = "SUSPEND" /\ status.power /\ ~status.remote
          \/ e = "TOPOLOGY" /\ ~status.remote /\ topology.support /\ d \notin topology.on

SwitchesOff(e, d) ==
    \/ e = "FORCE_DISPLAYOFF"
    \/ /\ d \in managed
       /\ \/ e = "REMOTE_CONNECT" /\ ~status.remote /\ status.power /\ prefs.preferPowerOff
          \/ e \in {"SHUTDOWN", "UNSURE"}
          \/ e = "SUSPEND" /\ status.power
          \/ e = "TOPOLOGY" /\ ~status.remote /\ topology.support /\ d \notin topology.on

Blanks(e, d) ==
    \/ e = "FORCE_BLANKSCREEN"
    \/ /\ d \in managed
       /\ \/ e = "REMOTE_CONNECT" /\ ~status.remote /\ status.power /\ ~prefs.preferPowerOff
          \/ /\ e = "USERIDLE" /\ ~status.remote /\ Included(d)
             /\ prefs.userIdle /\ status.power

Ask(e, d) == CASE LightsUp(e, d)    -> "on"
               [] SwitchesOff(e, d) -> "off"
               [] Blanks(e, d)      -> "blank"
               [] OTHER             -> "none"

Origin(e) == IF e = "USERBUSY" /\ ~status.power THEN "early" ELSE e

ProcessEvent(t) ==
    LET e == call[t].event
        d == call[t].next
    IN  /\ call[t].at = "process"
        /\ call' = [call EXCEPT ![t].at = IF d = Displays THEN "post" ELSE "process",
                                ![t].next = IF d = Displays THEN d ELSE d + 1]
        /\ session' = IF d \notin call[t].to \/ Ask(e, d) = "none" THEN session
                      ELSE [session EXCEPT ![d] = [asked |-> Ask(e, d), by |-> Origin(e),
                                                   pending |-> TRUE]]
        /\ UNCHANGED <<prefs, status, managed, topology, saved>>

-----------------------------------------------------------------------------
(* dispatchEvent: what follows for all displays.                            *)

Posted(s, e) ==
    CASE e = "REMOTE_CONNECT"    -> [s EXCEPT !.remote = TRUE]
      [] e \in {"REMOTE_DISCONNECT", "SHUTDOWN", "UNSURE", "REBOOT"}
                                 -> [s EXCEPT !.remote = FALSE]
      [] e = "SUSPEND"           -> [s EXCEPT !.remote = FALSE, !.power = FALSE]
      [] e = "RESUME"            -> [s EXCEPT !.remote = FALSE, !.power = TRUE]
      [] e = "DISPLAYON"         -> [s EXCEPT !.power = TRUE]
      [] OTHER                   -> s

PostProcess(t) ==
    /\ call[t].at = "post"
    /\ status' = Posted(status, call[t].event)
    /\ call' = IF call[t].event = "SUSPEND" THEN [call EXCEPT ![t].at = "settle"]
                                           ELSE [call EXCEPT ![t] = NoCall]
    /\ UNCHANGED <<prefs, managed, topology, saved, session>>

IsBusy == \E d \in Device : session[d].pending

\* The wait of a suspend ends when the sessions are done, or after nine seconds.
EndSettle(t, timeUp) ==
    /\ call[t].at = "settle"
    /\ IsBusy => timeUp
    /\ call' = [call EXCEPT ![t] = NoCall]
    /\ UNCHANGED <<prefs, status, managed, topology, saved, session>>

Begun(t, e, to) == [call EXCEPT ![t] = [at |-> "process", event |-> e, to |-> to, next |-> 1]]

Dispatch(t, e, to) ==
    /\ call' = Begun(t, e, to)
    /\ UNCHANGED <<prefs, status, managed, topology, saved, session>>

-----------------------------------------------------------------------------
(* systemEvent. It dispatches neither a reboot nor an idle user: main.cpp    *)
(* sends both, and nothing comes of it.                                      *)

Translated(e) ==
    CASE e \in {"SHUTDOWN", "SUSPEND"} /\ status.type = "REBOOT" -> "REBOOT"
      [] e \in {"SHUTDOWN", "SUSPEND"} /\ status.type = "UNSURE" -> "UNSURE"
      [] e = "SHUTDOWN" /\ status.type = "UNDEFINED"             -> "UNSURE"
      [] OTHER                                                    -> e

ShutdownType(t, type) ==
    /\ call[t].at = "idle"
    /\ status' = [status EXCEPT !.type = type]
    /\ UNCHANGED <<prefs, managed, topology, saved, session, call>>

SystemEvent(t, e) ==
    /\ call[t].at = "idle"
    /\ e \in SystemEvents
    /\ Dispatch(t, Translated(e), Device)

-----------------------------------------------------------------------------
(* ipcCallback. The messages of all clients come one after the other, on the *)
(* thread of the control socket.                                             *)

Forced(t, e, to) ==
    /\ call[t].at = "idle"
    /\ e \in ForcedEvents
    /\ Dispatch(t, e, to)

\* The desktop session of upstream reports streaming whatever the settings say; the
\* command line asks them first, so it adds no behaviour.
Streaming(t, e) ==
    /\ call[t].at = "idle"
    /\ e \in {"REMOTE_CONNECT", "REMOTE_DISCONNECT"}
    /\ Dispatch(t, e, Device)

UserReport(t, e) ==
    /\ call[t].at = "idle"
    /\ e \in {"USERIDLE", "USERBUSY"}
    /\ Dispatch(t, e, Device)

AutoEnable(t, to) ==
    /\ call[t].at = "idle"
    /\ managed' = managed \cup to
    /\ session' = [d \in Device |-> IF d \in to THEN [session[d] EXCEPT !.by = "user"]
                                               ELSE session[d]]
    /\ UNCHANGED <<prefs, status, topology, saved, call>>

AutoDisable(t, to) ==
    /\ call[t].at = "idle"
    /\ managed' = managed \ to
    /\ UNCHANGED <<prefs, status, topology, saved, session, call>>

\* Mutant: a topology reported while the displays are on is enforced at the next event.
EnforcedLater(t) == call' = [call EXCEPT ![t] = NoCall]

\* What follows the file, or takes its place: an event, where the displays are on.
Enforced(t) ==
    call' = IF status.power THEN Begun(t, "TOPOLOGY", Device) ELSE [call EXCEPT ![t] = NoCall]

\* The file is emptied before it is written.
TopologyState(t, on) ==
    /\ call[t].at = "idle"
    /\ topology' = [support |-> TRUE, on |-> on]
    /\ IF prefs.keepOnBoot
       THEN /\ saved' = [state |-> "torn", on |-> {}]
            /\ call' = [call EXCEPT ![t].at = "save"]
       ELSE /\ UNCHANGED saved
            /\ Enforced(t)
    /\ UNCHANGED <<prefs, status, managed, session>>

\* Mutant: a topology with no display in it is taken for nothing to save.
SaveSome(t) ==
    /\ call[t].at = "save"
    /\ saved' = IF topology.on = {} THEN NoFile ELSE [state |-> "whole", on |-> topology.on]
    /\ Enforced(t)
    /\ UNCHANGED <<prefs, status, managed, topology, session>>

SaveTopology(t) ==
    /\ call[t].at = "save"
    /\ saved' = [state |-> "whole", on |-> topology.on]
    /\ Enforced(t)
    /\ UNCHANGED <<prefs, status, managed, topology, session>>

TopologyInvalid(t) ==
    /\ call[t].at = "idle"
    /\ topology' = NoTopology
    /\ saved' = NoFile
    /\ UNCHANGED <<prefs, status, managed, session, call>>

-----------------------------------------------------------------------------
(* The sessions.                                                            *)

\* The last power command has its outcome, or the session gives up.
SessionEnds(d) ==
    /\ session[d].pending
    /\ session' = [session EXCEPT ![d].pending = FALSE]
    /\ UNCHANGED <<prefs, status, managed, topology, saved, call>>

EngineStep(t) == ProcessEvent(t) \/ PostProcess(t) \/ SaveTopology(t)

IpcCallback(t) ==
    \/ \E e \in ForcedEvents, d \in Device : Forced(t, e, {d})
    \/ \E e \in {"REMOTE_CONNECT", "REMOTE_DISCONNECT"} : Streaming(t, e)
    \/ \E e \in {"USERIDLE", "USERBUSY"} : UserReport(t, e)
    \/ \E d \in Device : AutoEnable(t, {d}) \/ AutoDisable(t, {d})
    \/ \E on \in SUBSET Device : TopologyState(t, on)
    \/ TopologyInvalid(t)

-----------------------------------------------------------------------------
(* The engine by itself: the bus brings events of the system, the control    *)
(* socket messages, in any order, one at a time. A suspend that waits for    *)
(* its sessions keeps nobody from the next.                                  *)

Quiet == \A t \in Threads : call[t].at \in {"idle", "settle"}

EngineNext ==
    \/ /\ Quiet
       /\ \E t \in Threads :
            \/ \E e \in SystemEvents : SystemEvent(t, e)
            \/ \E type \in ShutdownTypes : ShutdownType(t, type)
            \/ IpcCallback(t)
    \/ \E t \in Threads : EngineStep(t) \/ EndSettle(t, TRUE)
    \/ \E d \in Device : SessionEnds(d)
    \/ Restart

EngineSpec == EngineInit /\ [][EngineNext]_engine

-----------------------------------------------------------------------------
(* Properties.                                                              *)

EngineTypeOK ==
    /\ prefs \in Prefs
    /\ status \in [power : BOOLEAN, remote : BOOLEAN, type : ShutdownTypes]
    /\ managed \subseteq Device
    /\ topology \in [support : BOOLEAN, on : SUBSET Device]
    /\ saved \in [state : {"none", "torn", "whole"}, on : SUBSET Device]
    /\ session \in [Device -> [asked : Asks, by : Origins, pending : BOOLEAN]]
    /\ call \in [Threads -> [at : Places, event : Events, to : SUBSET Device, next : Device]]

\* A display that shows a picture because the engine, not its user, asked for it.
LitUnasked(d) ==
    d \in managed /\ session[d].asked = "on"
      /\ session[d].by \notin {"FORCE_DISPLAYON", "user", "early"}

\* While a streaming client is connected no event of the system or of the user lights a
\* display that is managed.
RemoteKeepsDark == Quiet /\ status.remote => \A d \in Device : ~LitUnasked(d)

\* A suspend that finds the power status off asks nothing of the displays: rightly so,
\* they are off, but for those the user lit or blanked.
OffMeansDark ==
    Quiet /\ ~status.power =>
      \A d \in managed : ~LitUnasked(d)
                         /\ (session[d].asked = "blank" =>
                               session[d].by \in {"FORCE_BLANKSCREEN", "user"})

\* A display the topology leaves out shows no picture, whatever the order of topology
\* reports and power events; a streaming client that leaves lights it all the same.
FollowsTopology ==
    Quiet /\ topology.support /\ status.power /\ ~status.remote =>
      \A d \in Device \ topology.on :
        LitUnasked(d) => session[d].by = "REMOTE_DISCONNECT"

\* A daemon that is started again has the topology it had, also the one that has no
\* display in it, unless it was stopped while it wrote the file.
TopologyRestored ==
    [][Restart /\ prefs.topology /\ prefs.keepOnBoot /\ saved.state # "torn"
         => topology' = topology]_engine
==============================================================================
