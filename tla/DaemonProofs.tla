----------------------------- MODULE DaemonProofs -----------------------------
(***************************************************************************)
(* What the flags of the engine say of the displays, and sleep and shutdown *)
(* under logind with it, for any number of displays, requests, engine and   *)
(* resume threads, any settings and any patience of logind.                 *)
(***************************************************************************)
EXTENDS Daemon, SequenceTheorems, TLAPS

-----------------------------------------------------------------------------
(* The engine.                                                              *)

\* The event a thread is in the middle of.
Active(t) == call[t].at \in {"process", "post", "save"}

Handling(t, e) == call[t].at \in {"process", "post"} /\ call[t].event = e

\* The step of the event for this display is behind.
Treated(t, d) == call[t].at = "post" \/ (call[t].at = "process" /\ d < call[t].next)

Dark(d) ==
    /\ ~LitUnasked(d)
    /\ session[d].asked = "blank" => session[d].by \in {"FORCE_BLANKSCREEN", "user"}

\* The topology in force has yet to be applied to this display.
Enforcing(d) ==
    \E t \in Threads :
      call[t].at = "save" \/ (Handling(t, "TOPOLOGY") /\ ~Treated(t, d))

OneAtATime == \A t, u \in Threads : Active(t) /\ Active(u) => t = u

CallsOK ==
    \A t \in Threads :
      /\ call[t].at \in {"idle", "save"} => call[t].event = "BOOT"
      /\ call[t].event \notin ForcedEvents => call[t].to = Device \/ call[t].event = "BOOT"
      /\ Handling(t, "TOPOLOGY") => status.power
      /\ call[t].at = "save" => topology.support /\ saved.state = "torn"

PowerInv ==
    /\ ~status.power /\ (\A t \in Threads : ~Handling(t, "DISPLAYON"))
         => \A d \in managed : Dark(d)
    /\ \A t \in Threads, d \in managed :
         Handling(t, "SUSPEND") /\ Treated(t, d) => Dark(d)

RemoteInv ==
    /\ status.remote /\ (\A t \in Threads : ~Handling(t, "REMOTE_DISCONNECT"))
         => \A d \in managed : ~LitUnasked(d)
    /\ \A t \in Threads, d \in managed :
         Handling(t, "REMOTE_CONNECT") /\ Treated(t, d) => ~LitUnasked(d)

TopologyInv ==
    topology.support =>
      \A d \in Device \ topology.on :
        LitUnasked(d) => session[d].by = "REMOTE_DISCONNECT" \/ Enforcing(d)

FileInv ==
    prefs.topology /\ prefs.keepOnBoot /\ saved.state # "torn" => topology = Loaded(saved)

EngineInv ==
    EngineTypeOK /\ OneAtATime /\ CallsOK /\ PowerInv /\ RemoteInv /\ TopologyInv /\ FileInv

-----------------------------------------------------------------------------
(* Types.                                                                   *)

\* What an event asks for, and on whose behalf, are values of their types.
LEMMA AskTypes ==
    ASSUME NEW e \in Events, NEW d \in Device
    PROVE  Ask(e, d) \in Asks /\ Origin(e) \in Origins
BY DEF Ask, Asks, Origin, Origins

\* An event of the system is translated to one that is neither forced nor a topology report.
LEMMA EventTypes ==
    ASSUME EngineTypeOK, NEW e \in SystemEvents
    PROVE  Translated(e) \in Events \ (ForcedEvents \cup {"TOPOLOGY"})
BY DEF Translated, EngineTypeOK, Events, SystemEvents, ForcedEvents

\* What is read from the topology file, and what becomes of the file, is well typed.
LEMMA FileTypes ==
    ASSUME EngineTypeOK
    PROVE  /\ Restored(prefs, saved) \in [support : BOOLEAN, on : SUBSET Device]
           /\ Kept(prefs, saved) \in [state : {"none", "torn", "whole"}, on : SUBSET Device]
BY DEF EngineTypeOK, Restored, Kept, Loaded, NoTopology, NoFile

\* The flags after an event are well typed, and the shutdown type is as it was.
LEMMA PostedTypes ==
    ASSUME EngineTypeOK, NEW e
    PROVE  /\ Posted(status, e) \in [power : BOOLEAN, remote : BOOLEAN, type : ShutdownTypes]
           /\ Posted(status, e).type = status.type
BY DEF EngineTypeOK, Posted

\* A thread that processes nothing is well typed.
LEMMA NoCallType ==
    NoCall \in [at : Places, event : Events, to : SUBSET Device, next : Device]
BY CompanionAssumption DEF NoCall, Places, Events, SystemEvents, Device

\* A display or a thread is one of those there are.
LEMMA TypesAtStart == EngineInit => EngineTypeOK
<1> SUFFICES ASSUME EngineInit PROVE EngineTypeOK
    OBVIOUS
<1>1. prefs \in Prefs
    BY CompanionAssumption DEF EngineInit
<1>2. status \in [power : BOOLEAN, remote : BOOLEAN, type : ShutdownTypes]
    BY DEF EngineInit, InitStatus, ShutdownTypes
<1>3. managed \subseteq Device
    BY <1>1 DEF EngineInit, Prefs
<1>4. topology \in [support : BOOLEAN, on : SUBSET Device]
    BY DEF EngineInit, Restored, Loaded, NoTopology, NoFile
<1>5. saved \in [state : {"none", "torn", "whole"}, on : SUBSET Device]
    BY DEF EngineInit, NoFile
<1>6. session \in [Device -> [asked : Asks, by : Origins, pending : BOOLEAN]]
    BY DEF EngineInit, Unused, Asks, Origins
<1>7. call \in [Threads -> [at : Places, event : Events, to : SUBSET Device, next : Device]]
    BY NoCallType DEF EngineInit
<1> QED
    BY <1>1, <1>2, <1>3, <1>4, <1>5, <1>6, <1>7 DEF EngineTypeOK

\* A call that begins is well formed.
LEMMA BegunType ==
    ASSUME EngineTypeOK, NEW t \in Threads, NEW e \in Events, NEW to \in SUBSET Device
    PROVE  Begun(t, e, to)
             \in [Threads -> [at : Places, event : Events, to : SUBSET Device, next : Device]]
BY CompanionAssumption DEF EngineTypeOK, Begun, Places, Device

\* What a thread does once a topology is in force is well typed.
LEMMA EnforcedType ==
    ASSUME EngineTypeOK, NEW t \in Threads, Enforced(t)
    PROVE  call' \in [Threads -> [at : Places, event : Events, to : SUBSET Device, next : Device]]
BY BegunType, NoCallType DEF EngineTypeOK, Enforced, Events

\* What a thread does that brings events of the system, and reports of the user.
EventStep(t) ==
    \/ \E e \in SystemEvents : SystemEvent(t, e)
    \/ \E type \in ShutdownTypes : ShutdownType(t, type)
    \/ \E e \in {"REMOTE_CONNECT", "REMOTE_DISCONNECT"} : Streaming(t, e)
    \/ \E e \in {"USERIDLE", "USERBUSY"} : UserReport(t, e)
    \/ ProcessEvent(t) \/ PostProcess(t)
    \/ \E timeUp \in BOOLEAN : EndSettle(t, timeUp)

\* Events keep the types, whatever other threads are in the middle of.
LEMMA EventTypesKept ==
    ASSUME EngineTypeOK, NEW t \in Threads, EventStep(t)
    PROVE  EngineTypeOK'
<1>1. ASSUME NEW e \in SystemEvents, SystemEvent(t, e)
      PROVE  EngineTypeOK'
    BY <1>1, EventTypes, BegunType DEF SystemEvent, Dispatch, EngineTypeOK
<1>2. ASSUME NEW type \in ShutdownTypes, ShutdownType(t, type)
      PROVE  EngineTypeOK'
    BY <1>2 DEF ShutdownType, EngineTypeOK
<1>3. ASSUME NEW e \in Events, Streaming(t, e) \/ UserReport(t, e)
      PROVE  EngineTypeOK'
    BY <1>3, BegunType DEF Streaming, UserReport, Dispatch, EngineTypeOK
<1>4. CASE ProcessEvent(t)
  <2>1. call' \in [Threads -> [at : Places, event : Events, to : SUBSET Device, next : Device]]
    <3> DEFINE Record == [at : Places, event : Events, to : SUBSET Device, next : Device]
    <3>0. /\ \A a \in Places, n \in Device : [call[t] EXCEPT !.at = a, !.next = n] \in Record
          /\ \A r \in Record : [call EXCEPT ![t] = r] \in [Threads -> Record]
      BY DEF EngineTypeOK
    <3>1. CASE call[t].next = Displays
      <4>1. call' = [call EXCEPT ![t] = [call[t] EXCEPT !.at = "post", !.next = call[t].next]]
          BY <1>4, <3>1 DEF ProcessEvent
      <4>2. call[t].next \in Device
          BY DEF EngineTypeOK
      <4> HIDE DEF Record
      <4> QED
          BY <3>0, <4>1, <4>2 DEF Record, Places
    <3>2. CASE call[t].next # Displays
      <4>1. call[t].next + 1 \in Device
          BY <3>2, CompanionAssumption DEF EngineTypeOK, Device
      <4>2. call' = [call EXCEPT ![t] = [call[t] EXCEPT !.at = "process",
                                                        !.next = call[t].next + 1]]
          BY <1>4, <3>2 DEF ProcessEvent
      <4> HIDE DEF Record
      <4> QED
          BY <3>0, <4>1, <4>2 DEF Record, Places
    <3> QED
        BY <3>1, <3>2
  <2>2. session' \in [Device -> [asked : Asks, by : Origins, pending : BOOLEAN]]
      BY <1>4, AskTypes DEF ProcessEvent, EngineTypeOK
  <2> QED
      BY <1>4, <2>1, <2>2 DEF ProcessEvent, EngineTypeOK
<1>5. CASE PostProcess(t)
  <2>1. call' \in [Threads -> [at : Places, event : Events, to : SUBSET Device, next : Device]]
    <3>1. CASE call[t].event = "SUSPEND"
        BY <1>5, <3>1 DEF PostProcess, EngineTypeOK, Places
    <3>2. CASE call[t].event # "SUSPEND"
        BY <1>5, <3>2, NoCallType DEF PostProcess, EngineTypeOK
    <3> QED
        BY <3>1, <3>2
  <2> QED
      BY <1>5, <2>1, PostedTypes DEF PostProcess, EngineTypeOK
<1>6. ASSUME NEW timeUp \in BOOLEAN, EndSettle(t, timeUp)
      PROVE  EngineTypeOK'
    BY <1>6, NoCallType DEF EndSettle, EngineTypeOK
<1> QED
  <2>1. {"REMOTE_CONNECT", "REMOTE_DISCONNECT", "USERIDLE", "USERBUSY"} \subseteq Events
      BY DEF Events
  <2> QED
      BY <2>1, <1>1, <1>2, <1>3, <1>4, <1>5, <1>6 DEF EventStep

\* Every step of the engine keeps the types.
LEMMA TypesKept == EngineTypeOK /\ [EngineNext]_engine => EngineTypeOK'
<1> SUFFICES ASSUME EngineTypeOK, [EngineNext]_engine
             PROVE  EngineTypeOK'
    OBVIOUS
<1>1. ASSUME NEW t \in Threads, EventStep(t)
      PROVE  EngineTypeOK'
    BY <1>1, EventTypesKept
<1>2. ASSUME NEW t \in Threads, NEW e \in ForcedEvents, NEW d \in Device, Forced(t, e, {d})
      PROVE  EngineTypeOK'
    BY <1>2, BegunType DEF Forced, Dispatch, EngineTypeOK, Events
<1>3. ASSUME NEW t \in Threads, NEW d \in Device, AutoEnable(t, {d})
      PROVE  EngineTypeOK'
    BY <1>3 DEF AutoEnable, EngineTypeOK, Origins
<1>4. ASSUME NEW t \in Threads, NEW d \in Device, AutoDisable(t, {d})
      PROVE  EngineTypeOK'
    BY <1>4 DEF AutoDisable, EngineTypeOK
<1>5. ASSUME NEW t \in Threads, NEW on \in SUBSET Device, TopologyState(t, on)
      PROVE  EngineTypeOK'
  <2>1. call' \in [Threads -> [at : Places, event : Events, to : SUBSET Device, next : Device]]
    <3>1. CASE prefs.keepOnBoot
      <4>1. call' = [call EXCEPT ![t].at = "save"]
          BY <1>5, <3>1 DEF TopologyState
      <4> QED
          BY <4>1 DEF EngineTypeOK, Places
    <3>2. CASE ~prefs.keepOnBoot
        BY <1>5, <3>2, EnforcedType DEF TopologyState
    <3> QED
        BY <3>1, <3>2
  <2> QED
      BY <1>5, <2>1 DEF TopologyState, EngineTypeOK
<1>6. ASSUME NEW t \in Threads, TopologyInvalid(t)
      PROVE  EngineTypeOK'
    BY <1>6 DEF TopologyInvalid, EngineTypeOK, NoTopology, NoFile
<1>7. ASSUME NEW t \in Threads, SaveTopology(t)
       PROVE  EngineTypeOK'
    BY <1>7, EnforcedType DEF SaveTopology, EngineTypeOK
<1>8. ASSUME NEW d \in Device, SessionEnds(d)
       PROVE  EngineTypeOK'
    BY <1>8 DEF SessionEnds, EngineTypeOK
<1>9. ASSUME Restart
       PROVE  EngineTypeOK'
  <2>1. call' \in [Threads -> [at : Places, event : Events, to : SUBSET Device, next : Device]]
      BY <1>9, NoCallType DEF Restart
  <2>2. session' \in [Device -> [asked : Asks, by : Origins, pending : BOOLEAN]]
      BY <1>9 DEF Restart, Unused, Asks, Origins
  <2> QED
      BY <1>9, <2>1, <2>2, FileTypes DEF Restart, EngineTypeOK, InitStatus, ShutdownTypes, Prefs
<1>10. CASE UNCHANGED engine
    BY <1>10 DEF engine, EngineTypeOK
<1> QED
    BY <1>1, <1>2, <1>3, <1>4, <1>5, <1>6, <1>7, <1>8, <1>9, <1>10
       DEF EngineNext, IpcCallback, EngineStep, EventStep

-----------------------------------------------------------------------------
(* The invariant.                                                           *)

\* A thread that is not in the middle of an event is idle or waits.
LEMMA QuietMeans ==
    Quiet <=> \A t \in Threads : ~Active(t) /\ call[t].at \in {"idle", "settle"}
BY DEF Quiet, Active

\* The constructor establishes the invariant.
LEMMA InvAtStart == EngineInit => EngineInv
<1> SUFFICES ASSUME EngineInit PROVE EngineInv
    OBVIOUS
<1>1. EngineTypeOK
    BY TypesAtStart
<1>2. \A t \in Threads : call[t] = NoCall
    BY DEF EngineInit
<1>3. \A t \in Threads : call[t].at = "idle" /\ call[t].event = "BOOT"
    BY <1>2 DEF NoCall
<1>4. \A d \in Device : session[d].asked = "none"
    BY DEF EngineInit, Unused
<1>5. \A d \in Device : Dark(d) /\ ~LitUnasked(d)
    BY <1>4 DEF Dark, LitUnasked
<1>6. OneAtATime /\ CallsOK
    BY <1>3 DEF OneAtATime, CallsOK, Active, Handling
<1>7. PowerInv /\ RemoteInv /\ TopologyInv
    BY <1>1, <1>5 DEF PowerInv, RemoteInv, TopologyInv, EngineTypeOK
<1>8. FileInv
    BY DEF FileInv, EngineInit, Restored, NoFile
<1> QED
    BY <1>1, <1>6, <1>7, <1>8 DEF EngineInv

\* The parts of the invariant that a step has to keep, once its types are known.
FlagsInv == OneAtATime /\ CallsOK /\ PowerInv /\ RemoteInv /\ TopologyInv /\ FileInv

\* What is asked of the displays, and of whom they are managed, stays.
Still == UNCHANGED <<managed, topology>> /\ \A d \in Device :
           session'[d].asked = session[d].asked /\ session'[d].by = session[d].by

\* While the sessions stand still, no display becomes lit or dark.
LEMMA StillDark ==
    ASSUME Still, NEW d \in Device
    PROVE  (LitUnasked(d) <=> LitUnasked(d)') /\ (Dark(d) <=> Dark(d)')
BY DEF Still, LitUnasked, Dark

\* An event begins: nothing has been asked for it yet.
LEMMA BeginKeeps ==
    ASSUME EngineInv, EngineTypeOK', NEW t \in Threads, NEW e \in Events \ {"TOPOLOGY"},
           NEW to \in SUBSET Device, Quiet, Dispatch(t, e, to),
           e \notin ForcedEvents => to = Device
    PROVE  FlagsInv'
<1>1. \A u \in Threads : ~Active(u)
    BY QuietMeans
<1>2. Still
    BY DEF Dispatch, Still
<1>3. /\ call'[t] = [at |-> "process", event |-> e, to |-> to, next |-> 1]
      /\ \A u \in Threads \ {t} : call'[u] = call[u]
    BY DEF Dispatch, Begun, EngineInv, EngineTypeOK
<1>4. \A u \in Threads : Active(u)' => u = t
    BY <1>1, <1>3 DEF Active
<1>5. \A u \in Threads, d \in Device : ~(Active(u)' /\ Treated(u, d)')
    BY <1>3, <1>4 DEF Active, Treated, Device
<1>6. OneAtATime'
    BY <1>4 DEF OneAtATime
<1>7. CallsOK'
    BY <1>1, <1>3 DEF CallsOK, EngineInv, Handling, Active, Dispatch
<1>8. PowerInv'
    BY <1>1, <1>2, <1>5, StillDark
       DEF PowerInv, EngineInv, EngineTypeOK, Handling, Active, Dispatch
<1>9. RemoteInv'
    BY <1>1, <1>2, <1>5, StillDark
       DEF RemoteInv, EngineInv, EngineTypeOK, Handling, Active, Dispatch
<1>10. TopologyInv'
    BY <1>1, <1>2, StillDark
       DEF TopologyInv, EngineInv, EngineTypeOK, Enforcing, Handling, Active, Dispatch
<1>11. FileInv'
    BY DEF FileInv, EngineInv, Dispatch, Loaded
<1> QED
    BY <1>6, <1>7, <1>8, <1>9, <1>10, <1>11 DEF FlagsInv

\* Nothing the invariant speaks of changes.
LEMMA StillKeeps ==
    ASSUME EngineInv, EngineTypeOK', Still, UNCHANGED <<prefs, call, saved>>,
           status'.power = status.power, status'.remote = status.remote
    PROVE  FlagsInv'
<1>1. \A u \in Threads, d \in Device :
        /\ Active(u)' <=> Active(u)
        /\ Treated(u, d)' <=> Treated(u, d)
    BY DEF Active, Treated
<1>2. OneAtATime' /\ CallsOK'
    BY DEF OneAtATime, CallsOK, EngineInv, Active, Handling, Still
<1>3. PowerInv'
    BY StillDark, <1>1 DEF PowerInv, EngineInv, EngineTypeOK, Still, Handling
<1>4. RemoteInv'
    BY StillDark, <1>1 DEF RemoteInv, EngineInv, EngineTypeOK, Still, Handling
<1>5. TopologyInv'
    BY StillDark, <1>1 DEF TopologyInv, EngineInv, EngineTypeOK, Still, Handling, Enforcing
<1>6. FileInv'
    BY DEF FileInv, EngineInv, Still, Loaded
<1> QED
    BY <1>2, <1>3, <1>4, <1>5, <1>6 DEF FlagsInv

\* Automatic management changes: what it takes in was lit by the user or not at all.
LEMMA ManagedKeeps ==
    ASSUME EngineInv, EngineTypeOK', UNCHANGED <<prefs, status, topology, saved, call>>,
           \A d \in managed' :
             \/ d \in managed /\ session'[d].asked = session[d].asked
                              /\ session'[d].by \in {session[d].by, "user"}
             \/ session'[d].by = "user"
    PROVE  FlagsInv'
<1>1. ASSUME NEW d \in Device, d \in managed'
      PROVE  /\ LitUnasked(d)' => d \in managed /\ LitUnasked(d) /\ session'[d].by = session[d].by
             /\ (d \in managed => Dark(d)) => Dark(d)'
    BY <1>1 DEF LitUnasked, Dark
<1>2. \A d \in Device \ managed' : ~LitUnasked(d)'
    BY DEF LitUnasked
<1>3. \A u \in Threads, d \in Device :
        /\ Active(u)' <=> Active(u)
        /\ Treated(u, d)' <=> Treated(u, d)
    BY DEF Active, Treated
<1>4. OneAtATime' /\ CallsOK'
    BY DEF OneAtATime, CallsOK, EngineInv, Active, Handling
<1>5. PowerInv'
    BY <1>1, <1>3 DEF PowerInv, EngineInv, EngineTypeOK, Handling
<1>6. RemoteInv'
    BY <1>1, <1>3 DEF RemoteInv, EngineInv, EngineTypeOK, Handling
<1>7. TopologyInv'
    BY <1>1, <1>2, <1>3 DEF TopologyInv, EngineInv, EngineTypeOK, Handling, Enforcing
<1>8. FileInv'
    BY DEF FileInv, EngineInv, Loaded
<1> QED
    BY <1>4, <1>5, <1>6, <1>7, <1>8 DEF FlagsInv

\* The wait of a suspend is over: it was no longer in the way of anything.
LEMMA SettleKeeps ==
    ASSUME EngineInv, EngineTypeOK', NEW t \in Threads, EndSettle(t, TRUE)
    PROVE  FlagsInv'
<1>1. /\ call[t].at = "settle"
      /\ call'[t] = NoCall
      /\ \A u \in Threads \ {t} : call'[u] = call[u]
    BY DEF EndSettle, EngineInv, EngineTypeOK
<1>2. Still
    BY DEF EndSettle, Still
<1>3. \A u \in Threads : (Active(u)' <=> Active(u)) /\ (Active(u) => u # t)
    BY <1>1 DEF Active, NoCall
<1>4. \A u \in Threads, d \in Device : Active(u) => (Treated(u, d)' <=> Treated(u, d))
    BY <1>1, <1>3 DEF Treated
<1>5. OneAtATime'
    BY <1>3 DEF OneAtATime, EngineInv
<1>6. CallsOK'
    BY <1>1, <1>3 DEF CallsOK, EngineInv, Handling, Active, NoCall, EndSettle
<1>7. PowerInv'
    BY <1>1, <1>2, <1>3, <1>4, StillDark
       DEF PowerInv, EngineInv, EngineTypeOK, Handling, Active, EndSettle, NoCall
<1>8. RemoteInv'
    BY <1>1, <1>2, <1>3, <1>4, StillDark
       DEF RemoteInv, EngineInv, EngineTypeOK, Handling, Active, EndSettle, NoCall
<1>9. TopologyInv'
    BY <1>1, <1>2, <1>3, <1>4, StillDark
       DEF TopologyInv, EngineInv, EngineTypeOK, Enforcing, Handling, Active, EndSettle, NoCall
<1>10. FileInv'
    BY DEF FileInv, EngineInv, EndSettle, Loaded
<1> QED
    BY <1>5, <1>6, <1>7, <1>8, <1>9, <1>10 DEF FlagsInv

\* After a start nothing has been asked of any display.
LEMMA RestartKeeps ==
    ASSUME EngineInv, EngineTypeOK', Restart
    PROVE  FlagsInv'
<1>1. \A t \in Threads : call'[t].at = "idle" /\ call'[t].event = "BOOT"
    BY DEF Restart, NoCall
<1>2. \A d \in Device : Dark(d)' /\ ~LitUnasked(d)'
    BY DEF Restart, Unused, Dark, LitUnasked
<1>3. OneAtATime' /\ CallsOK'
    BY <1>1 DEF OneAtATime, CallsOK, Active, Handling
<1>4. PowerInv' /\ RemoteInv' /\ TopologyInv'
    BY <1>2 DEF PowerInv, RemoteInv, TopologyInv, EngineTypeOK
<1>5. FileInv'
    BY DEF FileInv, Restart, Restored, Kept, Loaded
<1> QED
    BY <1>3, <1>4, <1>5 DEF FlagsInv

\* With no topology in force nothing is left out of it.
LEMMA InvalidKeeps ==
    ASSUME EngineInv, EngineTypeOK', NEW t \in Threads, Quiet, TopologyInvalid(t)
    PROVE  FlagsInv'
<1>1. \A u \in Threads : ~Active(u)
    BY QuietMeans
<1>2. \A d \in Device : (LitUnasked(d)' <=> LitUnasked(d)) /\ (Dark(d)' <=> Dark(d))
    BY DEF TopologyInvalid, LitUnasked, Dark
<1>3. OneAtATime' /\ CallsOK'
    BY <1>1 DEF OneAtATime, CallsOK, EngineInv, Active, Handling, TopologyInvalid
<1>4. PowerInv'
    BY <1>1, <1>2 DEF PowerInv, EngineInv, EngineTypeOK, Active, Handling, TopologyInvalid
<1>5. RemoteInv'
    BY <1>1, <1>2 DEF RemoteInv, EngineInv, EngineTypeOK, Active, Handling, TopologyInvalid
<1>6. TopologyInv'
    BY DEF TopologyInv, TopologyInvalid, NoTopology
<1>7. FileInv'
    BY DEF FileInv, TopologyInvalid, Loaded, NoFile, NoTopology
<1> QED
    BY <1>3, <1>4, <1>5, <1>6, <1>7 DEF FlagsInv

\* The topology that is in force from now on is enforced where the displays are on;
\* where they are off, none is lit that should not be.
LEMMA EnforcedKeeps ==
    ASSUME EngineInv, EngineTypeOK', NEW t \in Threads, \A u \in Threads \ {t} : ~Active(u),
           call[t].at \in {"idle", "save"}, Enforced(t),
           topology'.support, UNCHANGED <<prefs, status, managed, session>>
    PROVE  OneAtATime' /\ CallsOK' /\ PowerInv' /\ RemoteInv' /\ TopologyInv'
<1>1. \A d \in Device : (LitUnasked(d)' <=> LitUnasked(d)) /\ (Dark(d)' <=> Dark(d))
    BY DEF LitUnasked, Dark
<1>2. \A u \in Threads : ~Handling(u, "DISPLAYON") /\ ~Handling(u, "REMOTE_DISCONNECT")
    BY DEF Active, Handling
<1>3. \A u \in Threads \ {t} : call'[u] = call[u]
    BY DEF Enforced, Begun, EngineInv, EngineTypeOK
<1>4. CASE status.power
  <2>1. call'[t] = [at |-> "process", event |-> "TOPOLOGY", to |-> Device, next |-> 1]
      BY <1>4 DEF Enforced, Begun, EngineInv, EngineTypeOK
  <2>2. \A u \in Threads, d \in Device : ~(Active(u)' /\ Treated(u, d)')
      BY <1>3, <2>1 DEF Active, Treated, Device
  <2>3. OneAtATime'
      BY <1>3 DEF OneAtATime, Active
  <2>4. CallsOK'
      BY <1>3, <1>4, <2>1 DEF CallsOK, EngineInv, Handling, Active
  <2>5. PowerInv'
      BY <1>4, <2>2 DEF PowerInv, EngineTypeOK, Handling, Active
  <2>6. RemoteInv'
      BY <1>1, <1>2, <2>2 DEF RemoteInv, EngineInv, EngineTypeOK, Handling, Active
  <2>7. \A d \in Device : Enforcing(d)'
      BY <2>1, <2>2 DEF Enforcing, Handling, Active
  <2> QED
      BY <2>3, <2>4, <2>5, <2>6, <2>7 DEF TopologyInv
<1>5. CASE ~status.power
  <2>1. call'[t] = NoCall
      BY <1>5 DEF Enforced, EngineInv, EngineTypeOK
  <2>2. \A u \in Threads : ~Active(u)'
      BY <1>3, <2>1 DEF Active, NoCall
  <2>3. OneAtATime' /\ CallsOK'
      BY <1>3, <2>1, <2>2 DEF OneAtATime, CallsOK, EngineInv, Active, Handling, NoCall
  <2>4. \A d \in managed : Dark(d)
      BY <1>2, <1>5 DEF PowerInv, EngineInv
  <2>5. \A d \in Device : ~LitUnasked(d)
      BY <2>4 DEF Dark, LitUnasked
  <2>6. PowerInv' /\ RemoteInv' /\ TopologyInv'
      BY <1>1, <2>2, <2>4, <2>5
         DEF PowerInv, RemoteInv, TopologyInv, EngineInv, EngineTypeOK, Active, Handling
  <2> QED
      BY <2>3, <2>6
<1> QED
    BY <1>4, <1>5 DEF EngineInv, EngineTypeOK

\* A topology report begins: the invariant holds with it half done.
LEMMA TopologyKeeps ==
    ASSUME EngineInv, EngineTypeOK', NEW t \in Threads, NEW on \in SUBSET Device,
           Quiet, TopologyState(t, on)
    PROVE  FlagsInv'
<1>1. \A u \in Threads : ~Active(u)
    BY QuietMeans
<1>2. CASE prefs.keepOnBoot
  <2>1. /\ call' = [call EXCEPT ![t].at = "save"]
        /\ saved' = [state |-> "torn", on |-> {}]
      BY <1>2 DEF TopologyState
  <2>2. /\ call'[t].at = "save" /\ call'[t].event = call[t].event
        /\ \A u \in Threads \ {t} : call'[u] = call[u]
      BY <2>1 DEF EngineInv, EngineTypeOK
  <2>3. \A u \in Threads : (Active(u)' => u = t) /\ (\A e : ~Handling(u, e)')
      BY <1>1, <2>2 DEF Active, Handling
  <2>4. \A d \in Device : (LitUnasked(d)' <=> LitUnasked(d)) /\ (Dark(d)' <=> Dark(d))
      BY DEF LitUnasked, Dark, TopologyState
  <2>5. OneAtATime'
      BY <2>3 DEF OneAtATime
  <2>6. CallsOK'
      BY <1>1, <2>1, <2>2, <2>3 DEF CallsOK, EngineInv, Active, TopologyState
  <2>7. PowerInv' /\ RemoteInv'
      BY <1>1, <2>3, <2>4
         DEF PowerInv, RemoteInv, EngineInv, EngineTypeOK, Active, Handling, TopologyState
  <2>8. TopologyInv'
      BY <2>2 DEF TopologyInv, Enforcing
  <2>9. FileInv'
      BY <2>1 DEF FileInv
  <2> QED
      BY <2>5, <2>6, <2>7, <2>8, <2>9 DEF FlagsInv
<1>3. CASE ~prefs.keepOnBoot
  <2>1. Enforced(t) /\ topology'.support
      BY <1>3 DEF TopologyState
  <2>2. OneAtATime' /\ CallsOK' /\ PowerInv' /\ RemoteInv' /\ TopologyInv'
      BY <1>1, <2>1, EnforcedKeeps DEF TopologyState
  <2>3. FileInv'
      BY <1>3 DEF FileInv, TopologyState
  <2> QED
      BY <2>2, <2>3 DEF FlagsInv
<1> QED
    BY <1>2, <1>3

\* The last byte of the topology file keeps the invariant.
LEMMA SaveKeeps ==
    ASSUME EngineInv, EngineTypeOK', NEW t \in Threads, SaveTopology(t)
    PROVE  FlagsInv'
<1>1. Active(t) /\ call[t].at = "save"
    BY DEF SaveTopology, Active
<1>2. \A u \in Threads \ {t} : ~Active(u)
    BY <1>1 DEF EngineInv, OneAtATime
<1>3. topology.support /\ topology' = topology
    BY <1>1 DEF EngineInv, CallsOK, SaveTopology
<1>4. OneAtATime' /\ CallsOK' /\ PowerInv' /\ RemoteInv' /\ TopologyInv'
    BY <1>1, <1>2, <1>3, EnforcedKeeps DEF SaveTopology
<1>5. FileInv'
    BY <1>3 DEF FileInv, SaveTopology, Loaded, EngineInv, EngineTypeOK
<1> QED
    BY <1>4, <1>5 DEF FlagsInv

\* What an event can ask for while the displays count as off.
LEMMA AskedWhenOff ==
    ASSUME ~status.power, NEW e \in Events \ {"DISPLAYON", "TOPOLOGY"}, NEW d \in Device
    PROVE  /\ Ask(e, d) = "on" => Origin(e) \in {"FORCE_DISPLAYON", "early"}
           /\ Ask(e, d) = "blank" => Origin(e) = "FORCE_BLANKSCREEN"
BY DEF Ask, LightsUp, SwitchesOff, Blanks, Origin

\* What an event can ask for while a streaming client is connected.
LEMMA AskedWhenRemote ==
    ASSUME status.remote, NEW e \in Events \ {"REMOTE_DISCONNECT"}, NEW d \in Device
    PROVE  Ask(e, d) = "on" => Origin(e) = "FORCE_DISPLAYON"
BY DEF Ask, LightsUp, SwitchesOff, Blanks, Origin

\* What an event can ask of a display that the topology leaves out.
LEMMA AskedWhenLeftOut ==
    ASSUME NEW e \in Events, NEW d \in Device, topology.support, d \notin topology.on
    PROVE  /\ Ask(e, d) = "on" => Origin(e) \in {"FORCE_DISPLAYON", "REMOTE_DISCONNECT"}
           /\ e = "TOPOLOGY" /\ ~status.remote /\ d \in managed => Ask(e, d) = "off"
BY DEF Ask, LightsUp, SwitchesOff, Blanks, Origin, Included

\* A suspend switches off what is on, a streaming client leaves no picture.
LEMMA AskedWhenOn ==
    ASSUME status.power, NEW d \in managed
    PROVE  /\ Ask("SUSPEND", d) = "off"
           /\ ~status.remote => Ask("REMOTE_CONNECT", d) \in {"off", "blank"}
BY DEF Ask, LightsUp, SwitchesOff, Blanks

\* A step of processEvent for one display keeps the invariant.
LEMMA ProcessKeeps ==
    ASSUME EngineInv, EngineTypeOK', NEW t \in Threads, ProcessEvent(t)
    PROVE  FlagsInv'
<1>0. PICK e \in Events, n \in Device : e = call[t].event /\ n = call[t].next
    BY DEF EngineInv, EngineTypeOK
<1>1. call[t].at = "process" /\ Active(t)
    BY DEF ProcessEvent, Active
<1>2. \A u \in Threads \ {t} : ~Active(u)
    BY <1>1 DEF EngineInv, OneAtATime
<1>3. /\ call'[t].at \in {"process", "post"}
      /\ call'[t].event = e
      /\ call'[t].to = call[t].to
      /\ \A u \in Threads \ {t} : call'[u] = call[u]
    BY <1>0 DEF ProcessEvent, EngineInv, EngineTypeOK
<1>4. \A u \in Threads : \A f : Handling(u, f)' <=> Handling(u, f)
    BY <1>0, <1>1, <1>3 DEF Handling
<1>5. \A d \in Device : Treated(t, d)' <=> Treated(t, d) \/ d = n
  <2>1. CASE n = Displays
    <3>1. call'[t].at = "post"
        BY <1>0, <2>1 DEF ProcessEvent, EngineInv, EngineTypeOK
    <3> QED
        BY <2>1, <3>1, <1>0, <1>1, CompanionAssumption DEF Treated, Device
  <2>2. CASE n # Displays
    <3>1. call'[t].at = "process" /\ call'[t].next = n + 1
        BY <1>0, <2>2 DEF ProcessEvent, EngineInv, EngineTypeOK
    <3> QED
        BY <3>1, <1>0, <1>1, CompanionAssumption DEF Treated, Device
  <2> QED
      BY <2>1, <2>2
<1>6. \A d \in Device \ {n} : session'[d] = session[d]
    BY <1>0 DEF ProcessEvent, EngineInv, EngineTypeOK
<1>7. /\ session'[n] = session[n] \/ (session'[n].asked = Ask(e, n) /\ session'[n].by = Origin(e))
      /\ n \in call[t].to /\ Ask(e, n) # "none" => session'[n].asked = Ask(e, n)
    BY <1>0, <1>1 DEF ProcessEvent, EngineInv, EngineTypeOK
<1>8. e \in {"SUSPEND", "REMOTE_CONNECT", "TOPOLOGY"} => n \in call[t].to
    BY <1>0, <1>1 DEF EngineInv, CallsOK, ForcedEvents
<1>9. UNCHANGED <<prefs, status, managed, topology, saved>>
    BY DEF ProcessEvent
<1>10. \A d \in Device \ {n} : (LitUnasked(d)' <=> LitUnasked(d)) /\ (Dark(d)' <=> Dark(d))
    BY <1>6, <1>9 DEF LitUnasked, Dark
<1>11. Handling(t, e)
    BY <1>0, <1>1 DEF Handling
<1>12. \A u \in Threads : \A f : Handling(u, f) => u = t /\ f = e
    BY <1>0, <1>2 DEF Handling, Active
<1>13. OneAtATime'
    BY <1>2, <1>3 DEF OneAtATime, Active
<1>14. CallsOK'
  <2>1. ASSUME NEW u \in Threads \ {t}
        PROVE  call'[u] = call[u] /\ call[u].at # "save"
      BY <1>2, <1>3 DEF Active
  <2>2. ASSUME NEW u \in Threads
        PROVE  /\ call'[u].event = call[u].event /\ call'[u].to = call[u].to
               /\ call'[u].at # "save"
               /\ call'[u].at = "idle" => call[u].at = "idle"
      BY <1>0, <1>3, <2>1
  <2> QED
      BY <1>4, <1>9, <2>2 DEF CallsOK, EngineInv
<1>15. PowerInv'
  <2>1. ASSUME ~status.power, e # "DISPLAYON", n \in managed
        PROVE  Dark(n) /\ Dark(n)'
    <3>1. Dark(n)
        BY <2>1, <1>12 DEF EngineInv, PowerInv
    <3>2. e # "TOPOLOGY"
        BY <2>1, <1>11 DEF EngineInv, CallsOK
    <3> QED
        BY <2>1, <3>1, <3>2, <1>1, <1>7, <1>9, AskedWhenOff DEF Dark, LitUnasked
  <2>2. ASSUME e = "SUSPEND", n \in managed
        PROVE  Dark(n)'
    <3>1. CASE status.power
        BY <2>2, <3>1, <1>7, <1>8, AskedWhenOn DEF Dark, LitUnasked
    <3> QED
        BY <2>1, <2>2, <3>1
  <2>3. ASSUME ~status'.power, \A u \in Threads : ~Handling(u, "DISPLAYON")', NEW d \in managed'
        PROVE  Dark(d)'
    <3>1. e # "DISPLAYON" /\ ~status.power /\ d \in managed /\ d \in Device
        BY <2>3, <1>4, <1>9, <1>11 DEF EngineInv, EngineTypeOK
    <3>2. Dark(d)
        BY <3>1, <1>12 DEF EngineInv, PowerInv
    <3> QED
        BY <3>1, <3>2, <2>1, <1>10
  <2>4. ASSUME NEW u \in Threads, NEW d \in managed', Handling(u, "SUSPEND")', Treated(u, d)'
        PROVE  Dark(d)'
    <3>1. u = t /\ e = "SUSPEND" /\ d \in managed /\ d \in Device
        BY <2>4, <1>4, <1>9, <1>12 DEF EngineInv, EngineTypeOK
    <3>2. CASE d = n
        BY <3>1, <3>2, <2>2
    <3>3. CASE d # n
      <4>1. Treated(t, d) /\ Handling(t, "SUSPEND")
          BY <2>4, <3>1, <3>3, <1>5, <1>11
      <4> QED
          BY <3>1, <3>3, <4>1, <1>10 DEF EngineInv, PowerInv
    <3> QED
        BY <3>2, <3>3
  <2> QED
      BY <2>3, <2>4 DEF PowerInv
<1>16. RemoteInv'
  <2>1. ASSUME status.remote, e # "REMOTE_DISCONNECT", n \in managed
        PROVE  ~LitUnasked(n) /\ ~LitUnasked(n)'
    <3>1. ~LitUnasked(n)
        BY <2>1, <1>12 DEF EngineInv, RemoteInv
    <3> QED
        BY <2>1, <3>1, <1>1, <1>7, <1>9, AskedWhenRemote DEF LitUnasked
  <2>2. ASSUME e = "REMOTE_CONNECT", n \in managed
        PROVE  ~LitUnasked(n)'
    <3>1. CASE status.power /\ ~status.remote
        BY <2>2, <3>1, <1>7, <1>8, AskedWhenOn DEF LitUnasked
    <3>2. CASE ~status.power
      <4>1. Dark(n)
          BY <2>2, <3>2, <1>12 DEF EngineInv, PowerInv
      <4> QED
          BY <2>2, <3>2, <4>1, <1>1, <1>7, <1>9, AskedWhenOff DEF LitUnasked, Dark
    <3> QED
        BY <2>1, <2>2, <3>1, <3>2
  <2>3. ASSUME status'.remote, \A u \in Threads : ~Handling(u, "REMOTE_DISCONNECT")',
               NEW d \in managed'
        PROVE  ~LitUnasked(d)'
    <3>1. e # "REMOTE_DISCONNECT" /\ status.remote /\ d \in managed /\ d \in Device
        BY <2>3, <1>4, <1>9, <1>11 DEF EngineInv, EngineTypeOK
    <3>2. ~LitUnasked(d)
        BY <3>1, <1>12 DEF EngineInv, RemoteInv
    <3> QED
        BY <3>1, <3>2, <2>1, <1>10
  <2>4. ASSUME NEW u \in Threads, NEW d \in managed',
               Handling(u, "REMOTE_CONNECT")', Treated(u, d)'
        PROVE  ~LitUnasked(d)'
    <3>1. u = t /\ e = "REMOTE_CONNECT" /\ d \in managed /\ d \in Device
        BY <2>4, <1>4, <1>9, <1>12 DEF EngineInv, EngineTypeOK
    <3>2. CASE d = n
        BY <3>1, <3>2, <2>2
    <3>3. CASE d # n
      <4>1. Treated(t, d) /\ Handling(t, "REMOTE_CONNECT")
          BY <2>4, <3>1, <3>3, <1>5, <1>11
      <4> QED
          BY <3>1, <3>3, <4>1, <1>10 DEF EngineInv, RemoteInv
    <3> QED
        BY <3>2, <3>3
  <2> QED
      BY <2>3, <2>4 DEF RemoteInv
<1>17. TopologyInv'
  <2> SUFFICES ASSUME topology'.support, NEW d \in Device \ topology'.on, LitUnasked(d)'
               PROVE  session'[d].by = "REMOTE_DISCONNECT" \/ Enforcing(d)'
      BY DEF TopologyInv
  <2>1. topology.support /\ d \notin topology.on
      BY <1>9
  <2>2. CASE d # n
    <3>1. LitUnasked(d) /\ session'[d] = session[d]
        BY <2>2, <1>6, <1>10
    <3>2. Enforcing(d) => Enforcing(d)'
        BY <2>2, <1>1, <1>2, <1>4, <1>5, <1>12 DEF Enforcing, Active
    <3> QED
        BY <2>1, <3>1, <3>2 DEF EngineInv, TopologyInv
  <2>3. CASE d = n /\ session'[n] = session[n]
    <3>1. LitUnasked(n) /\ n \in managed
        BY <2>3, <1>9 DEF LitUnasked
    <3>2. CASE ~Enforcing(n)
        BY <2>1, <2>3, <3>1, <3>2 DEF EngineInv, TopologyInv
    <3>3. CASE Enforcing(n)
      <4>1. e = "TOPOLOGY"
          BY <3>3, <1>1, <1>2, <1>12 DEF Enforcing, Active
      <4>2. ~status.remote
          BY <3>1, <4>1, <1>12 DEF EngineInv, RemoteInv
      <4>3. Ask(e, n) = "off"
          BY <2>1, <2>3, <3>1, <4>1, <4>2, <1>1, AskedWhenLeftOut
      <4> QED
          BY <2>3, <3>1, <4>1, <4>3, <1>7, <1>8 DEF LitUnasked
    <3> QED
        BY <3>2, <3>3
  <2>4. CASE d = n /\ session'[n] # session[n]
    <3>1. session'[n].asked = "on" /\ session'[n].by # "FORCE_DISPLAYON"
        BY <2>4 DEF LitUnasked
    <3> QED
        BY <2>1, <2>4, <3>1, <1>1, <1>7, AskedWhenLeftOut
  <2> QED
      BY <2>2, <2>3, <2>4
<1>18. FileInv'
    BY <1>9 DEF FileInv, EngineInv, Loaded
<1> QED
    BY <1>13, <1>14, <1>15, <1>16, <1>17, <1>18 DEF FlagsInv

\* What follows the last display of an event keeps the invariant.
LEMMA PostKeeps ==
    ASSUME EngineInv, EngineTypeOK', NEW t \in Threads, PostProcess(t)
    PROVE  FlagsInv'
<1>0. PICK e \in Events : e = call[t].event
    BY DEF EngineInv, EngineTypeOK
<1>1. call[t].at = "post" /\ Active(t) /\ Handling(t, e)
    BY <1>0 DEF PostProcess, Active, Handling
<1>2. \A u \in Threads \ {t} : ~Active(u)
    BY <1>1 DEF EngineInv, OneAtATime
<1>3. /\ \A u \in Threads \ {t} : call'[u] = call[u]
      /\ \/ call'[t] = NoCall
         \/ e = "SUSPEND" /\ call'[t] = [call[t] EXCEPT !.at = "settle"]
    BY <1>0 DEF PostProcess, EngineInv, EngineTypeOK
<1>4. \A u \in Threads : ~Active(u)'
  <2>1. call[t] \in [at : Places, event : Events, to : SUBSET Device, next : Device]
    BY DEF EngineInv, EngineTypeOK
  <2>2. call'[t].at \in {"idle", "settle"}
    BY <1>3, <2>1 DEF NoCall
  <2> QED
    BY <1>2, <1>3, <2>2 DEF Active
<1>5. \A u \in Threads : \A f : ~Handling(u, f)'
    BY <1>4 DEF Active, Handling
<1>6. \A u \in Threads : \A f : Handling(u, f) => u = t /\ f = e
    BY <1>0, <1>2 DEF Handling, Active
<1>7. \A d \in Device : Treated(t, d)
    BY <1>1 DEF Treated
<1>8. Still /\ UNCHANGED <<prefs, saved>> /\ status' = Posted(status, e)
    BY <1>0 DEF PostProcess, Still
<1>9. OneAtATime'
    BY <1>4 DEF OneAtATime
<1>10. CallsOK'
  <2>1. \A u \in Threads \ {t} : call'[u].at # "save"
      BY <1>4 DEF Active
  <2>2. call'[t].at \in {"idle", "save"} => call'[t].event = "BOOT"
      BY <1>3 DEF NoCall, EngineInv, EngineTypeOK
  <2>3. call'[t].at # "save"
      BY <1>4 DEF Active
  <2>4. call'[t].event \notin ForcedEvents => call'[t].to = Device \/ call'[t].event = "BOOT"
      BY <1>3 DEF NoCall, EngineInv, EngineTypeOK, CallsOK
  <2> QED
      BY <1>3, <1>5, <2>1, <2>2, <2>3, <2>4 DEF CallsOK, EngineInv
<1>11. PowerInv'
  <2>1. ASSUME ~status'.power, NEW d \in managed'
        PROVE  Dark(d)'
    <3>1. d \in managed /\ d \in Device
        BY <1>8 DEF Still, EngineInv, EngineTypeOK
    <3>2. CASE e = "SUSPEND"
        BY <3>1, <3>2, <1>1, <1>7, <1>8, StillDark DEF EngineInv, PowerInv
    <3>3. CASE e # "SUSPEND"
      <4>1. ~status.power /\ e # "DISPLAYON"
          BY <2>1, <3>3, <1>8 DEF Posted, EngineInv, EngineTypeOK
      <4> QED
          BY <3>1, <4>1, <1>6, <1>8, StillDark DEF EngineInv, PowerInv
    <3> QED
        BY <3>2, <3>3
  <2> QED
      BY <2>1, <1>5 DEF PowerInv
<1>12. RemoteInv'
  <2>1. ASSUME status'.remote, NEW d \in managed'
        PROVE  ~LitUnasked(d)'
    <3>1. d \in managed /\ d \in Device
        BY <1>8 DEF Still, EngineInv, EngineTypeOK
    <3>2. CASE e = "REMOTE_CONNECT"
        BY <3>1, <3>2, <1>1, <1>7, <1>8, StillDark DEF EngineInv, RemoteInv
    <3>3. CASE e # "REMOTE_CONNECT"
      <4>1. status.remote /\ e # "REMOTE_DISCONNECT"
          BY <2>1, <3>3, <1>8 DEF Posted, EngineInv, EngineTypeOK
      <4> QED
          BY <3>1, <4>1, <1>6, <1>8, StillDark DEF EngineInv, RemoteInv
    <3> QED
        BY <3>2, <3>3
  <2> QED
      BY <2>1, <1>5 DEF RemoteInv
<1>13. TopologyInv'
  <2>1. \A d \in Device : ~Enforcing(d)
      BY <1>1, <1>2, <1>6, <1>7 DEF Enforcing, Active
  <2> QED
      BY <2>1, <1>8, StillDark DEF TopologyInv, EngineInv, Still
<1>14. FileInv'
    BY <1>8 DEF FileInv, EngineInv, Loaded, Still
<1> QED
    BY <1>9, <1>10, <1>11, <1>12, <1>13, <1>14 DEF FlagsInv

\* Every step of the engine keeps the invariant.
LEMMA InvKept == EngineInv /\ [EngineNext]_engine => EngineInv'
<1> SUFFICES ASSUME EngineInv, [EngineNext]_engine
             PROVE  EngineInv'
    OBVIOUS
<1>0. EngineTypeOK'
    BY TypesKept DEF EngineInv
<1>1. ASSUME Quiet, NEW t \in Threads, NEW e \in SystemEvents, SystemEvent(t, e)
      PROVE  FlagsInv'
  <2>1. Translated(e) \in Events \ {"TOPOLOGY"}
      BY EventTypes DEF EngineInv
  <2> QED
      BY <1>0, <1>1, <2>1, BeginKeeps DEF SystemEvent
<1>2. ASSUME NEW t \in Threads, NEW type \in ShutdownTypes, ShutdownType(t, type)
      PROVE  FlagsInv'
  <2>1. Still /\ UNCHANGED <<prefs, call, saved>>
      BY <1>2 DEF ShutdownType, Still
  <2>2. status'.power = status.power /\ status'.remote = status.remote
      BY <1>2 DEF ShutdownType, EngineInv, EngineTypeOK
  <2> QED
      BY <1>0, <2>1, <2>2, StillKeeps
<1>3. ASSUME Quiet, NEW t \in Threads, NEW e \in ForcedEvents, NEW d \in Device,
             Forced(t, e, {d})
      PROVE  FlagsInv'
  <2>1. e \in Events \ {"TOPOLOGY"} /\ {d} \in SUBSET Device
      BY DEF Events, ForcedEvents
  <2> QED
      BY <1>0, <1>3, <2>1, BeginKeeps DEF Forced
<1>4. ASSUME Quiet, NEW t \in Threads, NEW e,
             Streaming(t, e) \/ UserReport(t, e)
      PROVE  FlagsInv'
  <2>1. e \in Events \ {"TOPOLOGY"} /\ Dispatch(t, e, Device)
      BY <1>4 DEF Streaming, UserReport, Events
  <2> QED
      BY <1>0, <1>4, <2>1, BeginKeeps
<1>5. ASSUME NEW t \in Threads, NEW d \in Device, AutoEnable(t, {d}) \/ AutoDisable(t, {d})
      PROVE  FlagsInv'
  <2>1. \A x \in managed' :
          \/ x \in managed /\ session'[x].asked = session[x].asked
                           /\ session'[x].by \in {session[x].by, "user"}
          \/ session'[x].by = "user"
      BY <1>5 DEF AutoEnable, AutoDisable, EngineInv, EngineTypeOK
  <2>2. UNCHANGED <<prefs, status, topology, saved, call>>
      BY <1>5 DEF AutoEnable, AutoDisable
  <2> QED
      BY <1>0, <2>1, <2>2, ManagedKeeps
<1>6. ASSUME NEW d \in Device, SessionEnds(d)
      PROVE  FlagsInv'
  <2>1. Still
      BY <1>6 DEF SessionEnds, Still, EngineInv, EngineTypeOK
  <2> QED
      BY <1>0, <1>6, <2>1, StillKeeps DEF SessionEnds
<1>7. ASSUME UNCHANGED engine
      PROVE  FlagsInv'
  <2>1. Still /\ UNCHANGED <<prefs, status, call, saved>>
      BY <1>7 DEF engine, Still
  <2> QED
      BY <1>0, <2>1, StillKeeps DEF EngineInv, FlagsInv
<1>8. ASSUME Quiet, NEW t \in Threads, IpcCallback(t)
      PROVE  FlagsInv'
  <2>1. CASE \E e \in ForcedEvents, d \in Device : Forced(t, e, {d})
      BY <1>8, <2>1, <1>3
  <2>2. CASE \E e : Streaming(t, e) \/ UserReport(t, e)
      BY <1>8, <2>2, <1>4
  <2>3. CASE \E d \in Device : AutoEnable(t, {d}) \/ AutoDisable(t, {d})
      BY <2>3, <1>5
  <2>4. CASE \E on \in SUBSET Device : TopologyState(t, on)
      BY <1>0, <1>8, <2>4, TopologyKeeps
  <2>5. CASE TopologyInvalid(t)
      BY <1>0, <1>8, <2>5, InvalidKeeps
  <2> QED
      BY <1>8, <2>1, <2>2, <2>3, <2>4, <2>5 DEF IpcCallback
<1>9. ASSUME NEW t \in Threads, EngineStep(t) \/ EndSettle(t, TRUE)
      PROVE  FlagsInv'
    BY <1>0, <1>9, ProcessKeeps, PostKeeps, SaveKeeps, SettleKeeps DEF EngineStep
<1>10. Restart => FlagsInv'
    BY <1>0, RestartKeeps
<1>11. FlagsInv'
  <2>0. \/ Quiet /\ \E t \in Threads : \E e \in SystemEvents : SystemEvent(t, e)
        \/ \E t \in Threads : \E type \in ShutdownTypes : ShutdownType(t, type)
        \/ Quiet /\ \E t \in Threads : IpcCallback(t)
        \/ \E t \in Threads : EngineStep(t) \/ EndSettle(t, TRUE)
        \/ \E d \in Device : SessionEnds(d)
        \/ Restart
        \/ UNCHANGED engine
    <3>1. CASE EngineNext
        BY <3>1, Zenon DEF EngineNext
    <3>2. CASE UNCHANGED engine
        BY <3>2
    <3> QED
        BY <3>1, <3>2
  <2>1. CASE Quiet /\ \E t \in Threads : \E e \in SystemEvents : SystemEvent(t, e)
      BY <2>1, <1>1
  <2>2. CASE \E t \in Threads : \E type \in ShutdownTypes : ShutdownType(t, type)
      BY <2>2, <1>2
  <2>3. CASE Quiet /\ \E t \in Threads : IpcCallback(t)
      BY <2>3, <1>8
  <2>4. CASE \E t \in Threads : EngineStep(t) \/ EndSettle(t, TRUE)
      BY <2>4, <1>9
  <2>5. CASE \E d \in Device : SessionEnds(d)
      BY <2>5, <1>6
  <2>6. CASE Restart
      BY <2>6, <1>10
  <2>7. CASE UNCHANGED engine
      BY <2>7, <1>7
  <2> QED
      BY <2>0, <2>1, <2>2, <2>3, <2>4, <2>5, <2>6, <2>7
<1> QED
    BY <1>0, <1>11 DEF EngineInv, FlagsInv

\* The invariant of the engine.
THEOREM EngineInductive == EngineSpec => []EngineInv
<1>1. EngineInit => EngineInv
    BY InvAtStart
<1>2. EngineInv /\ [EngineNext]_engine => EngineInv'
    BY InvKept
<1> QED
    BY <1>1, <1>2, PTL DEF EngineSpec

-----------------------------------------------------------------------------
(* What follows from it.                                                    *)

\* Every variable of the engine has its type: the loop over the displays ends with the
\* last, and no event asks for what there is not.
THEOREM EngineTypeCorrect == EngineSpec => []EngineTypeOK
<1>1. EngineInv => EngineTypeOK
    BY DEF EngineInv
<1> QED
    BY <1>1, EngineInductive, PTL

\* While a streaming client is connected, no managed display has been lit by an event of
\* the system or of the user (the guards of processEvent).
THEOREM RemoteStaysDark == EngineSpec => []RemoteKeepsDark
<1>1. EngineInv => RemoteKeepsDark
    BY QuietMeans DEF EngineInv, EngineTypeOK, RemoteInv, RemoteKeepsDark, LitUnasked,
                      Active, Handling
<1> QED
    BY <1>1, EngineInductive, PTL

\* Where windows_power_status_on_ is false no managed display shows a picture the engine
\* asked for: a suspend that sends nothing leaves nothing on.
THEOREM OffIsDark == EngineSpec => []OffMeansDark
<1>1. EngineInv => OffMeansDark
  <2> SUFFICES ASSUME EngineInv, Quiet, ~status.power, NEW d \in managed
               PROVE  Dark(d)
      BY DEF OffMeansDark, Dark
  <2> QED
      BY QuietMeans DEF EngineInv, PowerInv, Active, Handling
<1> QED
    BY <1>1, EngineInductive, PTL

\* A display the monitor topology leaves out shows no picture the engine asked for, other
\* than the one a leaving streaming client causes.
THEOREM TopologyIsFollowed == EngineSpec => []FollowsTopology
<1>1. EngineInv => FollowsTopology
  <2> SUFFICES ASSUME EngineInv, Quiet, topology.support, NEW d \in Device \ topology.on,
                      LitUnasked(d)
               PROVE  session[d].by = "REMOTE_DISCONNECT"
      BY DEF FollowsTopology
  <2>1. ~Enforcing(d)
      BY QuietMeans DEF Enforcing, Handling, Active
  <2> QED
      BY <2>1 DEF EngineInv, TopologyInv
<1> QED
    BY <1>1, EngineInductive, PTL

\* A start with a topology file that was written to its end has the topology of before.
THEOREM TopologySurvives == EngineSpec => TopologyRestored
<1>1. EngineInv /\ [EngineNext]_engine
        => [Restart /\ prefs.topology /\ prefs.keepOnBoot /\ saved.state # "torn"
              => topology' = topology]_engine
    BY DEF EngineInv, FileInv, Restart, Restored
<1> QED
    BY <1>1, EngineInductive, PTL DEF EngineSpec, TopologyRestored

-----------------------------------------------------------------------------
(* Sleep and shutdown under logind.                                         *)

(* What is announced.                                                       *)

\* Each request found the bus silent.
Orderly == ~machine.cancelled /\ ~({"restless", "unheard"} \subseteq haste)

Announcement == [name : {"sleep", "metadata", "shutdown"}, kind : Kinds, goingDown : BOOLEAN]

LogindOK ==
    /\ machine \in [phase : {"awake", "going", "asleep", "stopping", "down"}, kind : Kinds,
                    elapsed : Nat, cancelled : BOOLEAN]
    /\ signals \in Seq(Announcement)
    /\ monitor \in [lock : BOOLEAN, handled : BOOLEAN]
    /\ script \in [Threads -> Seq(Steps)]
    /\ haste \subseteq {"restless", "unheard"}
    /\ machine.phase = "asleep" => machine.kind = "sleep"

\* The bus carries what was announced of the last request and, after a sleep, its end.
SignalsOK ==
    Orderly =>
      /\ \A i \in DOMAIN signals :
           IF signals[i].goingDown
           THEN /\ signals[i].kind = machine.kind
                /\ signals[i].name = "sleep" <=> machine.kind = "sleep"
                /\ signals[i].name = "sleep" => i = 1
           ELSE signals[i].name = "sleep" /\ machine.phase = "awake"
      /\ machine.phase = "awake" /\ signals # <<>>
           => machine.kind = "sleep" /\ ~signals[Len(signals)].goingDown

-----------------------------------------------------------------------------
(* The lock.                                                                *)

Heard == ~machine.cancelled /\ "unheard" \notin haste

\* The release is the last step of a script.
ReleaseLast ==
    \A i \in DOMAIN script["bus"] : script["bus"][i] = "release" => i = Len(script["bus"])

\* An announcement that the handler will act upon.
Ahead ==
    \E i \in DOMAIN signals :
      signals[i].goingDown /\ (signals[i].name = "sleep" \/ ~monitor.handled)

LockInv ==
    /\ ReleaseLast
    /\ Heard /\ script["bus"] # <<>> => monitor.lock
    /\ Heard /\ Ahead => monitor.lock /\ script["bus"] = <<>>
    /\ Heard /\ machine.phase = "awake" /\ monitor.lock /\ signals = <<>> => script["bus"] = <<>>

-----------------------------------------------------------------------------
(* The displays.                                                            *)

Calm == Undisturbed /\ Metadata /\ "restless" \notin haste

Darkening == {"SUSPEND", "SHUTDOWN", "UNSURE"}

\* A thread that has yet to switch a display off.
Darkens(t) ==
    \/ call[t].at = "process" /\ call[t].event \in Darkening
    \/ \E i \in DOMAIN script[t] : script[t][i] \in Darkening

\* A thread that has yet to light the display.
Lights(t, d) ==
    \/ call[t].at = "process" /\ call[t].event = "DISPLAYON" /\ call[t].next <= d
    \/ \E i \in DOMAIN script[t] : script[t][i] = "DISPLAYON"

\* Nothing was announced, or nothing that asks for dark displays.
Day == machine.phase = "awake" /\ signals = <<>>

Rebooting == machine.phase # "awake" /\ machine.kind = "reboot"

\* What the display shows once it has answered, or should show where its session gave up.
Shown(d) ==
    IF session[d].pending \/ screen[d] = "unknown" THEN session[d].asked ELSE screen[d]

\* The events that threads bring.
Brought == SystemEvents \cup {"REBOOT", "UNSURE", "USERIDLE", "USERBUSY"}

ThreadsOK ==
    /\ ~status.remote /\ ~topology.support
    /\ screen \in [Device -> Asks \cup {"unknown"}]
    /\ \A t \in Threads :
         /\ call[t].event \in Brought
         /\ call[t].at = "process" => call[t].to = Device
         /\ t # "bus" => ~Darkens(t)

DisplayInv ==
    /\ EngineTypeOK /\ ThreadsOK
    /\ Calm /\ (Day \/ Rebooting) => ~Darkens("bus")
    /\ Calm /\ Day =>
         \A d \in managed : session[d].asked # "off" \/ \E t \in Threads : Lights(t, d)
    /\ Calm /\ Rebooting /\ signals # <<>> => signals[1].name = "metadata" \/ monitor.handled
    /\ Calm /\ Rebooting => \A d \in managed : session[d].asked # "off"

-----------------------------------------------------------------------------
(* Scripts and announcements.                                               *)

\* The scripts are made of steps, the release is the last of those of the monitor, and
\* those of a reboot and of a resume switch nothing off.
LEMMA Scripts ==
  /\ SuspendScript \in Seq(Steps) /\ ResumeScript \in Seq(Steps) /\ Startup \in Seq(Steps)
  /\ \A kind \in Kinds : ScriptOf(kind) \in Seq(Steps)
  /\ ScriptOf("unsure") \in Seq(Steps)
<1>1. /\ {"SUSPEND", "drain", "release", "wake", "network", "RESUME", "DISPLAYON", "SHUTDOWN",
           "REBOOT"} \subseteq Steps
      /\ Types \subseteq Steps
  BY DEF Steps, SystemEvents
<1>2. SuspendScript \in Seq(Steps) /\ ResumeScript \in Seq(Steps) /\ Startup \in Seq(Steps)
  BY <1>1 DEF SuspendScript, ResumeScript, Startup, Types
<1>3. RebootScript \in Seq(Steps) /\ \A type \in Types : ShutdownScript(type) \in Seq(Steps)
  BY <1>1 DEF RebootScript, ShutdownScript, Types
<1>4. {"TYPE_SHUTDOWN", "TYPE_UNSURE"} \subseteq Types
  BY DEF Types
<1> QED
  BY <1>2, <1>3, <1>4 DEF ScriptOf

\* logind announces each operation in a fixed order, with its kind.
LEMMA AnnouncedFacts ==
  ASSUME NEW kind \in Kinds, NEW g \in BOOLEAN, NEW a, a = Announced(kind, g)
  PROVE  /\ a \in Seq(Announcement) /\ a # <<>>
         /\ \A i \in DOMAIN a : /\ a[i].goingDown = g /\ a[i].kind = kind
                                /\ a[i].name = "sleep" <=> kind = "sleep"
                                /\ kind = "sleep" => i = 1
         /\ kind # "sleep" /\ Metadata => a[1].name = "metadata"
         /\ kind = "sleep" => Len(a) = 1
<1> DEFINE Says(name) == [name |-> name, kind |-> kind, goingDown |-> g]
<1>1. \A name \in {"sleep", "metadata", "shutdown"} :
        /\ Says(name) \in Announcement /\ Says(name).name = name
        /\ Says(name).goingDown = g /\ Says(name).kind = kind
  BY DEF Announcement
<1>2. /\ kind = "sleep" => Announced(kind, g) = <<Says("sleep")>>
      /\ kind # "sleep" /\ Metadata
           => Announced(kind, g) = <<Says("metadata")>> \o <<Says("shutdown")>>
      /\ kind # "sleep" /\ ~Metadata
           => Announced(kind, g) = <<>> \o <<Says("shutdown")>>
  BY Zenon DEF Announced, Announce
<1> HIDE DEF Says
<1>3. CASE kind = "sleep"
  <2> DEFINE m == Says("sleep")
  <2>1. a = <<m>>
    BY <1>2, <1>3
  <2>2. m \in Announcement /\ m.name = "sleep" /\ m.goingDown = g /\ m.kind = kind
    BY <1>1
  <2> HIDE DEF m
  <2>3. /\ a \in Seq(Announcement) /\ Len(a) = 1 /\ a # <<>>
        /\ DOMAIN a = {1} /\ a[1] = m
    BY <2>1, <2>2
  <2> QED
    BY <1>3, <2>2, <2>3
<1>4. CASE kind # "sleep" /\ Metadata
  <2> DEFINE m == Says("metadata")
  <2> DEFINE s == Says("shutdown")
  <2>1. a = <<m>> \o <<s>>
    BY <1>2, <1>4
  <2>2. /\ m \in Announcement /\ m.name = "metadata" /\ m.goingDown = g /\ m.kind = kind
        /\ s \in Announcement /\ s.name = "shutdown" /\ s.goingDown = g /\ s.kind = kind
    BY <1>1
  <2> HIDE DEF m, s
  <2>3. /\ <<m>> \in Seq(Announcement) /\ Len(<<m>>) = 1 /\ <<m>>[1] = m
        /\ <<s>> \in Seq(Announcement) /\ Len(<<s>>) = 1 /\ <<s>>[1] = s
    BY <2>2
  <2>4. /\ a \in Seq(Announcement) /\ Len(a) = 2
        /\ \A i \in 1 .. 2 : a[i] = IF i <= 1 THEN <<m>>[i] ELSE <<s>>[i - 1]
    BY <2>1, <2>3, ConcatProperties
  <2>5. a[1] = m /\ a[2] = s /\ DOMAIN a = {1, 2} /\ a # <<>>
    BY <2>3, <2>4
  <2> QED
    BY <1>4, <2>2, <2>4, <2>5
<1>5. CASE kind # "sleep" /\ ~Metadata
  <2> DEFINE s == Says("shutdown")
  <2>1. s \in Announcement /\ s.name = "shutdown" /\ s.goingDown = g /\ s.kind = kind
    BY <1>1
  <2>2. a = <<>> \o <<s>>
    BY <1>2, <1>5
  <2> HIDE DEF s
  <2>3. a = <<s>>
    BY <2>1, <2>2, ConcatEmptySeq
  <2>4. a \in Seq(Announcement) /\ a # <<>> /\ DOMAIN a = {1} /\ a[1] = s
    BY <2>1, <2>3
  <2> QED
    BY <1>5, <2>1, <2>4
<1> QED
  BY <1>3, <1>4, <1>5

\* The richer announcement of a shutdown comes first.
LEMMA AnnouncedFirst ==
  ASSUME NEW kind \in Kinds, NEW g \in BOOLEAN, kind # "sleep", Metadata,
         NEW a, a = Announced(kind, g)
  PROVE  a \in Seq(Announcement) /\ a[1].name = "metadata"
BY AnnouncedFacts

\* What is left of a sequence after its first element.
LEMMA TailFacts ==
  ASSUME NEW S, NEW s \in Seq(S), s # <<>>
  PROVE  /\ Head(s) = s[1] /\ s[1] \in S /\ 1 \in DOMAIN s /\ Len(s) \in Nat \ {0}
         /\ Tail(s) \in Seq(S) /\ Len(Tail(s)) = Len(s) - 1
         /\ \A i \in DOMAIN Tail(s) :
              i \in Nat \ {0} /\ i + 1 \in DOMAIN s /\ Tail(s)[i] = s[i + 1]
         /\ \A i \in DOMAIN s : i # 1 => i - 1 \in DOMAIN Tail(s)
         /\ Tail(s) = <<>> <=> Len(s) = 1
<1>1. /\ Tail(s) \in Seq(S) /\ Len(Tail(s)) = Len(s) - 1 /\ Len(s) \in Nat \ {0}
      /\ \A i \in 1 .. Len(Tail(s)) : Tail(s)[i] = s[i + 1]
  BY HeadTailProperties, EmptySeq
<1>2. Tail(s) = <<>> <=> Len(s) = 1
  BY <1>1, EmptySeq
<1>3. DOMAIN s = 1 .. Len(s) /\ DOMAIN Tail(s) = 1 .. Len(s) - 1
  BY <1>1
<1>4. Head(s) = s[1] /\ s[1] \in S
  BY <1>1
<1> QED
  BY <1>1, <1>2, <1>3, <1>4

\* A thread takes the first step of its script.
LEMMA RestFacts ==
  ASSUME LogindOK, NEW t \in Threads, script[t] # <<>>, Rest(t)
  PROVE  /\ script' \in [Threads -> Seq(Steps)] /\ script'[t] = Tail(script[t])
         /\ \A u \in Threads \ {t} : script'[u] = script[u]
<1>1. script \in [Threads -> Seq(Steps)] /\ Tail(script[t]) \in Seq(Steps)
  BY TailFacts DEF LogindOK
<1> QED
  BY <1>1 DEF Rest

\* A thread is given a script.
LEMMA RunFacts ==
  ASSUME LogindOK, NEW t \in Threads, NEW steps \in Seq(Steps), Run(t, steps)
  PROVE  /\ script' \in [Threads -> Seq(Steps)] /\ script'[t] = steps
         /\ \A u \in Threads \ {t} : script'[u] = script[u]
BY DEF LogindOK, Run

\* A resume runs on a thread of its own.
LEMMA ResumeThread ==
  ASSUME \E t \in Resumes : Idle(t)
  PROVE  /\ (CHOOSE t \in Resumes : Idle(t)) \in Threads \ {"bus", "main", "socket"}
         /\ Idle(CHOOSE t \in Resumes : Idle(t))
BY DaemonAssumption

-----------------------------------------------------------------------------
(* Steps of the daemon's threads change nothing that logind sees.            *)

\* The monitor takes a step of its script other than the release, or none.
Works ==
    /\ UNCHANGED <<signals, monitor, haste>>
    /\ machine' \in [phase : {machine.phase}, kind : {machine.kind}, elapsed : Nat,
                     cancelled : {machine.cancelled}]
    /\ script' \in [Threads -> Seq(Steps)]
    /\ \/ script'["bus"] = script["bus"]
       \/ /\ script["bus"] # <<>> /\ Head(script["bus"]) # "release"
          /\ script'["bus"] = Tail(script["bus"])

\* The steps of the threads, of the displays, of the user and of the clock.
LEMMA MostWork ==
  ASSUME LogindOK,
         \/ \E t \in Threads : ScriptStep(t)
         \/ Settle \/ Drain \/ \E d \in Device : Acknowledge(d) \/ GivesUp(d)
         \/ Tick \/ Report \/ UNCHANGED vars
  PROVE  Works
<1>1. machine \in [phase : {machine.phase}, kind : {machine.kind}, elapsed : Nat,
                   cancelled : {machine.cancelled}]
  BY DEF LogindOK
<1>2. script \in [Threads -> Seq(Steps)]
  BY DEF LogindOK
<1>3. "bus" \in Threads
  BY DaemonAssumption
<1>4. ASSUME UNCHANGED <<machine, signals, monitor, haste, script>> PROVE Works
  BY <1>1, <1>2, <1>4 DEF Works
<1>5. ASSUME NEW t \in Threads, script[t] # <<>>, Head(script[t]) # "release", Rest(t),
             UNCHANGED <<machine, signals, monitor, haste>>
      PROVE  Works
  BY <1>1, <1>3, <1>5, RestFacts DEF Works
<1>6. CASE \E t \in Threads : TellType(t) \/ TellEvent(t) \/ Skip(t) \/ WakeRaw(t)
  BY <1>5, <1>6
     DEF TellType, TellEvent, Skip, WakeRaw, AtStep, Types, SystemEvents
<1>7. CASE Drain
  BY <1>3, <1>5, <1>7 DEF Drain, AtStep
<1>8. CASE Tick
  <2>1. UNCHANGED <<signals, monitor, haste, script>>
    BY <1>8 DEF Tick
  <2>2. machine' \in [phase : {machine.phase}, kind : {machine.kind}, elapsed : Nat,
                      cancelled : {machine.cancelled}]
    BY <1>8 DEF Tick, LogindOK
  <2> QED
    BY <1>2, <2>1, <2>2 DEF Works
<1>9. CASE \/ \E t \in Threads : Process(t)
           \/ Settle \/ \E d \in Device : Acknowledge(d) \/ GivesUp(d)
           \/ Report \/ UNCHANGED vars
  BY <1>4, <1>9 DEF Process, Settle, Acknowledge, GivesUp, Report, vars, world
<1> QED
  BY <1>6, <1>7, <1>8, <1>9 DEF ScriptStep

-----------------------------------------------------------------------------
(* The announcements.                                                       *)

\* Steps of the daemon's threads announce nothing.
LEMMA WorksKeepSignals ==
  ASSUME LogindOK, SignalsOK, Works
  PROVE  LogindOK' /\ SignalsOK'
<1>1. /\ machine'.phase = machine.phase /\ machine'.kind = machine.kind
      /\ machine'.cancelled = machine.cancelled
  BY DEF Works
<1>2. LogindOK'
  BY DEF LogindOK, Works
<1>3. SignalsOK'
  BY <1>1 DEF SignalsOK, Orderly, Works
<1> QED
  BY <1>2, <1>3

\* The lock is released.
LEMMA ReleaseKeepsSignals ==
  ASSUME LogindOK, SignalsOK, ReleaseInhibitor
  PROVE  LogindOK' /\ SignalsOK'
<1>1. script["bus"] # <<>> /\ Rest("bus") /\ UNCHANGED <<machine, signals, haste>>
  BY DEF ReleaseInhibitor, AtStep
<1>2. script' \in [Threads -> Seq(Steps)]
  BY <1>1, RestFacts, DaemonAssumption
<1>3. monitor' \in [lock : BOOLEAN, handled : BOOLEAN]
  BY DEF ReleaseInhibitor, LogindOK
<1> QED
  BY <1>1, <1>2, <1>3 DEF LogindOK, SignalsOK, Orderly

\* The monitor takes the first announcement.
LEMMA TakenKeepsSignals ==
  ASSUME LogindOK, SignalsOK, signals # <<>>, signals' = Tail(signals),
         UNCHANGED <<machine, haste>>
  PROVE  signals' \in Seq(Announcement) /\ SignalsOK'
<1>1. /\ signals' \in Seq(Announcement) /\ Len(signals') = Len(signals) - 1
      /\ \A i \in DOMAIN signals' : i + 1 \in DOMAIN signals /\ signals'[i] = signals[i + 1]
  BY TailFacts DEF LogindOK
<1>2. signals' # <<>> => signals'[Len(signals')] = signals[Len(signals)]
  BY <1>1 DEF LogindOK
<1>3. \A i \in DOMAIN signals' : i \in Nat \ {0}
  BY <1>1
<1>4. SignalsOK'
  BY <1>1, <1>2, <1>3 DEF SignalsOK, Orderly
<1> QED
  BY <1>1, <1>4

\* The handlers of the monitor run a script on its thread, on that of a resume, or none.
LEMMA HandlersKeepSignals ==
  ASSUME LogindOK, SignalsOK,
         \/ OnPrepareForSleep \/ OnWakeUp \/ OnPrepareForShutdown
         \/ OnPrepareForShutdownWithMetadata \/ OnCancelled
  PROVE  LogindOK' /\ SignalsOK'
<1>1. /\ signals # <<>> /\ signals' = Tail(signals) /\ UNCHANGED <<machine, haste>>
  BY DEF OnPrepareForSleep, OnWakeUp, OnPrepareForShutdown, OnPrepareForShutdownWithMetadata,
         OnCancelled, Signal
<1>2. "bus" \in Threads /\ script \in [Threads -> Seq(Steps)]
      /\ monitor \in [lock : BOOLEAN, handled : BOOLEAN]
  BY DaemonAssumption DEF LogindOK
<1>3. /\ script' \in [Threads -> Seq(Steps)]
      /\ monitor' \in [lock : BOOLEAN, handled : BOOLEAN]
  <2>1. ASSUME NEW kind \in Kinds \cup {"unsure"}, Handle(kind)
        PROVE  /\ script' \in [Threads -> Seq(Steps)]
               /\ monitor' \in [lock : BOOLEAN, handled : BOOLEAN]
    BY <1>2, <2>1, Scripts, RunFacts DEF Handle
  <2>2. CASE OnPrepareForSleep
    BY <1>2, <2>2, Scripts, RunFacts DEF OnPrepareForSleep
  <2>3. CASE OnWakeUp
    BY <2>3, Scripts, RunFacts, ResumeThread DEF OnWakeUp
  <2>4. CASE OnPrepareForShutdown
    BY <2>1, <2>4 DEF OnPrepareForShutdown
  <2>5. CASE OnPrepareForShutdownWithMetadata
    <3>1. Head(signals) \in Announcement
      BY <1>1, TailFacts DEF LogindOK
    <3>2. Head(signals).kind \in Kinds
      BY <3>1 DEF Announcement
    <3> QED
      BY <2>1, <2>5, <3>2 DEF OnPrepareForShutdownWithMetadata
  <2>6. CASE OnCancelled
    BY <1>2, <2>6 DEF OnCancelled
  <2> QED
    BY <2>2, <2>3, <2>4, <2>5, <2>6
<1>4. signals' \in Seq(Announcement) /\ SignalsOK'
  BY <1>1, TakenKeepsSignals
<1> QED
  BY <1>1, <1>3, <1>4 DEF LogindOK

\* logind asks for an operation, and finds the bus silent, or there is more to say.
LEMMA RequestKeepsSignals ==
  ASSUME LogindOK, SignalsOK, NEW kind \in Kinds, Request(kind)
  PROVE  LogindOK' /\ SignalsOK'
<1> DEFINE a == Announced(kind, TRUE)
<1>1. /\ a \in Seq(Announcement)
      /\ \A i \in DOMAIN a : /\ a[i].goingDown = TRUE /\ a[i].kind = kind
                             /\ a[i].name = "sleep" <=> kind = "sleep"
                             /\ kind = "sleep" => i = 1
  BY AnnouncedFacts
<1> HIDE DEF a
<1>2. /\ machine.phase = "awake" /\ signals' = signals \o a /\ UNCHANGED <<monitor, script>>
      /\ machine' = [machine EXCEPT !.phase = "going", !.kind = kind, !.elapsed = 0]
  BY DEF Request, a
<1>3. /\ machine' \in [phase : {"going"}, kind : {kind}, elapsed : Nat,
                       cancelled : {machine.cancelled}]
  BY <1>2 DEF LogindOK
<1>4. /\ haste' \subseteq {"restless", "unheard"} /\ haste \subseteq haste'
      /\ Orderly' => signals = <<>>
  <2>1. haste' = haste \cup (IF AtRest THEN {} ELSE {"restless"})
                       \cup (IF monitor.lock /\ signals = <<>> THEN {} ELSE {"unheard"})
    BY DEF Request
  <2>2. AtRest => signals = <<>>
    BY DEF AtRest
  <2> QED
    <3>1. /\ haste' \subseteq {"restless", "unheard"} /\ haste \subseteq haste'
      BY <2>1 DEF LogindOK
    <3>2. signals # <<>> => {"restless", "unheard"} \subseteq haste'
      BY <2>1, <2>2
    <3> QED
      BY <3>1, <3>2 DEF Orderly
<1>5. signals' \in Seq(Announcement)
  BY <1>1, <1>2, ConcatProperties DEF LogindOK
<1>6. LogindOK'
  BY <1>2, <1>3, <1>4, <1>5 DEF LogindOK
<1>7. SignalsOK'
  <2> SUFFICES ASSUME Orderly' PROVE signals' = a
    BY <1>1, <1>3 DEF SignalsOK
  <2> QED
    BY <1>1, <1>2, <1>4, ConcatEmptySeq
<1> QED
  BY <1>6, <1>7

\* A machine that sleeps wakes up, and says so.
LEMMA WakeKeepsSignals ==
  ASSUME LogindOK, SignalsOK, Wake
  PROVE  /\ LogindOK' /\ SignalsOK' /\ Len(signals') = Len(signals) + 1
         /\ signals \in Seq(Announcement)
         /\ \A i \in DOMAIN signals : i \in DOMAIN signals' /\ signals'[i] = signals[i]
         /\ \A i \in DOMAIN signals' :
              i \notin DOMAIN signals => ~signals'[i].goingDown /\ signals'[i].name = "sleep"
<1> DEFINE m == [name |-> "sleep", kind |-> "sleep", goingDown |-> FALSE]
<1>1. m \in Announcement /\ m.name = "sleep" /\ ~m.goingDown
  BY DEF Announcement, Kinds
<1>2. /\ machine.phase = "asleep" /\ UNCHANGED <<monitor, script, haste>>
      /\ signals' = signals \o <<m>>
      /\ machine' = [machine EXCEPT !.phase = "awake", !.elapsed = 0]
  <2>1. Announced("sleep", FALSE) = <<m>>
    BY DEF Announced, Announce
  <2> QED
    BY <2>1 DEF Wake
<1> HIDE DEF m
<1>3. <<m>> \in Seq(Announcement) /\ Len(<<m>>) = 1 /\ <<m>>[1] = m
  BY <1>1
<1>4. signals \in Seq(Announcement) /\ machine.kind = "sleep"
  BY <1>2 DEF LogindOK
<1>5. /\ signals' \in Seq(Announcement) /\ Len(signals') = Len(signals) + 1
      /\ \A i \in 1 .. Len(signals) : signals'[i] = signals[i]
      /\ signals'[Len(signals) + 1] = m
  <2>1. /\ signals \o <<m>> \in Seq(Announcement)
        /\ Len(signals \o <<m>>) = Len(signals) + 1
        /\ \A i \in 1 .. Len(signals) + 1 :
             (signals \o <<m>>)[i]
               = IF i <= Len(signals) THEN signals[i] ELSE <<m>>[i - Len(signals)]
    BY <1>3, <1>4, ConcatProperties
  <2> QED
    BY <1>2, <1>3, <1>4, <2>1
<1>6. machine' \in [phase : {"awake"}, kind : {"sleep"}, elapsed : Nat,
                    cancelled : {machine.cancelled}]
  BY <1>2, <1>4 DEF LogindOK
<1>7. LogindOK'
  BY <1>2, <1>5, <1>6 DEF LogindOK, Kinds
<1>8. SignalsOK'
  <2> SUFFICES ASSUME Orderly PROVE SignalsOK'
    BY <1>2, <1>6 DEF SignalsOK, Orderly
  <2>1. \A i \in DOMAIN signals' : (i \in DOMAIN signals /\ signals'[i] = signals[i])
                                     \/ signals'[i] = m
    BY <1>4, <1>5
  <2> QED
    BY <1>1, <1>2, <1>4, <1>5, <1>6, <2>1 DEF SignalsOK
<1> QED
  BY <1>1, <1>4, <1>5, <1>7, <1>8

\* The operation goes ahead, or is cancelled.
LEMMA MachineKeepsSignals ==
  ASSUME LogindOK, SignalsOK, Proceed \/ GoDown \/ Cancel
  PROVE  LogindOK' /\ SignalsOK'
<1>1. UNCHANGED <<monitor, script, haste>>
  BY DEF Proceed, GoDown, Cancel
<1>2. CASE Proceed \/ GoDown
  <2>1. /\ machine.phase \in {"going", "stopping"}
        /\ machine' \in [phase : {"asleep", "stopping", "down"}, kind : {machine.kind},
                         elapsed : Nat, cancelled : {machine.cancelled}]
        /\ machine'.phase = "asleep" => machine.kind = "sleep"
    <3>1. CASE Proceed
      BY <3>1 DEF Proceed, LogindOK
    <3>2. CASE GoDown
      BY <3>2 DEF GoDown, LogindOK
    <3> QED
      BY <1>2, <3>1, <3>2
  <2>2. UNCHANGED signals
    BY <1>2 DEF Proceed, GoDown
  <2>3. LogindOK'
    BY <1>1, <2>1, <2>2 DEF LogindOK
  <2>4. SignalsOK'
    BY <1>1, <2>1, <2>2 DEF SignalsOK, Orderly
  <2> QED
    BY <2>3, <2>4
<1>3. CASE Cancel
  <2>1. machine' \in [phase : {"awake"}, kind : {machine.kind}, elapsed : Nat,
                      cancelled : {TRUE}]
    BY <1>3 DEF Cancel, LogindOK
  <2>2. Announced(machine.kind, FALSE) \in Seq(Announcement)
    BY AnnouncedFacts DEF LogindOK
  <2>3. signals' \in Seq(Announcement)
    BY <1>3, <2>2, ConcatProperties DEF Cancel, LogindOK
  <2>4. LogindOK'
    BY <1>1, <2>1, <2>3 DEF LogindOK
  <2>5. SignalsOK'
    BY <2>1 DEF SignalsOK, Orderly
  <2> QED
    BY <2>4, <2>5
<1> QED
  BY <1>2, <1>3

\* What is announced stays as it should be.
LEMMA NextSignals ==
  ASSUME LogindOK, SignalsOK, [Next]_vars
  PROVE  LogindOK' /\ SignalsOK'
BY MostWork, WorksKeepSignals, ReleaseKeepsSignals, HandlersKeepSignals, RequestKeepsSignals,
   WakeKeepsSignals, MachineKeepsSignals DEF Next, System, Monitor, Machine

-----------------------------------------------------------------------------
(* The lock.                                                                *)

\* A script of the monitor releases the lock at its end.
ReleasesLast(s) == \A i \in DOMAIN s : s[i] = "release" => i = Len(s)

\* The scripts of the monitor do.
LEMMA ScriptsReleaseLast ==
  /\ ReleasesLast(SuspendScript)
  /\ \A kind \in Kinds \cup {"unsure"} : ReleasesLast(ScriptOf(kind))
<1>1. ReleasesLast(SuspendScript) /\ ReleasesLast(RebootScript)
  BY DEF ReleasesLast, SuspendScript, RebootScript
<1>2. \A type \in Types : ReleasesLast(ShutdownScript(type))
  BY DEF ReleasesLast, ShutdownScript, Types
<1>3. {"TYPE_SHUTDOWN", "TYPE_UNSURE"} \subseteq Types
  BY DEF Types
<1> QED
  BY <1>1, <1>2, <1>3 DEF ScriptOf

\* The steps of a script before the last keep the lock.
LEMMA WorksKeepLock ==
  ASSUME LogindOK, LockInv, Works
  PROVE  LockInv'
<1>1. script["bus"] \in Seq(Steps)
  BY DaemonAssumption DEF LogindOK
<1>2. script'["bus"] # <<>> => script["bus"] # <<>>
  BY DEF Works
<1>3. /\ (Heard' <=> Heard) /\ (Ahead' <=> Ahead) /\ machine'.phase = machine.phase
      /\ UNCHANGED <<signals, monitor>>
  BY DEF Works, Heard, Ahead
<1>4. ReleaseLast'
  <2>1. CASE script'["bus"] = script["bus"]
    BY <2>1 DEF LockInv, ReleaseLast
  <2>2. CASE script["bus"] # <<>> /\ script'["bus"] = Tail(script["bus"])
    BY <1>1, <2>2, TailFacts DEF LockInv, ReleaseLast
  <2> QED
    BY <2>1, <2>2 DEF Works
<1> QED
  BY <1>2, <1>3, <1>4 DEF LockInv

\* The release ends the script, and nothing is ahead that would start another.
LEMMA ReleaseKeepsLock ==
  ASSUME LogindOK, LockInv, ReleaseInhibitor
  PROVE  LockInv'
<1>1. /\ script["bus"] # <<>> /\ Head(script["bus"]) = "release" /\ Rest("bus")
      /\ UNCHANGED <<machine, signals, haste>> /\ monitor' = [monitor EXCEPT !.lock = FALSE]
  BY DEF ReleaseInhibitor, AtStep
<1>2. "bus" \in Threads /\ script["bus"] \in Seq(Steps)
  BY DaemonAssumption DEF LogindOK
<1>3. script'["bus"] = <<>>
  <2>1. Len(script["bus"]) = 1
    BY <1>1, <1>2, TailFacts DEF LockInv, ReleaseLast
  <2>2. script'["bus"] = Tail(script["bus"])
    BY <1>1, <1>2, RestFacts
  <2>3. Tail(script["bus"]) = <<>>
    BY <1>1, <1>2, <2>1, TailFacts
  <2> QED
    BY <2>2, <2>3
<1>4. monitor'.lock = FALSE /\ monitor'.handled = monitor.handled
  BY <1>1 DEF LogindOK
<1>5. (Heard' <=> Heard) /\ (Ahead' <=> Ahead)
  BY <1>1, <1>4 DEF Heard, Ahead
<1> QED
  BY <1>1, <1>3, <1>4, <1>5 DEF LockInv, ReleaseLast

\* A shutdown is announced, and handled unless it was before.
LEMMA HandleKeepsLock ==
  ASSUME LogindOK, SignalsOK, LockInv, NEW kind \in Kinds \cup {"unsure"}, Handle(kind),
         signals # <<>>, signals' = Tail(signals), UNCHANGED <<machine, haste>>,
         script["bus"] = <<>>, signals[1].goingDown, signals[1].name # "sleep"
  PROVE  LockInv'
<1>1. /\ 1 \in DOMAIN signals
      /\ \A i \in DOMAIN signals' : i + 1 \in DOMAIN signals /\ signals'[i] = signals[i + 1]
  BY TailFacts DEF LogindOK
<1>2. monitor'.handled /\ monitor'.lock = monitor.lock
  BY DEF Handle, LogindOK
<1>3. /\ monitor.handled => script'["bus"] = <<>>
      /\ ~monitor.handled => script'["bus"] = ScriptOf(kind)
  BY Scripts, RunFacts, DaemonAssumption DEF Handle
<1>4. Heard => machine.kind # "sleep" /\ machine.phase # "awake"
  BY <1>1 DEF SignalsOK, Orderly, Heard
<1>5. Heard => ~Ahead'
  BY <1>1, <1>2, <1>4 DEF SignalsOK, Orderly, Heard, Ahead
<1>6. Heard /\ ~monitor.handled => monitor.lock
  BY <1>1 DEF LockInv, Ahead
<1>7. ReleaseLast'
  BY <1>3, ScriptsReleaseLast DEF ReleaseLast, ReleasesLast
<1>8. Heard' <=> Heard
  BY DEF Heard
<1> QED
  BY <1>2, <1>3, <1>4, <1>5, <1>6, <1>7, <1>8 DEF LockInv

\* An announcement is acted upon with the lock in hand; a wake-up takes a new one.
LEMMA HandlersKeepLock ==
  ASSUME LogindOK, SignalsOK, LockInv,
         \/ OnPrepareForSleep \/ OnWakeUp \/ OnPrepareForShutdown
         \/ OnPrepareForShutdownWithMetadata \/ OnCancelled
  PROVE  LockInv'
<1>1. /\ signals # <<>> /\ signals' = Tail(signals) /\ UNCHANGED <<machine, haste>>
      /\ script["bus"] = <<>>
  BY DEF OnPrepareForSleep, OnWakeUp, OnPrepareForShutdown, OnPrepareForShutdownWithMetadata,
         OnCancelled, Signal, Idle
<1>2. /\ Head(signals) = signals[1] /\ signals[1] \in Announcement /\ 1 \in DOMAIN signals
      /\ \A i \in DOMAIN signals' :
           i + 1 # 1 /\ i + 1 \in DOMAIN signals /\ signals'[i] = signals[i + 1]
      /\ signals' = <<>> => Len(signals) = 1
  BY <1>1, TailFacts DEF LogindOK
<1>3. "bus" \in Threads /\ (Heard' <=> Heard) /\ (Heard => Orderly)
  BY <1>1, DaemonAssumption DEF Heard, Orderly
<1>4. CASE OnPrepareForSleep
  <2>1. /\ signals[1].goingDown /\ signals[1].name = "sleep" /\ Run("bus", SuspendScript)
        /\ UNCHANGED monitor
    BY <1>2, <1>4 DEF OnPrepareForSleep, Signal
  <2>2. script'["bus"] = SuspendScript
    BY <1>3, <2>1, Scripts, RunFacts
  <2>3. Heard => monitor.lock
    BY <1>2, <2>1 DEF LockInv, Ahead
  <2>4. Heard => machine.kind = "sleep" /\ ~Ahead'
    BY <1>2, <1>3, <2>1 DEF SignalsOK, Ahead
  <2>5. Heard /\ machine.phase = "awake" => signals' # <<>>
    BY <1>1, <1>2, <1>3, <2>1 DEF SignalsOK
  <2>6. ReleaseLast'
    BY <2>2, ScriptsReleaseLast DEF ReleaseLast, ReleasesLast
  <2> QED
    BY <1>1, <1>3, <2>1, <2>3, <2>4, <2>5, <2>6 DEF LockInv
<1>5. CASE OnWakeUp
  <2>1. ~signals[1].goingDown /\ monitor' = [lock |-> machine.phase = "awake", handled |-> FALSE]
    BY <1>2, <1>5 DEF OnWakeUp, Signal
  <2>2. script'["bus"] = <<>>
    BY <1>1, <1>3, <1>5, Scripts, RunFacts, ResumeThread DEF OnWakeUp
  <2>3. Heard => monitor'.lock
    BY <1>2, <1>3, <2>1 DEF SignalsOK
  <2> QED
    BY <1>3, <2>2, <2>3 DEF LockInv, ReleaseLast
<1>6. CASE OnPrepareForShutdown
  BY <1>1, <1>2, <1>6, HandleKeepsLock DEF OnPrepareForShutdown, Signal
<1>7. CASE OnPrepareForShutdownWithMetadata
  <2>1. Head(signals).kind \in Kinds
    BY <1>2 DEF Announcement
  <2> QED
    BY <1>1, <1>2, <1>7, <2>1, HandleKeepsLock DEF OnPrepareForShutdownWithMetadata, Signal
<1>8. CASE OnCancelled
  <2>1. /\ ~signals[1].goingDown /\ signals[1].name # "sleep" /\ UNCHANGED <<monitor, script>>
    BY <1>2, <1>8 DEF OnCancelled, Signal
  <2>2. ~Heard
    BY <1>2, <1>3, <2>1 DEF SignalsOK
  <2> QED
    BY <1>3, <2>1, <2>2 DEF LockInv, ReleaseLast
<1> QED
  BY <1>4, <1>5, <1>6, <1>7, <1>8

\* logind asks for the next operation when the monitor has a lock and nothing to hear.
LEMMA RequestKeepsLock ==
  ASSUME LogindOK, LockInv, NEW kind \in Kinds, Request(kind)
  PROVE  LockInv'
<1>1. /\ machine.phase = "awake" /\ UNCHANGED <<monitor, script>>
      /\ machine' = [machine EXCEPT !.phase = "going", !.kind = kind, !.elapsed = 0]
  BY DEF Request
<1>2. machine'.phase = "going" /\ machine'.cancelled = machine.cancelled
  BY <1>1 DEF LogindOK
<1>3. Heard' => monitor.lock /\ signals = <<>> /\ "unheard" \notin haste
  BY DEF Request, Heard
<1>4. Heard' => script["bus"] = <<>>
  BY <1>1, <1>2, <1>3 DEF LockInv, Heard
<1> QED
  BY <1>1, <1>2, <1>3, <1>4 DEF LockInv, ReleaseLast

\* What logind and the machine do by themselves.
LEMMA MachineKeepsLock ==
  ASSUME LogindOK, SignalsOK, LockInv, Proceed \/ Wake \/ GoDown \/ Cancel
  PROVE  LockInv'
<1>1. UNCHANGED <<monitor, script, haste>> /\ ReleaseLast'
  BY DEF Proceed, Wake, GoDown, Cancel, LockInv, ReleaseLast
<1>2. CASE Proceed \/ GoDown
  <2>1. UNCHANGED signals /\ machine'.phase # "awake" /\ machine'.cancelled = machine.cancelled
    <3>1. CASE Proceed
      BY <3>1 DEF Proceed, LogindOK
    <3>2. CASE GoDown
      BY <3>2 DEF GoDown, LogindOK
    <3> QED
      BY <1>2, <3>1, <3>2
  <2> QED
    BY <1>1, <2>1 DEF LockInv, Heard, Ahead
<1>3. CASE Wake
  <2>1. machine'.cancelled = machine.cancelled
    BY <1>3 DEF Wake, LogindOK
  <2>2. signals' # <<>> /\ (Ahead' => Ahead)
    BY <1>1, <1>3, WakeKeepsSignals DEF Ahead
  <2> QED
    BY <1>1, <2>1, <2>2 DEF LockInv, Heard
<1>4. CASE Cancel
  <2>1. machine'.cancelled
    BY <1>4 DEF Cancel, LogindOK
  <2> QED
    BY <1>1, <2>1 DEF LockInv, Heard
<1> QED
  BY <1>2, <1>3, <1>4

\* The lock outlasts the handler.
LEMMA NextLock ==
  ASSUME LogindOK, SignalsOK, LockInv, [Next]_vars
  PROVE  LockInv'
BY MostWork, WorksKeepLock, ReleaseKeepsLock, HandlersKeepLock, RequestKeepsLock,
   MachineKeepsLock DEF Next, System, Monitor, Machine

-----------------------------------------------------------------------------
(* The displays: steps of the threads.                                      *)

\* What a step of a thread, or of a session, may do: a thread that is to light a display
\* asks for it or still is to, and no display is told to go off by one that is not to.
StepOf(t) ==
    /\ EngineTypeOK' /\ ~status'.remote /\ ~topology'.support /\ managed' = managed
    /\ screen' \in [Device -> Asks \cup {"unknown"}]
    /\ \A u \in Threads \ {t} : call'[u] = call[u] /\ script'[u] = script[u]
    /\ call'[t].event \in Brought
    /\ call'[t].at = "process" => call'[t].to = Device
    /\ Darkens(t)' => Darkens(t)
    /\ \A d \in managed :
         Lights(t, d) => Lights(t, d)' \/ (session'[d].asked = "on" /\ Shown(d)' = "on")
    /\ ~Darkens(t) =>
         \A d \in managed : session'[d].asked = "off" => session[d].asked = "off"

\* A step that leaves the engine and the displays alone.
LEMMA StillStep ==
  ASSUME EngineTypeOK, ThreadsOK, NEW t \in Threads, UNCHANGED <<engine, screen>>,
         \A u \in Threads \ {t} : script'[u] = script[u],
         Darkens(t)' => Darkens(t),
         \A d \in managed : Lights(t, d) => Lights(t, d)'
  PROVE  StepOf(t)
<1>1. UNCHANGED <<prefs, status, managed, topology, saved, session, call>>
  BY DEF engine
<1>2. EngineTypeOK'
  BY <1>1 DEF EngineTypeOK
<1> QED
  BY <1>1, <1>2 DEF StepOf, ThreadsOK, Brought

\* A thread that goes on in its script.
LEMMA RestStep ==
  ASSUME LogindOK, NEW t \in Threads, script[t] # <<>>, Rest(t), call'[t] = call[t]
  PROVE  /\ \A u \in Threads \ {t} : script'[u] = script[u]
         /\ Darkens(t)' => Darkens(t)
         /\ Head(script[t]) # "DISPLAYON" => \A d : Lights(t, d) => Lights(t, d)'
<1>1. script[t] \in Seq(Steps)
  BY DEF LogindOK
<1>2. script'[t] = Tail(script[t]) /\ \A u \in Threads \ {t} : script'[u] = script[u]
  BY RestFacts
<1>3. /\ Head(script[t]) = script[t][1]
      /\ \A i \in DOMAIN Tail(script[t]) :
           i + 1 \in DOMAIN script[t] /\ Tail(script[t])[i] = script[t][i + 1]
      /\ \A i \in DOMAIN script[t] :
           i # 1 => i - 1 \in DOMAIN Tail(script[t]) /\ Tail(script[t])[i - 1] = script[t][i]
  BY <1>1, TailFacts
<1>4. Darkens(t)' => Darkens(t)
  <2>1. ASSUME NEW i \in DOMAIN script'[t], script'[t][i] \in Darkening
        PROVE  \E j \in DOMAIN script[t] : script[t][j] \in Darkening
    BY <1>2, <1>3, <2>1
  <2> QED
    BY <2>1 DEF Darkens
<1>5. Head(script[t]) # "DISPLAYON" => \A d : Lights(t, d) => Lights(t, d)'
  <2>1. ASSUME NEW i \in DOMAIN script[t], script[t][i] = "DISPLAYON",
               Head(script[t]) # "DISPLAYON"
        PROVE  \E j \in DOMAIN script'[t] : script'[t][j] = "DISPLAYON"
    BY <1>2, <1>3, <2>1
  <2> QED
    BY <2>1 DEF Lights
<1> QED
  BY <1>2, <1>4, <1>5

\* The kind of a shutdown is noted.
LEMMA TellTypeStep ==
  ASSUME LogindOK, EngineTypeOK, ThreadsOK, NEW t \in Threads, TellType(t)
  PROVE  StepOf(t)
<1>1. /\ script[t] # <<>> /\ Head(script[t]) \in Types /\ Rest(t)
      /\ ShutdownType(t, TypeOf(Head(script[t]))) /\ UNCHANGED screen
  BY DEF TellType, AtStep
<1>2. TypeOf(Head(script[t])) \in ShutdownTypes
  BY DEF TypeOf, ShutdownTypes
<1>3. EngineTypeOK'
  BY <1>1, <1>2, EventTypesKept DEF EventStep
<1>4. /\ UNCHANGED <<prefs, managed, topology, saved, session, call>>
      /\ ~status'.remote
  BY <1>1 DEF ShutdownType, EngineTypeOK, ThreadsOK
<1>5. Head(script[t]) # "DISPLAYON"
  BY <1>1 DEF Types
<1> QED
  BY <1>1, <1>3, <1>4, <1>5, RestStep DEF StepOf, ThreadsOK, Brought

\* An event of the system begins: one that switches displays off had its place in the
\* script, and so has one that lights them.
LEMMA TellEventStep ==
  ASSUME LogindOK, EngineTypeOK, ThreadsOK, NEW t \in Threads, TellEvent(t)
  PROVE  StepOf(t)
<1> DEFINE e == Head(script[t])
<1>1. /\ script[t] # <<>> /\ e \in SystemEvents /\ Rest(t) /\ call[t].at = "idle"
      /\ SystemEvent(t, e) /\ UNCHANGED screen
  BY DEF TellEvent, AtStep
<1>2. EngineTypeOK'
  BY <1>1, EventTypesKept DEF EventStep
<1>3. /\ UNCHANGED <<prefs, status, managed, topology, saved, session>>
      /\ call' = [call EXCEPT ![t] = [at |-> "process", event |-> Translated(e), to |-> Device,
                                      next |-> 1]]
  BY <1>1 DEF SystemEvent, Dispatch, Begun
<1>4. /\ call'[t] = [at |-> "process", event |-> Translated(e), to |-> Device, next |-> 1]
      /\ \A u \in Threads \ {t} : call'[u] = call[u]
  BY <1>3 DEF EngineTypeOK
<1>5. script[t] \in Seq(Steps)
  BY DEF LogindOK
<1>6. script'[t] = Tail(script[t]) /\ \A u \in Threads \ {t} : script'[u] = script[u]
  BY <1>1, RestFacts
<1>7. /\ e = script[t][1] /\ 1 \in DOMAIN script[t]
      /\ \A i \in DOMAIN Tail(script[t]) :
           i + 1 \in DOMAIN script[t] /\ Tail(script[t])[i] = script[t][i + 1]
      /\ \A i \in DOMAIN script[t] :
           i # 1 => i - 1 \in DOMAIN Tail(script[t]) /\ Tail(script[t])[i - 1] = script[t][i]
  BY <1>1, <1>5, TailFacts
<1> HIDE DEF e
<1>8. /\ Translated(e) \in Brought
      /\ Translated(e) \in Darkening => e \in Darkening
      /\ e = "DISPLAYON" => Translated(e) = "DISPLAYON"
  BY <1>1 DEF Translated, Brought, Darkening, SystemEvents
<1>9. Darkens(t)' => Darkens(t)
  BY <1>4, <1>6, <1>7, <1>8 DEF Darkens
<1>10. \A d \in managed : Lights(t, d) => Lights(t, d)'
  <2> SUFFICES ASSUME NEW d \in managed, Lights(t, d) PROVE Lights(t, d)'
    OBVIOUS
  <2>1. PICK i \in DOMAIN script[t] : script[t][i] = "DISPLAYON"
    BY <1>1 DEF Lights
  <2>2. CASE i = 1
    <3>1. d \in Nat /\ 1 <= d
      BY DEF EngineTypeOK, Device
    <3> QED
      BY <1>4, <1>7, <1>8, <2>1, <2>2, <3>1 DEF Lights
  <2>3. CASE i # 1
    BY <1>6, <1>7, <2>1, <2>3 DEF Lights
  <2> QED
    BY <2>2, <2>3
<1> QED
  BY <1>1, <1>2, <1>3, <1>4, <1>6, <1>8, <1>9, <1>10 DEF StepOf, ThreadsOK

\* The raw magic packet asks no session for anything.
LEMMA WakeRawStep ==
  ASSUME LogindOK, EngineTypeOK, ThreadsOK, NEW t \in Threads, WakeRaw(t)
  PROVE  StepOf(t)
<1>1. /\ script[t] # <<>> /\ Head(script[t]) = "wake" /\ Rest(t) /\ UNCHANGED engine
      /\ screen' \in {screen, [d \in Device |-> IF d \in prefs.enabled THEN "on" ELSE screen[d]]}
  BY DEF WakeRaw, AtStep
<1>2. UNCHANGED <<prefs, status, managed, topology, saved, session, call>>
  BY <1>1 DEF engine
<1>3. EngineTypeOK'
  BY <1>2 DEF EngineTypeOK
<1>4. screen' \in [Device -> Asks \cup {"unknown"}]
  BY <1>1 DEF ThreadsOK, Asks
<1> QED
  BY <1>1, <1>2, <1>3, <1>4, RestStep DEF StepOf, ThreadsOK, Brought

\* A display is asked something: "off" by none but an event that darkens, "on" by DISPLAYON,
\* since no streaming client is there and no topology leaves a display out.
LEMMA AskedBy ==
  ASSUME EngineTypeOK, ThreadsOK, NEW t \in Threads, NEW d \in managed
  PROVE  /\ Ask(call[t].event, d) = "off" => call[t].event \in Darkening
         /\ call[t].event = "DISPLAYON" => Ask(call[t].event, d) = "on"
<1>1. call[t].event \in Brought /\ ~status.remote /\ ~topology.support
  BY DEF ThreadsOK
<1>2. SwitchesOff(call[t].event, d) => call[t].event \in Darkening
  BY <1>1 DEF SwitchesOff, Brought, SystemEvents, Darkening
<1>3. call[t].event = "DISPLAYON" =>
        /\ LightsUp(call[t].event, d)
        /\ ~SwitchesOff(call[t].event, d) /\ ~Blanks(call[t].event, d)
  BY <1>1 DEF LightsUp, Included, SwitchesOff, Blanks
<1>4. Ask(call[t].event, d) = "off" => SwitchesOff(call[t].event, d)
  BY DEF Ask
<1>5. call[t].event = "DISPLAYON" => Ask(call[t].event, d) = "on"
  BY <1>3 DEF Ask
<1> QED
  BY <1>2, <1>4, <1>5

\* A step of an event for one display.
LEMMA ProcessStep ==
  ASSUME EngineTypeOK, ThreadsOK, NEW t \in Threads, ProcessEvent(t), UNCHANGED world
  PROVE  StepOf(t)
<1> DEFINE e == call[t].event
<1> DEFINE k == call[t].next
<1>1. /\ call[t].at = "process" /\ call[t].to = Device /\ k \in Device /\ e \in Brought
      /\ UNCHANGED <<prefs, status, managed, topology, saved, screen, script>>
  BY DEF ProcessEvent, ThreadsOK, EngineTypeOK, world
<1>2. EngineTypeOK'
  BY EventTypesKept DEF EventStep
<1>3. /\ \A u \in Threads \ {t} : call'[u] = call[u]
      /\ call'[t].event = e /\ call'[t].to = Device
      /\ k # Displays => call'[t].at = "process" /\ call'[t].next = k + 1
      /\ call'[t].at \in {"process", "post"}
  <2>1. CASE k = Displays
    <3>1. call' = [call EXCEPT ![t].at = "post", ![t].next = k]
      BY <2>1 DEF ProcessEvent
    <3> QED
      BY <1>1, <2>1, <3>1 DEF EngineTypeOK
  <2>2. CASE k # Displays
    <3>1. call' = [call EXCEPT ![t].at = "process", ![t].next = k + 1]
      BY <2>2 DEF ProcessEvent
    <3> QED
      BY <1>1, <2>2, <3>1 DEF EngineTypeOK
  <2> QED
    BY <2>1, <2>2
<1>4. /\ \A d \in Device \ {k} : session'[d] = session[d]
      /\ \/ session'[k] = session[k] /\ Ask(e, k) = "none"
         \/ session'[k].pending /\ session'[k].asked = Ask(e, k)
  BY <1>1 DEF ProcessEvent, EngineTypeOK
<1>5. k \in managed => /\ Ask(e, k) = "off" => e \in Darkening
                       /\ e = "DISPLAYON" => Ask(e, k) = "on"
  BY AskedBy
<1>6. managed \subseteq Device /\ Device \subseteq Nat /\ \A d \in Device : d <= Displays
  BY CompanionAssumption DEF EngineTypeOK, Device
<1>7. Darkens(t)' => Darkens(t)
  BY <1>1, <1>3 DEF Darkens
<1> HIDE DEF e, k
<1>8. ASSUME NEW d \in managed, Lights(t, d)
      PROVE  Lights(t, d)' \/ (session'[d].asked = "on" /\ Shown(d)' = "on")
  <2>1. CASE \E i \in DOMAIN script[t] : script[t][i] = "DISPLAYON"
    BY <1>1, <2>1 DEF Lights
  <2>2. CASE e = "DISPLAYON" /\ k <= d /\ k # d
    <3>1. k # Displays /\ k + 1 <= d
      BY <1>1, <1>6, <2>2
    <3> QED
      BY <1>3, <2>2, <3>1 DEF Lights
  <2>3. CASE e = "DISPLAYON" /\ k = d
    BY <1>4, <1>5, <2>3 DEF Shown
  <2> QED
    BY <1>8, <2>1, <2>2, <2>3 DEF Lights, e, k
<1>9. ASSUME NEW d \in managed, ~Darkens(t)
      PROVE  session'[d].asked = "off" => session[d].asked = "off"
  <2>1. e \notin Darkening
    BY <1>1, <1>9 DEF Darkens, e
  <2> QED
    BY <1>1, <1>4, <1>5, <1>6, <2>1
<1>10. screen' \in [Device -> Asks \cup {"unknown"}] /\ ~status'.remote /\ ~topology'.support
  BY <1>1 DEF ThreadsOK
<1> QED
  BY <1>1, <1>2, <1>3, <1>7, <1>8, <1>9, <1>10 DEF StepOf

\* What follows for all displays, and the wait of a suspend.
LEMMA PostStep ==
  ASSUME EngineTypeOK, ThreadsOK, NEW t \in Threads,
         PostProcess(t) \/ \E timeUp \in BOOLEAN : EndSettle(t, timeUp),
         UNCHANGED <<script, screen>>
  PROVE  StepOf(t)
<1>1. EngineTypeOK'
  BY EventTypesKept DEF EventStep
<1>2. /\ UNCHANGED <<prefs, managed, topology, saved, session>>
      /\ call[t].at \in {"post", "settle"}
  BY DEF PostProcess, EndSettle
<1>3. ~status'.remote
  <2>1. call[t].event \in Brought /\ ~status.remote
    BY DEF ThreadsOK
  <2>2. ~Posted(status, call[t].event).remote
    BY <2>1 DEF Posted, Brought, SystemEvents, EngineTypeOK
  <2> QED
    BY <2>1, <2>2 DEF PostProcess, EndSettle
<1>4. /\ \A u \in Threads \ {t} : call'[u] = call[u]
      /\ call'[t].event \in Brought /\ call'[t].at # "process"
  <2>1. CASE call' = [call EXCEPT ![t].at = "settle"]
    <3>1. call'[t].event = call[t].event /\ call'[t].at = "settle"
      BY <2>1 DEF EngineTypeOK
    <3> QED
      BY <2>1, <3>1 DEF ThreadsOK, EngineTypeOK
  <2>2. CASE call' = [call EXCEPT ![t] = NoCall]
    BY <2>2 DEF EngineTypeOK, NoCall, Brought, SystemEvents
  <2> QED
    BY <2>1, <2>2 DEF PostProcess, EndSettle
<1> QED
  BY <1>1, <1>2, <1>3, <1>4 DEF StepOf, ThreadsOK, Darkens, Lights

\* The user is reported busy or idle.
LEMMA ReportStep ==
  ASSUME EngineTypeOK, ThreadsOK, Report
  PROVE  StepOf("socket")
<1>1. "socket" \in Threads
  BY DaemonAssumption
<1>2. PICK e \in {"USERIDLE", "USERBUSY"} : UserReport("socket", e)
  BY DEF Report
<1>3. EngineTypeOK'
  BY <1>1, <1>2, EventTypesKept DEF EventStep
<1>4. /\ call["socket"].at = "idle" /\ UNCHANGED <<script, screen>>
      /\ UNCHANGED <<prefs, status, managed, topology, saved, session>>
      /\ call' = [call EXCEPT !["socket"] = [at |-> "process", event |-> e, to |-> Device,
                                             next |-> 1]]
  BY <1>2 DEF Report, UserReport, Dispatch, Begun
<1>5. /\ call'["socket"] = [at |-> "process", event |-> e, to |-> Device, next |-> 1]
      /\ \A u \in Threads \ {"socket"} : call'[u] = call[u]
  BY <1>1, <1>4 DEF EngineTypeOK
<1>6. e \in Brought /\ e \notin Darkening
  BY DEF Brought, Darkening
<1> QED
  BY <1>3, <1>4, <1>5, <1>6 DEF StepOf, ThreadsOK, Darkens, Lights

\* A session ends: the display shows what it was asked for, or the session gives up.
LEMMA EndFacts ==
  ASSUME EngineTypeOK, ThreadsOK, NEW d \in Device, Acknowledge(d) \/ GivesUp(d)
  PROVE  /\ session[d].pending /\ session' = [session EXCEPT ![d].pending = FALSE]
         /\ UNCHANGED <<prefs, status, managed, topology, saved, call>>
         /\ UNCHANGED <<machine, signals, monitor, script, waited, user, haste, left>>
         /\ \A c \in Device \ {d} : session'[c] = session[c] /\ screen'[c] = screen[c]
         /\ ~session'[d].pending /\ session'[d].asked = session[d].asked
         /\ screen'[d] \in {session[d].asked, "unknown"}
         /\ screen' \in [Device -> Asks \cup {"unknown"}]
         /\ \A c \in Device : Shown(c)' = Shown(c)
<1>1. /\ session[d].pending /\ session' = [session EXCEPT ![d].pending = FALSE]
      /\ UNCHANGED <<prefs, status, managed, topology, saved, call>>
      /\ UNCHANGED <<machine, signals, monitor, script, waited, user, haste, left>>
  BY DEF Acknowledge, GivesUp, SessionEnds
<1>2. PICK shown \in {session[d].asked, "unknown"} : screen' = [screen EXCEPT ![d] = shown]
  BY DEF Acknowledge, GivesUp
<1>3. shown \in Asks \cup {"unknown"} /\ screen \in [Device -> Asks \cup {"unknown"}]
  BY DEF ThreadsOK, EngineTypeOK
<1>4. /\ \A c \in Device \ {d} : session'[c] = session[c] /\ screen'[c] = screen[c]
      /\ ~session'[d].pending /\ session'[d].asked = session[d].asked
      /\ screen'[d] = shown /\ screen' \in [Device -> Asks \cup {"unknown"}]
  BY <1>1, <1>2, <1>3 DEF EngineTypeOK
<1>5. \A c \in Device : Shown(c)' = Shown(c)
  BY <1>1, <1>4 DEF Shown
<1> QED
  BY <1>1, <1>4, <1>5

\* The end of a session asks for nothing.
LEMMA EndStep ==
  ASSUME EngineTypeOK, ThreadsOK, NEW d \in Device, Acknowledge(d) \/ GivesUp(d),
         NEW t \in Threads
  PROVE  StepOf(t)
<1>1. /\ session' = [session EXCEPT ![d].pending = FALSE]
      /\ UNCHANGED <<prefs, status, managed, topology, saved, call, script>>
      /\ screen' \in [Device -> Asks \cup {"unknown"}]
  BY EndFacts
<1>2. EngineTypeOK'
  BY <1>1 DEF EngineTypeOK
<1>3. \A c \in managed : session'[c].asked = session[c].asked
  BY <1>1 DEF EngineTypeOK
<1> QED
  BY <1>1, <1>2, <1>3 DEF StepOf, ThreadsOK, Darkens, Lights

-----------------------------------------------------------------------------
(* The displays: logind and the monitor.                                     *)

\* What logind has announced is the same.
Announces ==
    /\ UNCHANGED <<signals, haste>> /\ monitor'.handled = monitor.handled
    /\ machine'.phase = machine.phase /\ machine'.kind = machine.kind
    /\ machine'.cancelled = machine.cancelled

\* A step of a thread or of a display keeps them lit.
LEMMA StepKeepsDisplays ==
  ASSUME DisplayInv, NEW t \in Threads, StepOf(t), Announces
  PROVE  DisplayInv'
<1>1. \A u \in Threads \ {t} : /\ Darkens(u)' <=> Darkens(u)
                               /\ \A d : Lights(u, d)' <=> Lights(u, d)
  BY DEF StepOf, Darkens, Lights
<1>2. (Calm' <=> Calm) /\ (Day' <=> Day) /\ (Rebooting' <=> Rebooting)
  BY DEF Announces, Calm, Undisturbed, Day, Rebooting
<1>3. Calm /\ (Day \/ Rebooting) => ~Darkens(t)
  BY DEF DisplayInv, ThreadsOK
<1>4. EngineTypeOK' /\ ThreadsOK'
  BY <1>1 DEF DisplayInv, ThreadsOK, StepOf
<1>5. Darkens("bus")' => Darkens("bus")
  BY <1>1, DaemonAssumption DEF StepOf
<1>6. ASSUME Calm, Day, NEW d \in managed
      PROVE  session'[d].asked # "off" \/ \E u \in Threads : Lights(u, d)'
  <2>1. session[d].asked # "off" \/ \E u \in Threads : Lights(u, d)
    BY <1>6 DEF DisplayInv
  <2>2. CASE session[d].asked # "off"
    BY <1>3, <1>6, <2>2 DEF StepOf
  <2>3. CASE Lights(t, d)
    BY <2>3 DEF StepOf
  <2>4. ASSUME NEW u \in Threads \ {t}, Lights(u, d)
        PROVE  \E v \in Threads : Lights(v, d)'
    BY <1>1, <2>4
  <2> QED
    BY <2>1, <2>2, <2>3, <2>4
<1>7. ASSUME Calm, Rebooting, NEW d \in managed
      PROVE  session'[d].asked # "off"
  BY <1>3, <1>7 DEF StepOf, DisplayInv
<1>8. managed' = managed
  BY DEF StepOf
<1>9. Calm' /\ Rebooting' /\ signals' # <<>> => signals'[1].name = "metadata" \/ monitor'.handled
  BY <1>2 DEF DisplayInv, Announces
<1> QED
  BY <1>2, <1>4, <1>5, <1>6, <1>7, <1>8, <1>9 DEF DisplayInv

\* All steps of the threads, of the displays, of the user and of the clock are such steps.
LEMMA WorksKeepDisplays ==
  ASSUME LogindOK, DisplayInv,
         \/ \E t \in Threads : ScriptStep(t)
         \/ Settle \/ Drain \/ ReleaseInhibitor \/ \E d \in Device : Acknowledge(d) \/ GivesUp(d)
         \/ Tick \/ Report \/ UNCHANGED vars
  PROVE  DisplayInv'
<1>1. EngineTypeOK /\ ThreadsOK /\ "bus" \in Threads /\ "socket" \in Threads
  BY DaemonAssumption DEF DisplayInv
<1>2. ASSUME NEW t \in Threads, TellType(t) \/ TellEvent(t) \/ WakeRaw(t) PROVE DisplayInv'
  <2>1. Announces
    BY <1>2 DEF TellType, TellEvent, WakeRaw, Announces
  <2> QED
    BY <1>1, <1>2, <2>1, TellTypeStep, TellEventStep, WakeRawStep, StepKeepsDisplays
<1>3. ASSUME NEW t \in Threads, script[t] # <<>>, Head(script[t]) # "DISPLAYON", Rest(t),
             UNCHANGED <<engine, screen>>, Announces
      PROVE  DisplayInv'
  <2>1. call' = call
    BY <1>3 DEF engine
  <2> QED
    BY <1>1, <1>3, <2>1, RestStep, StillStep, StepKeepsDisplays
<1>4. ASSUME NEW t \in Threads, Skip(t) PROVE DisplayInv'
  BY <1>3, <1>4 DEF Skip, AtStep, Announces
<1>5. ASSUME NEW t \in Threads, Process(t) PROVE DisplayInv'
  <2>1. Announces /\ UNCHANGED <<script, screen>>
    BY <1>5 DEF Process, world, Announces
  <2> QED
    BY <1>1, <1>5, <2>1, ProcessStep, PostStep, StepKeepsDisplays DEF Process
<1>6. CASE Drain
  BY <1>1, <1>3, <1>6 DEF Drain, AtStep, Announces
<1>7. CASE ReleaseInhibitor
  <2>1. monitor'.handled = monitor.handled
    BY <1>7 DEF ReleaseInhibitor, LogindOK
  <2> QED
    BY <1>1, <1>3, <1>7, <2>1 DEF ReleaseInhibitor, AtStep, Announces
<1>8. CASE Settle
  <2>1. Announces /\ UNCHANGED <<script, screen>> /\ EndSettle("bus", waited >= SuspendWait)
    BY <1>8 DEF Settle, Announces
  <2>2. EndSettle("bus", TRUE)
    BY <2>1 DEF EndSettle
  <2> QED
    BY <1>1, <2>1, <2>2, PostStep, StepKeepsDisplays
<1>9. ASSUME NEW d \in Device, Acknowledge(d) \/ GivesUp(d) PROVE DisplayInv'
  <2>1. Announces
    BY <1>1, <1>9, EndFacts DEF Announces
  <2> QED
    BY <1>1, <1>9, <2>1, EndStep, StepKeepsDisplays
<1>10. CASE Report
  <2>1. Announces
    BY <1>10 DEF Report, Announces
  <2> QED
    BY <1>1, <1>10, <2>1, ReportStep, StepKeepsDisplays
<1>11. CASE Tick \/ UNCHANGED vars
  <2>1. UNCHANGED <<engine, screen, script>>
    BY <1>11 DEF Tick, vars, world
  <2>2. Announces
    BY <1>11 DEF Tick, vars, world, Announces, LogindOK
  <2>3. (Darkens("bus")' <=> Darkens("bus")) /\ \A d : Lights("bus", d)' <=> Lights("bus", d)
    BY <2>1 DEF engine, Darkens, Lights
  <2> QED
    BY <1>1, <2>1, <2>2, <2>3, StillStep, StepKeepsDisplays
<1> QED
  BY <1>2, <1>4, <1>5, <1>6, <1>7, <1>8, <1>9, <1>10, <1>11 DEF ScriptStep

\* What a handler of the monitor must leave behind.
LEMMA HandlerStep ==
  ASSUME DisplayInv, UNCHANGED <<engine, screen, machine, haste>>,
         \A t \in Threads \ {"bus"} : ~Darkens(t)',
         Calm /\ (Day' \/ Rebooting) => ~Darkens("bus")',
         Calm /\ Day' => \A d \in managed : \E t \in Threads : Lights(t, d)',
         Calm /\ Rebooting => monitor'.handled
  PROVE  DisplayInv'
<1>1. UNCHANGED <<prefs, status, managed, topology, saved, session, call>>
  BY DEF engine
<1>2. EngineTypeOK'
  BY <1>1 DEF DisplayInv, EngineTypeOK
<1>3. ThreadsOK'
  BY <1>1 DEF DisplayInv, ThreadsOK
<1>4. (Calm' <=> Calm) /\ (Rebooting' <=> Rebooting)
  BY DEF Calm, Undisturbed, Rebooting
<1>5. Calm' /\ Rebooting' => \A d \in managed' : session'[d].asked # "off"
  BY <1>1, <1>4 DEF DisplayInv
<1> QED
  BY <1>1, <1>2, <1>3, <1>4, <1>5 DEF DisplayInv

\* The handlers of the monitor: only a sleep or a power-off darkens, and a wake-up lights.
LEMMA HandlersKeepDisplays ==
  ASSUME LogindOK, SignalsOK, DisplayInv,
         \/ OnPrepareForSleep \/ OnWakeUp \/ OnPrepareForShutdown
         \/ OnPrepareForShutdownWithMetadata \/ OnCancelled
  PROVE  DisplayInv'
<1>1. /\ signals # <<>> /\ signals' = Tail(signals) /\ UNCHANGED <<machine, haste>>
      /\ UNCHANGED <<engine, screen>> /\ call["bus"].at = "idle" /\ script["bus"] = <<>>
  BY DEF OnPrepareForSleep, OnWakeUp, OnPrepareForShutdown, OnPrepareForShutdownWithMetadata,
         OnCancelled, Signal, Idle
<1>2. /\ Head(signals) = signals[1] /\ signals[1] \in Announcement /\ 1 \in DOMAIN signals
      /\ signals' = <<>> => Len(signals) = 1
  BY <1>1, TailFacts DEF LogindOK
<1>3. /\ "bus" \in Threads /\ (Calm => Orderly) /\ UNCHANGED call
      /\ machine.phase' = machine.phase /\ machine.kind' = machine.kind
  BY <1>1, DaemonAssumption DEF Calm, Undisturbed, Orderly, engine
<1>4. \A t \in Threads \ {"bus"} : ~Darkens(t)
  BY DEF DisplayInv, ThreadsOK
<1>5. ASSUME NEW t \in Threads, script'[t] = script[t] PROVE Darkens(t)' <=> Darkens(t)
  BY <1>3, <1>5 DEF Darkens
<1>6. ASSUME NEW kind \in Kinds \cup {"unsure"}, Handle(kind), Calm => ~Day',
             Calm /\ Rebooting => kind = "reboot" \/ monitor.handled
      PROVE  DisplayInv'
  <2>1. monitor'.handled
    BY <1>6 DEF Handle, LogindOK
  <2>2. \A t \in Threads \ {"bus"} : script'[t] = script[t]
    BY <1>3, <1>6, Scripts, RunFacts DEF Handle
  <2>3. /\ monitor.handled => script'["bus"] = <<>>
        /\ ~monitor.handled => script'["bus"] = ScriptOf(kind)
    BY <1>1, <1>3, <1>6, Scripts, RunFacts DEF Handle
  <2>4. ASSUME Calm, Rebooting PROVE ~Darkens("bus")'
    <3>1. CASE monitor.handled
      BY <1>1, <1>3, <2>3, <3>1 DEF Darkens
    <3>2. CASE ~monitor.handled
      <4>1. script'["bus"] = RebootScript
        BY <1>6, <2>3, <2>4, <3>2 DEF ScriptOf
      <4>2. \A i \in DOMAIN RebootScript : RebootScript[i] \notin Darkening
        BY DEF RebootScript, Darkening
      <4> QED
        BY <1>1, <1>3, <4>1, <4>2 DEF Darkens
    <3> QED
      BY <3>1, <3>2
  <2> QED
    BY <1>1, <1>4, <1>5, <1>6, <2>1, <2>2, <2>4, HandlerStep
<1>7. CASE OnPrepareForSleep
  <2>1. /\ signals[1].goingDown /\ signals[1].name = "sleep" /\ Run("bus", SuspendScript)
    BY <1>2, <1>7 DEF OnPrepareForSleep, Signal
  <2>2. \A t \in Threads \ {"bus"} : script'[t] = script[t]
    BY <1>3, <2>1, Scripts, RunFacts
  <2>3. Calm => ~Rebooting
    BY <1>2, <1>3, <2>1 DEF SignalsOK, Rebooting
  <2>4. Calm => ~Day'
    BY <1>1, <1>2, <1>3, <2>1 DEF SignalsOK, Day
  <2> QED
    BY <1>1, <1>4, <1>5, <2>2, <2>3, <2>4, HandlerStep
<1>8. CASE OnWakeUp
  <2>1. ~signals[1].goingDown /\ signals[1].name = "sleep"
    BY <1>2, <1>8 DEF OnWakeUp, Signal
  <2>2. PICK r \in Threads \ {"bus", "main", "socket"} : Run(r, ResumeScript) /\ Idle(r)
    BY <1>8, ResumeThread DEF OnWakeUp
  <2>3. script'[r] = ResumeScript /\ \A t \in Threads \ {r} : script'[t] = script[t]
    BY <2>2, Scripts, RunFacts
  <2>4. /\ \A i \in DOMAIN ResumeScript : ResumeScript[i] \notin Darkening
        /\ 5 \in DOMAIN ResumeScript /\ ResumeScript[5] = "DISPLAYON"
    BY DEF ResumeScript, Darkening
  <2>5. ~Darkens(r)'
    BY <1>3, <2>2, <2>3, <2>4 DEF Darkens, Idle
  <2>6. \A d : Lights(r, d)'
    BY <2>3, <2>4 DEF Lights
  <2>7. Calm => ~Rebooting
    BY <1>2, <1>3, <2>1 DEF SignalsOK, Rebooting
  <2>8. ~Darkens("bus")'
    BY <1>1, <1>3, <2>2, <2>3 DEF Darkens
  <2>9. \A t \in Threads \ {"bus"} : ~Darkens(t)'
    BY <1>4, <1>5, <2>3, <2>5
  <2> QED
    BY <1>1, <2>2, <2>6, <2>7, <2>8, <2>9, HandlerStep
<1>9. CASE OnPrepareForShutdown
  <2>1. signals[1].goingDown /\ signals[1].name = "shutdown" /\ Handle("unsure")
    BY <1>2, <1>9 DEF OnPrepareForShutdown, Signal
  <2>2. Calm => ~Day'
    BY <1>1, <1>2, <1>3, <2>1 DEF SignalsOK, Day
  <2>3. Calm /\ Rebooting => monitor.handled
    BY <1>1, <2>1 DEF DisplayInv
  <2> QED
    BY <1>6, <2>1, <2>2, <2>3
<1>10. CASE OnPrepareForShutdownWithMetadata
  <2>1. /\ signals[1].goingDown /\ signals[1].name = "metadata" /\ Handle(signals[1].kind)
        /\ signals[1].kind \in Kinds
    BY <1>2, <1>10 DEF OnPrepareForShutdownWithMetadata, Signal, Announcement
  <2>2. Calm => ~Day'
    BY <1>1, <1>2, <1>3, <2>1 DEF SignalsOK, Day
  <2>3. Calm /\ Rebooting => signals[1].kind = "reboot"
    BY <1>2, <1>3, <2>1 DEF SignalsOK, Rebooting
  <2> QED
    BY <1>6, <2>1, <2>2, <2>3
<1>11. CASE OnCancelled
  <2>1. ~signals[1].goingDown /\ signals[1].name # "sleep" /\ UNCHANGED <<monitor, script>>
    BY <1>2, <1>11 DEF OnCancelled, Signal
  <2>2. ~Calm
    BY <1>2, <1>3, <2>1 DEF SignalsOK
  <2> QED
    BY <1>1, <1>4, <1>5, <2>1, <2>2, HandlerStep
<1> QED
  BY <1>7, <1>8, <1>9, <1>10, <1>11

\* A request of a daemon at rest finds the displays lit.
LEMMA RequestKeepsDisplays ==
  ASSUME LogindOK, DisplayInv, NEW kind \in Kinds, Request(kind)
  PROVE  DisplayInv'
<1>1. /\ machine.phase = "awake" /\ UNCHANGED <<engine, monitor, script, screen>>
      /\ machine' = [machine EXCEPT !.phase = "going", !.kind = kind, !.elapsed = 0]
      /\ signals' = signals \o Announced(kind, TRUE)
  BY DEF Request
<1>2. machine'.phase = "going" /\ machine'.kind = kind /\ machine'.cancelled = machine.cancelled
  BY <1>1 DEF LogindOK
<1>3. UNCHANGED <<prefs, status, managed, topology, saved, session, call>>
  BY <1>1 DEF engine
<1>4. EngineTypeOK' /\ ThreadsOK'
  BY <1>1, <1>3 DEF DisplayInv, EngineTypeOK, ThreadsOK, Darkens
<1>5. Calm' => Calm /\ AtRest
  BY <1>2 DEF Request, Calm, Undisturbed
<1>6. AtRest => signals = <<>> /\ \A t \in Threads : call[t].at = "idle" /\ script[t] = <<>>
  BY DEF AtRest, Idle
<1>7. ~Day'
  BY <1>2 DEF Day
<1>8. Calm' => ~Darkens("bus")'
  BY <1>1, <1>3, <1>5, <1>6, DaemonAssumption DEF Darkens
<1>9. ASSUME Calm', Rebooting' PROVE signals'[1].name = "metadata"
  <2>1. kind = "reboot" /\ Metadata /\ signals = <<>>
    BY <1>2, <1>5, <1>6, <1>9 DEF Rebooting, Calm
  <2>2. PICK a : a = Announced(kind, TRUE)
    OBVIOUS
  <2>3. a \in Seq(Announcement) /\ a[1].name = "metadata"
    <3>1. TRUE \in BOOLEAN /\ kind \in Kinds /\ kind # "sleep" /\ Metadata
      BY <2>1
    <3> QED
      BY ONLY <2>2, <3>1, AnnouncedFirst
  <2>4. signals' = a
    BY <1>1, <2>1, <2>2, <2>3, ConcatEmptySeq
  <2> QED
    BY <2>1, <2>3, <2>4
<1>10. ASSUME Calm', NEW d \in managed PROVE session[d].asked # "off"
  <2>1. \A t \in Threads : ~Lights(t, d)
    BY <1>5, <1>6, <1>10 DEF Lights
  <2> QED
    BY <1>1, <1>5, <1>6, <1>10, <2>1 DEF DisplayInv, Day
<1> QED
  BY <1>1, <1>3, <1>4, <1>7, <1>8, <1>9, <1>10 DEF DisplayInv

\* What logind and the machine do by themselves.
LEMMA MachineKeepsDisplays ==
  ASSUME LogindOK, SignalsOK, DisplayInv, Proceed \/ Wake \/ GoDown \/ Cancel
  PROVE  DisplayInv'
<1>1. UNCHANGED <<engine, monitor, script, screen, haste>>
  BY DEF Proceed, Wake, GoDown, Cancel
<1>2. UNCHANGED <<prefs, status, managed, topology, saved, session, call>>
  BY <1>1 DEF engine
<1>3. /\ EngineTypeOK' /\ ThreadsOK' /\ (Darkens("bus")' <=> Darkens("bus"))
  BY <1>1, <1>2 DEF DisplayInv, EngineTypeOK, ThreadsOK, Darkens
<1>4. CASE Proceed \/ GoDown
  <2>1. /\ machine.phase \in {"going", "stopping"} /\ machine'.phase # "awake"
        /\ machine'.kind = machine.kind /\ machine'.cancelled = machine.cancelled
        /\ UNCHANGED signals
    <3>1. CASE Proceed
      BY <3>1 DEF Proceed, LogindOK
    <3>2. CASE GoDown
      BY <3>2 DEF GoDown, LogindOK
    <3> QED
      BY <1>4, <3>1, <3>2
  <2>2. (Calm' <=> Calm) /\ (Rebooting' <=> Rebooting) /\ ~Day'
    BY <1>1, <2>1 DEF Calm, Undisturbed, Rebooting, Day
  <2> QED
    BY <1>1, <1>2, <1>3, <2>1, <2>2 DEF DisplayInv
<1>5. CASE Wake
  <2>1. machine'.phase = "awake"
    BY <1>5 DEF Wake, LogindOK
  <2>2. signals' # <<>>
    BY <1>5, WakeKeepsSignals, EmptySeq DEF LogindOK
  <2>3. ~Day' /\ ~Rebooting'
    BY <2>1, <2>2 DEF Day, Rebooting
  <2> QED
    BY <1>1, <1>3, <2>3 DEF DisplayInv
<1>6. CASE Cancel
  <2>1. machine'.cancelled = TRUE
    BY <1>6 DEF Cancel, LogindOK
  <2>2. ~Calm'
    BY <2>1 DEF Calm, Undisturbed
  <2> QED
    BY <1>3, <2>2 DEF DisplayInv
<1> QED
  BY <1>4, <1>5, <1>6

\* The displays stay as the machine wants them.
LEMMA NextDisplays ==
  ASSUME LogindOK, SignalsOK, DisplayInv, [Next]_vars
  PROVE  DisplayInv'
BY WorksKeepDisplays, HandlersKeepDisplays, RequestKeepsDisplays, MachineKeepsDisplays
   DEF Next, System, Monitor, Machine

-----------------------------------------------------------------------------
(* A machine that is awake: what the user sees.                             *)

\* The socket brings what the user was reported to do last, and nobody else does.
ReportsOK ==
    /\ user \in {"busy", "idle"}
    /\ \A t \in Threads :
         call[t].at = "process" /\ call[t].event \in {"USERIDLE", "USERBUSY"}
           => t = "socket" /\ user = IF call[t].event = "USERIDLE" THEN "idle" ELSE "busy"

\* On the bus of a machine that is awake the last word is that it woke up.
WakesLast ==
    ~machine.cancelled =>
      /\ \A i \in DOMAIN signals : ~signals[i].goingDown => signals[i].name = "sleep"
      /\ machine.phase = "awake" /\ signals # <<>> => ~signals[Len(signals)].goingDown

\* The socket has yet to light the display for a user who is back.
Answers(d) ==
    call["socket"].at = "process" /\ call["socket"].event = "USERBUSY" /\ call["socket"].next <= d

\* The display is on, or blank for an idle user.
Bright(d) ==
    \/ Shown(d) = "on"
    \/ Shown(d) = "blank" /\ prefs.userIdle /\ (user = "idle" \/ Answers(d))

LitInv ==
    Undisturbed /\ Day =>
      /\ ~Darkens("bus")
      /\ \A d \in managed : Bright(d) \/ \E t \in Threads : Lights(t, d)

AwakeInv == ReportsOK /\ WakesLast /\ LitInv

\* The last announcement is the last one also when one was taken.
LEMMA TakenKeepsWake ==
  ASSUME LogindOK, WakesLast, signals # <<>>, signals' = Tail(signals),
         UNCHANGED machine
  PROVE  WakesLast'
<1>1. /\ signals' \in Seq(Announcement) /\ Len(signals') = Len(signals) - 1
      /\ \A i \in DOMAIN signals' : i + 1 \in DOMAIN signals /\ signals'[i] = signals[i + 1]
  BY TailFacts DEF LogindOK
<1>2. signals' # <<>> => signals'[Len(signals')] = signals[Len(signals)]
  BY <1>1 DEF LogindOK
<1> QED
  BY <1>1, <1>2 DEF WakesLast

\* What logind announces keeps the wake-up the last word.
LEMMA NextWake ==
  ASSUME LogindOK, SignalsOK, WakesLast, [Next]_vars
  PROVE  WakesLast'
<1>1. CASE \/ \E t \in Threads : ScriptStep(t)
           \/ Settle \/ Drain \/ \E d \in Device : Acknowledge(d) \/ GivesUp(d)
           \/ Tick \/ Report \/ UNCHANGED vars
  <2>1. /\ UNCHANGED signals /\ machine'.phase = machine.phase
        /\ machine'.cancelled = machine.cancelled
    BY <1>1, MostWork DEF Works
  <2> QED
    BY <2>1 DEF WakesLast
<1>2. CASE ReleaseInhibitor
  BY <1>2 DEF ReleaseInhibitor, WakesLast
<1>3. CASE \/ OnPrepareForSleep \/ OnWakeUp \/ OnPrepareForShutdown
           \/ OnPrepareForShutdownWithMetadata \/ OnCancelled
  <2>1. signals # <<>> /\ signals' = Tail(signals) /\ UNCHANGED machine
    BY <1>3 DEF OnPrepareForSleep, OnWakeUp, OnPrepareForShutdown,
                OnPrepareForShutdownWithMetadata, OnCancelled, Signal
  <2> QED
    BY <2>1, TakenKeepsWake
<1>4. ASSUME NEW kind \in Kinds, Request(kind) PROVE WakesLast'
  <2>1. /\ machine'.phase = "going" /\ machine'.cancelled = machine.cancelled
        /\ signals' = signals \o Announced(kind, TRUE)
    BY <1>4 DEF Request, LogindOK
  <2>2. PICK a : a = Announced(kind, TRUE)
    OBVIOUS
  <2>3. a \in Seq(Announcement) /\ \A i \in DOMAIN a : a[i].goingDown
    BY <2>2, AnnouncedFacts
  <2>4. signals' = signals \o a /\ signals \in Seq(Announcement)
    BY <2>1, <2>2 DEF LogindOK
  <2>5. \A i \in DOMAIN signals' : \/ i \in DOMAIN signals /\ signals'[i] = signals[i]
                                   \/ signals'[i].goingDown
    BY ONLY <2>3, <2>4, ConcatProperties
  <2> QED
    BY <2>1, <2>5 DEF WakesLast
<1>5. CASE Wake
  <2>1. machine'.cancelled = machine.cancelled /\ signals' \in Seq(Announcement)
    BY <1>5, WakeKeepsSignals DEF Wake, LogindOK
  <2>2. /\ \A i \in DOMAIN signals' : \/ i \in DOMAIN signals /\ signals'[i] = signals[i]
                                      \/ ~signals'[i].goingDown /\ signals'[i].name = "sleep"
        /\ ~signals'[Len(signals')].goingDown
    <3>1. Len(signals) + 1 \in DOMAIN signals' /\ Len(signals) + 1 \notin DOMAIN signals
      BY <1>5, <2>1, WakeKeepsSignals
    <3> QED
      BY <1>5, <3>1, WakeKeepsSignals
  <2> QED
    BY <2>1, <2>2 DEF WakesLast
<1>6. CASE Proceed
  BY <1>6 DEF Proceed, WakesLast, LogindOK
<1>7. CASE GoDown
  BY <1>7 DEF GoDown, WakesLast, LogindOK
<1>8. CASE Cancel
  BY <1>8 DEF Cancel, WakesLast, LogindOK
<1> QED
  BY <1>1, <1>2, <1>3, <1>4, <1>5, <1>6, <1>7, <1>8 DEF Next, System, Monitor, Machine

\* A step that keeps a display bright that it does not switch off.
BrightStep(t) ==
    /\ ReportsOK'
    /\ ~Darkens(t) => \A d \in managed : Bright(d) => Bright(d)'

\* A step that leaves the displays and the events alone.
LEMMA StillBright ==
  ASSUME ReportsOK, NEW t, UNCHANGED <<prefs, session, call, screen, user>>
  PROVE  BrightStep(t)
BY DEF BrightStep, ReportsOK, Bright, Shown, Answers

\* An event of a script is none of the user.
LEMMA TellEventBright ==
  ASSUME EngineTypeOK, ReportsOK, NEW t \in Threads, TellEvent(t)
  PROVE  BrightStep(t)
<1> DEFINE e == Head(script[t])
<1>1. /\ e \in SystemEvents /\ call[t].at = "idle" /\ UNCHANGED <<screen, user>>
      /\ SystemEvent(t, e)
  BY DEF TellEvent, AtStep
<1>2. /\ UNCHANGED <<prefs, session>>
      /\ call' = [call EXCEPT ![t] = [at |-> "process", event |-> Translated(e), to |-> Device,
                                      next |-> 1]]
  BY <1>1 DEF SystemEvent, Dispatch, Begun
<1>3. call'[t].event = Translated(e) /\ \A u \in Threads \ {t} : call'[u] = call[u]
  BY <1>2 DEF EngineTypeOK
<1> HIDE DEF e
<1>4. Translated(e) \notin {"USERIDLE", "USERBUSY"}
  BY <1>1 DEF Translated, SystemEvents
<1>5. ReportsOK'
  BY <1>1, <1>3, <1>4 DEF ReportsOK
<1>6. \A d : Answers(d) => Answers(d)'
  BY <1>1, <1>3, DaemonAssumption DEF Answers
<1> QED
  BY <1>1, <1>2, <1>5, <1>6 DEF BrightStep, Bright, Shown

\* A magic packet lights displays.
LEMMA WakeRawBright ==
  ASSUME EngineTypeOK, ThreadsOK, ReportsOK, NEW t \in Threads, WakeRaw(t)
  PROVE  BrightStep(t)
<1>1. /\ UNCHANGED engine /\ user' = user
      /\ screen' \in {screen, [d \in Device |-> IF d \in prefs.enabled THEN "on" ELSE screen[d]]}
  BY DEF WakeRaw
<1>2. UNCHANGED <<prefs, session, call>> /\ managed \subseteq Device
  BY <1>1 DEF engine, EngineTypeOK
<1>3. \A d \in Device : screen'[d] \in {screen[d], "on"}
  BY <1>1 DEF ThreadsOK
<1>4. \A d \in managed : Shown(d)' \in {Shown(d), "on"}
  BY <1>2, <1>3 DEF Shown
<1> QED
  BY <1>1, <1>2, <1>4 DEF BrightStep, ReportsOK, Bright, Answers

\* A display is blanked for an idle user, and lit for a busy one.
LEMMA AskedOfUser ==
  ASSUME EngineTypeOK, ThreadsOK, NEW t \in Threads, NEW d \in managed
  PROVE  /\ Ask(call[t].event, d) \in Asks
         /\ Ask(call[t].event, d) = "blank" => call[t].event = "USERIDLE" /\ prefs.userIdle
         /\ call[t].event = "USERBUSY" /\ prefs.userIdle => Ask(call[t].event, d) = "on"
<1>1. call[t].event \in Brought /\ ~status.remote /\ ~topology.support
  BY DEF ThreadsOK
<1>2. Blanks(call[t].event, d) => call[t].event = "USERIDLE" /\ prefs.userIdle
  BY <1>1 DEF Blanks, Brought, SystemEvents
<1>3. call[t].event = "USERBUSY" /\ prefs.userIdle =>
        /\ LightsUp(call[t].event, d)
        /\ ~SwitchesOff(call[t].event, d) /\ ~Blanks(call[t].event, d)
  BY <1>1 DEF LightsUp, Included, SwitchesOff, Blanks
<1>4. /\ Ask(call[t].event, d) \in Asks
      /\ Ask(call[t].event, d) = "blank" => Blanks(call[t].event, d)
  BY DEF Ask, Asks
<1>5. call[t].event = "USERBUSY" /\ prefs.userIdle => Ask(call[t].event, d) = "on"
  BY <1>3 DEF Ask
<1> QED
  BY <1>2, <1>4, <1>5

\* A step of an event for one display.
LEMMA ProcessBright ==
  ASSUME EngineTypeOK, ThreadsOK, ReportsOK, NEW t \in Threads, ProcessEvent(t),
         UNCHANGED world
  PROVE  BrightStep(t)
<1> DEFINE e == call[t].event
<1> DEFINE k == call[t].next
<1>1. /\ call[t].at = "process" /\ call[t].to = Device /\ k \in Device
      /\ UNCHANGED <<prefs, screen, user>> /\ "socket" \in Threads
  BY DaemonAssumption DEF ProcessEvent, ThreadsOK, EngineTypeOK, world
<1>2. /\ \A u \in Threads \ {t} : call'[u] = call[u]
      /\ call'[t].event = e /\ call'[t].at \in {"process", "post"}
      /\ k # Displays => call'[t].at = "process" /\ call'[t].next = k + 1
  <2>1. CASE k = Displays
    <3>1. call' = [call EXCEPT ![t].at = "post", ![t].next = k]
      BY <2>1 DEF ProcessEvent
    <3> QED
      BY <1>1, <2>1, <3>1 DEF EngineTypeOK
  <2>2. CASE k # Displays
    <3>1. call' = [call EXCEPT ![t].at = "process", ![t].next = k + 1]
      BY <2>2 DEF ProcessEvent
    <3> QED
      BY <1>1, <2>2, <3>1 DEF EngineTypeOK
  <2> QED
    BY <2>1, <2>2
<1>3. /\ \A d \in Device \ {k} : session'[d] = session[d]
      /\ \/ session'[k] = session[k] /\ Ask(e, k) = "none"
         \/ session'[k].pending /\ session'[k].asked = Ask(e, k)
            /\ Ask(e, k) # "none"
  BY <1>1 DEF ProcessEvent, EngineTypeOK
<1>4. k \in managed =>
        /\ Ask(e, k) \in {"none", "on", "off", "blank"}
        /\ Ask(e, k) = "off" => e \in Darkening
        /\ Ask(e, k) = "blank" => e = "USERIDLE" /\ prefs.userIdle
        /\ e = "USERBUSY" /\ prefs.userIdle => Ask(e, k) = "on"
  BY AskedBy, AskedOfUser DEF Asks
<1>5. managed \subseteq Device /\ Device \subseteq Nat /\ \A d \in Device : d <= Displays
  BY CompanionAssumption DEF EngineTypeOK, Device
<1>6. /\ e = "USERIDLE" => user = "idle"
      /\ Darkens(t) \/ e \notin Darkening
      /\ t = "socket" => \A d : Answers(d) <=> e = "USERBUSY" /\ k <= d
  BY <1>1 DEF ReportsOK, Darkens, Answers
<1>7. ReportsOK'
  BY <1>1, <1>2 DEF ReportsOK
<1> HIDE DEF e, k
<1>8. ASSUME NEW d \in managed \ {k}, Answers(d) PROVE Answers(d)'
  <2>1. CASE t = "socket"
    <3>1. e = "USERBUSY" /\ k <= d
      BY <1>6, <1>8, <2>1
    <3>2. d \in Nat /\ k \in Nat /\ Displays \in Nat /\ d <= Displays /\ k # d
      BY <1>1, <1>5, <1>8, CompanionAssumption
    <3>3. k # Displays /\ k + 1 <= d
      BY <3>1, <3>2
    <3> QED
      BY <1>2, <2>1, <3>1, <3>3 DEF Answers
  <2>2. CASE t # "socket"
    BY <1>1, <1>2, <1>8, <2>2 DEF Answers
  <2> QED
    BY <2>1, <2>2
<1>9. t # "socket" => \A d : Answers(d) => Answers(d)'
  BY <1>1, <1>2 DEF Answers
<1>10. ASSUME NEW d \in managed \ {k}, Bright(d) PROVE Bright(d)'
  <2>1. Shown(d)' = Shown(d)
    BY <1>1, <1>3, <1>5, <1>10 DEF Shown
  <2> QED
    BY <1>1, <1>8, <1>10, <2>1 DEF Bright
<1>11. ASSUME NEW d \in managed, d = k, ~Darkens(t), Bright(d) PROVE Bright(d)'
  <2>1. CASE session'[d] = session[d] /\ Ask(e, d) = "none"
    <3>1. Shown(d)' = Shown(d)
      BY <1>1, <2>1 DEF Shown
    <3>2. e = "USERBUSY" => ~prefs.userIdle
      BY <1>4, <1>11, <2>1
    <3>3. Answers(d) /\ prefs.userIdle => Answers(d)'
      BY <1>6, <1>9, <3>2
    <3> QED
      BY <1>1, <1>11, <3>1, <3>3 DEF Bright
  <2>2. CASE session'[d].pending /\ session'[d].asked = Ask(e, d) /\ Ask(e, d) # "none"
    <3>1. Shown(d)' = Ask(e, d)
      BY <2>2 DEF Shown
    <3>2. \/ Ask(e, d) = "on"
          \/ Ask(e, d) = "blank" /\ prefs.userIdle /\ user = "idle"
      BY <1>4, <1>6, <1>11, <2>2
    <3> QED
      BY <1>1, <3>1, <3>2 DEF Bright
  <2> QED
    BY <1>3, <1>11, <2>1, <2>2
<1>12. \A d \in managed : ~Darkens(t) /\ Bright(d) => Bright(d)'
  BY <1>10, <1>11
<1> QED
  BY <1>7, <1>12 DEF BrightStep

\* What follows for all displays.
LEMMA PostBright ==
  ASSUME EngineTypeOK, ReportsOK, NEW t \in Threads,
         PostProcess(t) \/ \E timeUp \in BOOLEAN : EndSettle(t, timeUp),
         UNCHANGED <<screen, user>>
  PROVE  BrightStep(t)
<1>1. UNCHANGED <<prefs, session>> /\ call[t].at \in {"post", "settle"}
  BY DEF PostProcess, EndSettle
<1>2. (\A u \in Threads \ {t} : call'[u] = call[u]) /\ call'[t].at # "process"
  <2>1. CASE call' = [call EXCEPT ![t].at = "settle"]
    BY <2>1 DEF EngineTypeOK
  <2>2. CASE call' = [call EXCEPT ![t] = NoCall]
    BY <2>2 DEF EngineTypeOK, NoCall
  <2> QED
    BY <2>1, <2>2 DEF PostProcess, EndSettle
<1>3. \A d : Answers(d) => Answers(d)'
  BY <1>1, <1>2, DaemonAssumption DEF Answers
<1> QED
  BY <1>1, <1>2, <1>3 DEF BrightStep, ReportsOK, Bright, Shown

\* The user goes away, or comes back.
LEMMA ReportBright ==
  ASSUME EngineTypeOK, ReportsOK, Report
  PROVE  BrightStep("socket")
<1>1. "socket" \in Threads
  BY DaemonAssumption
<1> DEFINE e == IF user = "busy" THEN "USERIDLE" ELSE "USERBUSY"
<1>2. /\ UserReport("socket", e) /\ UNCHANGED screen
      /\ user' = IF user = "busy" THEN "idle" ELSE "busy"
  BY DEF Report
<1>3. /\ call["socket"].at = "idle" /\ UNCHANGED <<prefs, session, managed>>
      /\ call' = [call EXCEPT !["socket"] = [at |-> "process", event |-> e, to |-> Device,
                                             next |-> 1]]
  BY <1>2 DEF UserReport, Dispatch, Begun
<1>4. /\ call'["socket"] = [at |-> "process", event |-> e, to |-> Device, next |-> 1]
      /\ \A u \in Threads \ {"socket"} : call'[u] = call[u]
  BY <1>1, <1>3 DEF EngineTypeOK
<1>5. ReportsOK'
  BY <1>2, <1>4 DEF ReportsOK
<1>6. \A d \in managed : d \in Nat /\ 1 <= d
  BY DEF EngineTypeOK, Device
<1>7. \A d \in managed : user' = "idle" \/ Answers(d)'
  BY <1>2, <1>4, <1>6 DEF Answers
<1> QED
  BY <1>2, <1>3, <1>5, <1>7 DEF BrightStep, Bright, Shown

\* The end of a session changes nothing of what its display should show.
LEMMA EndBright ==
  ASSUME EngineTypeOK, ThreadsOK, ReportsOK, NEW d \in Device, Acknowledge(d) \/ GivesUp(d),
         NEW t
  PROVE  BrightStep(t)
<1>1. UNCHANGED <<prefs, managed, call, user>> /\ \A c \in Device : Shown(c)' = Shown(c)
  BY EndFacts
<1> QED
  BY <1>1 DEF BrightStep, ReportsOK, Bright, Answers, EngineTypeOK

\* Such a step of a thread keeps the displays bright, by day.
LEMMA BrightStepKeeps ==
  ASSUME DisplayInv, LitInv, NEW t \in Threads, StepOf(t), BrightStep(t), Announces
  PROVE  ReportsOK' /\ LitInv'
<1>1. \A u \in Threads \ {t} : /\ Darkens(u)' <=> Darkens(u)
                               /\ \A d : Lights(u, d)' <=> Lights(u, d)
  BY DEF StepOf, Darkens, Lights
<1>2. (Undisturbed' <=> Undisturbed) /\ (Day' <=> Day)
  BY DEF Announces, Undisturbed, Day
<1>3. Undisturbed /\ Day => ~Darkens(t) /\ ~Darkens("bus")'
  BY <1>1, DaemonAssumption DEF LitInv, DisplayInv, ThreadsOK, StepOf
<1>4. ASSUME Undisturbed, Day, NEW d \in managed
      PROVE  Bright(d)' \/ \E u \in Threads : Lights(u, d)'
  <2>1. Bright(d) \/ \E u \in Threads : Lights(u, d)
    BY <1>4 DEF LitInv
  <2>2. CASE Bright(d)
    BY <1>3, <1>4, <2>2 DEF BrightStep
  <2>3. CASE Lights(t, d)
    BY <2>3 DEF StepOf, Bright
  <2>4. ASSUME NEW u \in Threads \ {t}, Lights(u, d)
        PROVE  \E v \in Threads : Lights(v, d)'
    BY <1>1, <2>4
  <2> QED
    BY <2>1, <2>2, <2>3, <2>4
<1>5. managed' = managed
  BY DEF StepOf
<1> QED
  BY <1>2, <1>3, <1>4, <1>5 DEF BrightStep, LitInv

\* All steps of the threads, of the displays, of the user and of the clock are such steps.
LEMMA WorksKeepBright ==
  ASSUME LogindOK, DisplayInv, ReportsOK, LitInv,
         \/ \E t \in Threads : ScriptStep(t)
         \/ Settle \/ Drain \/ ReleaseInhibitor \/ \E d \in Device : Acknowledge(d) \/ GivesUp(d)
         \/ Tick \/ Report \/ UNCHANGED vars
  PROVE  ReportsOK' /\ LitInv'
<1>1. EngineTypeOK /\ ThreadsOK /\ "bus" \in Threads /\ "socket" \in Threads
  BY DaemonAssumption DEF DisplayInv
<1>2. ASSUME NEW t \in Threads, TellType(t) \/ TellEvent(t) \/ WakeRaw(t)
      PROVE  ReportsOK' /\ LitInv'
  <2>1. Announces
    BY <1>2 DEF TellType, TellEvent, WakeRaw, Announces
  <2>2. ASSUME TellType(t) PROVE UNCHANGED <<prefs, session, call, screen, user>>
    BY <2>2 DEF TellType, ShutdownType
  <2> QED
    BY <1>1, <1>2, <2>1, <2>2, TellTypeStep, TellEventStep, WakeRawStep, StillBright,
       TellEventBright, WakeRawBright, BrightStepKeeps
<1>3. ASSUME NEW t \in Threads, script[t] # <<>>, Head(script[t]) # "DISPLAYON", Rest(t),
             UNCHANGED <<engine, screen, user>>, Announces
      PROVE  ReportsOK' /\ LitInv'
  <2>1. UNCHANGED <<prefs, session, call>>
    BY <1>3 DEF engine
  <2> QED
    BY <1>1, <1>3, <2>1, RestStep, StillStep, StillBright, BrightStepKeeps
<1>4. ASSUME NEW t \in Threads, Skip(t) PROVE ReportsOK' /\ LitInv'
  BY <1>3, <1>4 DEF Skip, AtStep, Announces
<1>5. ASSUME NEW t \in Threads, Process(t) PROVE ReportsOK' /\ LitInv'
  <2>1. Announces /\ UNCHANGED <<script, screen, user>> /\ UNCHANGED world
    BY <1>5 DEF Process, world, Announces
  <2> QED
    BY <1>1, <1>5, <2>1, ProcessStep, PostStep, ProcessBright, PostBright, BrightStepKeeps
       DEF Process
<1>6. CASE Drain
  BY <1>1, <1>3, <1>6 DEF Drain, AtStep, Announces
<1>7. CASE ReleaseInhibitor
  <2>1. monitor'.handled = monitor.handled
    BY <1>7 DEF ReleaseInhibitor, LogindOK
  <2> QED
    BY <1>1, <1>3, <1>7, <2>1 DEF ReleaseInhibitor, AtStep, Announces
<1>8. CASE Settle
  <2>1. /\ Announces /\ UNCHANGED <<script, screen, user>>
        /\ EndSettle("bus", waited >= SuspendWait)
    BY <1>8 DEF Settle, Announces
  <2>2. EndSettle("bus", TRUE)
    BY <2>1 DEF EndSettle
  <2> QED
    BY <1>1, <2>1, <2>2, PostStep, PostBright, BrightStepKeeps
<1>9. ASSUME NEW d \in Device, Acknowledge(d) \/ GivesUp(d) PROVE ReportsOK' /\ LitInv'
  <2>1. Announces
    BY <1>1, <1>9, EndFacts DEF Announces
  <2> QED
    BY <1>1, <1>9, <2>1, EndStep, EndBright, BrightStepKeeps
<1>10. CASE Report
  <2>1. Announces
    BY <1>10 DEF Report, Announces
  <2> QED
    BY <1>1, <1>10, <2>1, ReportStep, ReportBright, BrightStepKeeps
<1>11. CASE Tick \/ UNCHANGED vars
  <2>1. UNCHANGED <<engine, screen, script, user>>
    BY <1>11 DEF Tick, vars, world
  <2>2. Announces
    BY <1>11 DEF Tick, vars, world, Announces, LogindOK
  <2>3. (Darkens("bus")' <=> Darkens("bus")) /\ \A d : Lights("bus", d)' <=> Lights("bus", d)
    BY <2>1 DEF engine, Darkens, Lights
  <2>4. UNCHANGED <<prefs, session, call>>
    BY <2>1 DEF engine
  <2> QED
    BY <1>1, <2>1, <2>2, <2>3, <2>4, StillStep, StillBright, BrightStepKeeps
<1> QED
  BY <1>2, <1>4, <1>5, <1>6, <1>7, <1>8, <1>9, <1>10, <1>11 DEF ScriptStep

\* Day breaks with a wake-up.
LEMMA DayBreaks ==
  ASSUME LogindOK, WakesLast, Undisturbed', Day',
         \/ OnPrepareForSleep \/ OnWakeUp \/ OnPrepareForShutdown
         \/ OnPrepareForShutdownWithMetadata \/ OnCancelled
  PROVE  OnWakeUp
<1>1. signals # <<>> /\ signals' = Tail(signals) /\ UNCHANGED machine
  BY DEF OnPrepareForSleep, OnWakeUp, OnPrepareForShutdown, OnPrepareForShutdownWithMetadata,
         OnCancelled, Signal
<1>2. /\ Head(signals) = signals[1] /\ 1 \in DOMAIN signals
      /\ signals' = <<>> => Len(signals) = 1
  BY <1>1, TailFacts DEF LogindOK
<1>3. ~Head(signals).goingDown
  BY <1>1, <1>2 DEF Undisturbed, Day, WakesLast
<1>4. Head(signals).name = "sleep"
  BY <1>1, <1>2, <1>3 DEF Undisturbed, WakesLast
<1> QED
  BY <1>3, <1>4 DEF OnPrepareForSleep, OnPrepareForShutdown, OnPrepareForShutdownWithMetadata,
                    OnCancelled, Signal

\* The resume thread of a wake-up is to light the displays.
LEMMA HandlersKeepBright ==
  ASSUME LogindOK, DisplayInv, ReportsOK, WakesLast,
         \/ OnPrepareForSleep \/ OnWakeUp \/ OnPrepareForShutdown
         \/ OnPrepareForShutdownWithMetadata \/ OnCancelled
  PROVE  ReportsOK' /\ LitInv'
<1>1. /\ signals # <<>> /\ signals' = Tail(signals) /\ UNCHANGED <<machine, engine, user>>
      /\ call["bus"].at = "idle" /\ script["bus"] = <<>>
  BY DEF OnPrepareForSleep, OnWakeUp, OnPrepareForShutdown, OnPrepareForShutdownWithMetadata,
         OnCancelled, Signal, Idle
<1>2. UNCHANGED <<call, managed>>
  BY <1>1 DEF engine
<1>3. ReportsOK'
  BY <1>1, <1>2 DEF ReportsOK
<1>4. ASSUME OnWakeUp PROVE ~Darkens("bus")' /\ \E t \in Threads : \A d : Lights(t, d)'
  <2>1. PICK r \in Threads \ {"bus", "main", "socket"} : Run(r, ResumeScript)
    BY <1>4, ResumeThread DEF OnWakeUp
  <2>2. script'[r] = ResumeScript /\ script'["bus"] = script["bus"]
    BY <2>1, Scripts, RunFacts, DaemonAssumption
  <2>3. 5 \in DOMAIN ResumeScript /\ ResumeScript[5] = "DISPLAYON"
    BY DEF ResumeScript
  <2> QED
    BY <1>1, <1>2, <2>2, <2>3 DEF Darkens, Lights
<1> QED
  BY <1>2, <1>3, <1>4, DayBreaks DEF LitInv

\* A request, and what the machine does by itself, end the day, and do not begin it.
LEMMA MachineKeepsBright ==
  ASSUME LogindOK, SignalsOK, ReportsOK,
         (\E kind \in Kinds : Request(kind)) \/ Proceed \/ Wake \/ GoDown \/ Cancel
  PROVE  ReportsOK' /\ LitInv'
<1>1. UNCHANGED <<engine, user>>
  BY DEF Request, Proceed, Wake, GoDown, Cancel
<1>2. ReportsOK'
  BY <1>1 DEF engine, ReportsOK
<1>3. ASSUME Day', Undisturbed' PROVE FALSE
  <2>1. CASE Proceed \/ GoDown
    BY <1>3, <2>1 DEF Proceed, GoDown, Day, LogindOK
  <2>2. CASE Wake
    BY <1>3, <2>2, WakeKeepsSignals, EmptySeq DEF Day, LogindOK
  <2>3. CASE Cancel
    BY <1>3, <2>3 DEF Cancel, Undisturbed, LogindOK
  <2>4. ASSUME NEW kind \in Kinds, Request(kind) PROVE FALSE
    BY <1>3, <2>4 DEF Request, Day, LogindOK
  <2> QED
    BY <2>1, <2>2, <2>3, <2>4
<1> QED
  BY <1>2, <1>3 DEF LitInv

\* The displays of a machine that is awake stay bright, or are to be lit.
LEMMA NextAwake ==
  ASSUME LogindOK, SignalsOK, DisplayInv, AwakeInv, [Next]_vars
  PROVE  AwakeInv'
BY NextWake, WorksKeepBright, HandlersKeepBright, MachineKeepsBright
   DEF AwakeInv, Next, System, Monitor, Machine

-----------------------------------------------------------------------------
(* A machine that goes to sleep or is switched off.                         *)

\* The monitor's thread waits in the engine, or in the drain.
Waits ==
    /\ waited \in Nat
    /\ waited # 0 => \/ call["bus"].at = "settle"
                     \/ script["bus"] # <<>> /\ Head(script["bus"]) = "drain"

\* A step of a script that tells the engine the kind of a shutdown.
Kindly == {"TYPE_SHUTDOWN", "TYPE_REBOOT", "TYPE_UNSURE"}

\* Until a shutdown is asked for the engine knows of none.
Untyped ==
    ~machine.cancelled /\ (machine.phase = "awake" \/ machine.kind = "sleep") =>
      /\ status.type = "UNDEFINED" /\ ~monitor.handled
      /\ \A t \in Threads : \A i \in DOMAIN script[t] : script[t][i] \notin Kindly
      /\ \A i \in DOMAIN signals : signals[i].name = "sleep"

\* A thread that has yet to tell the engine that the displays are on, or that they are not.
Suspends(t) ==
    \/ call[t].at \in {"process", "post"} /\ call[t].event = "SUSPEND"
    \/ \E i \in DOMAIN script[t] : script[t][i] = "SUSPEND"

Declares(t) ==
    \/ call[t].at \in {"process", "post"} /\ call[t].event = "DISPLAYON"
    \/ \E i \in DOMAIN script[t] : script[t][i] = "DISPLAYON"

\* By day the engine believes that the displays are on, or is going to.
Powered ==
    /\ \A t \in Threads \ {"bus"} : ~Suspends(t)
    /\ Undisturbed /\ Day =>
         ~Suspends("bus") /\ (status.power \/ \E t \in Threads : Declares(t))

\* A daemon at rest was told to let the displays go dark.
Night ==
    /\ Undisturbed /\ haste = {}
    /\ machine.phase # "awake" /\ machine.kind \in {"sleep", "poweroff"}

\* The time the drain has is used up.
Tired == machine.elapsed >= DrainBudget

Held == machine.phase = "going" /\ monitor.lock

\* Nothing is left on the bus that the monitor would act upon.
Deaf == IF machine.kind = "sleep" THEN signals = <<>> ELSE monitor.handled

\* Displays below n, or all, are dark once they have answered; or have answered.
GoneBelow(n) == \A d \in managed : d < n => Shown(d) = "off"

Gone == \A d \in managed : Shown(d) = "off"

AllDark == \A d \in managed : ~session[d].pending /\ Shown(d) = "off"

BusHas(steps) == call["bus"].at = "idle" /\ script["bus"] = steps

Shutdown == <<"SHUTDOWN", "drain", "release">>

Drained == <<"drain", "release">>

\* The way of the handler through the night, from the announcement to the release.
Told ==
    /\ BusHas(<<>>) /\ signals # <<>>
    /\ status.power /\ status.type = "UNDEFINED" /\ ~monitor.handled

ToSuspend == BusHas(SuspendScript) /\ status.power /\ status.type = "UNDEFINED"

ToTell == \E type \in {"TYPE_SHUTDOWN", "TYPE_UNSURE"} : BusHas(ShutdownScript(type))

ToShutdown == BusHas(Shutdown) /\ status.type \in {"SHUTDOWN", "UNSURE"}

Asking ==
    /\ call["bus"].at = "process" /\ script["bus"] = Drained
    /\ call["bus"].event \in Darkening
    /\ call["bus"].event = "SUSPEND" => status.power
    /\ GoneBelow(call["bus"].next)

Lingering ==
    call["bus"].at \in {"post", "settle", "idle"} /\ script["bus"] = Drained /\ Gone

ToRelease == BusHas(<<"release">>) /\ AllDark

Stages ==
    \/ Held /\ Told
    \/ /\ Held /\ Deaf
       /\ ToSuspend \/ ToTell \/ ToShutdown \/ Asking \/ Lingering \/ ToRelease
    \/ Deaf /\ BusHas(<<>>) /\ AllDark

NightInv ==
    Night /\ ~Tired =>
      /\ \A t \in Threads \ {"bus"} : Idle(t)
      /\ waited <= machine.elapsed
      /\ Stages

DarkInv == Waits /\ Untyped /\ Powered /\ (InhibitDelay > 0 => NightInv)

-----------------------------------------------------------------------------
(* The handler's waits.                                                     *)

\* Time is counted only while the handler waits.
LEMMA NextWaits ==
  ASSUME LogindOK, EngineTypeOK, Waits, [Next]_vars
  PROVE  Waits'
<1>1. "bus" \in Threads /\ "socket" \in Threads /\ "bus" # "socket"
  BY DaemonAssumption
<1>2. ASSUME waited' = waited, UNCHANGED script, call'["bus"] = call["bus"] PROVE Waits'
  BY <1>2 DEF Waits
<1>3. ASSUME NEW t \in Threads, script[t] # <<>>, Head(script[t]) # "drain", Rest(t),
             call[t].at = "idle", \A u \in Threads \ {t} : call'[u] = call[u],
             waited' = waited
      PROVE  Waits'
  <2>1. CASE t = "bus"
    BY <1>3, <2>1 DEF Waits
  <2>2. CASE t # "bus"
    <3>1. script'["bus"] = script["bus"]
      BY <1>1, <1>3, <2>2, RestFacts
    <3> QED
      BY <1>1, <1>3, <2>2, <3>1 DEF Waits
  <2> QED
    BY <2>1, <2>2
<1>4. ASSUME NEW t \in Threads, TellType(t) \/ TellEvent(t) \/ Skip(t) \/ WakeRaw(t)
      PROVE  Waits'
  <2>1. /\ script[t] # <<>> /\ Head(script[t]) # "drain" /\ Rest(t) /\ call[t].at = "idle"
        /\ waited' = waited
    BY <1>4 DEF TellType, TellEvent, Skip, WakeRaw, AtStep, Types, SystemEvents
  <2>2. \A u \in Threads \ {t} : call'[u] = call[u]
    BY <1>4 DEF TellType, TellEvent, Skip, WakeRaw, ShutdownType, SystemEvent, Dispatch, Begun,
                engine, EngineTypeOK
  <2> QED
    BY <1>3, <2>1, <2>2
<1>5. ASSUME NEW t \in Threads, Process(t) PROVE Waits'
  <2>1. /\ waited' = waited /\ UNCHANGED script /\ call[t].at # "settle"
        /\ \A u \in Threads \ {t} : call'[u] = call[u]
    BY <1>5 DEF Process, world, ProcessEvent, PostProcess, EngineTypeOK
  <2> QED
    BY <1>1, <2>1 DEF Waits
<1>6. CASE Settle \/ Drain
  BY <1>6 DEF Settle, Drain, Waits
<1>7. CASE ReleaseInhibitor
  BY <1>1, <1>3, <1>7 DEF ReleaseInhibitor, AtStep, engine
<1>8. CASE \E d \in Device : Acknowledge(d) \/ GivesUp(d)
  BY <1>2, <1>8 DEF Acknowledge, GivesUp, SessionEnds
<1>9. CASE Report
  <2>1. call'["bus"] = call["bus"]
    BY <1>1, <1>9 DEF Report, UserReport, Dispatch, Begun, EngineTypeOK
  <2> QED
    BY <1>2, <1>9, <2>1 DEF Report
<1>10. CASE \/ OnPrepareForSleep \/ OnWakeUp \/ OnPrepareForShutdown
            \/ OnPrepareForShutdownWithMetadata \/ OnCancelled
  <2>1. waited' = waited /\ call["bus"].at = "idle" /\ script["bus"] = <<>>
    BY <1>10 DEF OnPrepareForSleep, OnWakeUp, OnPrepareForShutdown,
                 OnPrepareForShutdownWithMetadata, OnCancelled, Signal, Idle
  <2> QED
    BY <2>1 DEF Waits
<1>11. CASE \/ \E kind \in Kinds : Request(kind)
            \/ Proceed \/ GoDown \/ Cancel \/ UNCHANGED vars
  BY <1>2, <1>11 DEF Request, Proceed, GoDown, Cancel, engine, vars, world
<1>12. CASE Wake
  BY <1>12 DEF Wake, engine, Waits, SuspendWait
<1>13. CASE Tick
  BY <1>13 DEF Tick, Waiting, AtStep, engine, Waits
<1> QED
  BY <1>4, <1>5, <1>6, <1>7, <1>8, <1>9, <1>10, <1>11, <1>12, <1>13
     DEF Next, System, Monitor, Machine, ScriptStep

-----------------------------------------------------------------------------
(* The kind of a shutdown.                                                  *)

\* What is left of a script has no step that it did not have.
LEMMA RestSteps ==
  ASSUME LogindOK, NEW t \in Threads, script[t] # <<>>, Rest(t)
  PROVE  /\ \A i \in DOMAIN script'[t] : \E j \in DOMAIN script[t] : script'[t][i] = script[t][j]
         /\ \A i \in DOMAIN script[t] :
              \/ i = 1 /\ script[t][i] = Head(script[t])
              \/ \E j \in DOMAIN script'[t] : script'[t][j] = script[t][i]
         /\ 1 \in DOMAIN script[t] /\ script[t][1] = Head(script[t])
         /\ \A u \in Threads \ {t} : script'[u] = script[u]
<1>1. script[t] \in Seq(Steps)
  BY DEF LogindOK
<1>2. script'[t] = Tail(script[t]) /\ \A u \in Threads \ {t} : script'[u] = script[u]
  BY RestFacts
<1>3. /\ Head(script[t]) = script[t][1] /\ 1 \in DOMAIN script[t]
      /\ \A i \in DOMAIN Tail(script[t]) :
           i + 1 \in DOMAIN script[t] /\ Tail(script[t])[i] = script[t][i + 1]
      /\ \A i \in DOMAIN script[t] :
           i # 1 => i - 1 \in DOMAIN Tail(script[t]) /\ Tail(script[t])[i - 1] = script[t][i]
  BY <1>1, TailFacts
<1>4. \A i \in DOMAIN script'[t] : \E j \in DOMAIN script[t] : script'[t][i] = script[t][j]
  BY <1>2, <1>3
<1>5. \A i \in DOMAIN script[t] :
        i # 1 => \E j \in DOMAIN script'[t] : script'[t][j] = script[t][i]
  BY <1>2, <1>3
<1> QED
  BY <1>2, <1>3, <1>4, <1>5

\* The scripts of a sleep and of a wake-up tell no kind.
LEMMA ScriptsUntyped ==
  /\ \A i \in DOMAIN SuspendScript : SuspendScript[i] \notin Kindly
  /\ \A i \in DOMAIN ResumeScript : ResumeScript[i] \notin Kindly
  /\ \A i \in DOMAIN Startup : Startup[i] \notin Kindly
BY DEF SuspendScript, ResumeScript, Startup, Kindly

\* The engine knows of a shutdown only once one was asked for.
LEMMA NextUntyped ==
  ASSUME LogindOK, SignalsOK, EngineTypeOK, Untyped, [Next]_vars
  PROVE  Untyped'
<1> DEFINE Kindless == \A t \in Threads : \A i \in DOMAIN script[t] : script[t][i] \notin Kindly
<1> DEFINE Asleep == ~machine.cancelled /\ (machine.phase = "awake" \/ machine.kind = "sleep")
<1>1. "bus" \in Threads
  BY DaemonAssumption
<1>2. ASSUME NEW t \in Threads, script[t] # <<>>, Rest(t), Kindless PROVE Kindless'
  BY <1>2, RestSteps
<1>3. CASE \/ \E t \in Threads : ScriptStep(t)
           \/ Settle \/ Drain \/ \E d \in Device : Acknowledge(d) \/ GivesUp(d)
           \/ Tick \/ Report \/ UNCHANGED vars
  <2>1. /\ Asleep' <=> Asleep
        /\ UNCHANGED <<signals, monitor>>
    BY <1>3, MostWork DEF Works
  <2>2. ASSUME Asleep PROVE Kindless'
    <3>1. Kindless
      BY <2>2 DEF Untyped
    <3>2. \/ UNCHANGED script
          \/ \E t \in Threads : script[t] # <<>> /\ Rest(t)
      BY <1>1, <1>3 DEF ScriptStep, TellType, TellEvent, Skip, WakeRaw, AtStep, Process, world,
         Settle, Drain, Acknowledge, GivesUp, Tick, Report, vars
    <3> QED
      BY <1>2, <3>1, <3>2
  <2>3. ASSUME Asleep PROVE status'.type = "UNDEFINED"
    <3>1. status.type = "UNDEFINED" /\ Kindless
      BY <2>3 DEF Untyped
    <3>2. ASSUME NEW t \in Threads, TellType(t) PROVE status'.type = "UNDEFINED"
      <4>1. Head(script[t]) \in Types /\ script[t] # <<>> /\ Rest(t)
            /\ status' = [status EXCEPT !.type = TypeOf(Head(script[t]))]
        BY <3>2 DEF TellType, AtStep, ShutdownType
      <4>2. Head(script[t]) \notin Kindly
        BY <3>1, <4>1, RestSteps
      <4> QED
        BY <4>1, <4>2 DEF Types, Kindly, TypeOf, EngineTypeOK
    <3>3. ASSUME NEW t \in Threads, PostProcess(t) PROVE status'.type = "UNDEFINED"
      BY <3>1, <3>3 DEF PostProcess, Posted, EngineTypeOK
    <3>4. CASE \/ \E t \in Threads : TellEvent(t) \/ Skip(t) \/ WakeRaw(t) \/ ProcessEvent(t)
               \/ Settle \/ Drain \/ \E d \in Device : Acknowledge(d) \/ GivesUp(d)
               \/ Tick \/ Report \/ UNCHANGED vars
      BY <3>1, <3>4 DEF TellEvent, SystemEvent, Dispatch, Skip, WakeRaw, ProcessEvent, Settle,
         EndSettle, Drain, Acknowledge, GivesUp, SessionEnds, Tick, Report, UserReport, vars,
         engine
    <3> QED
      BY <1>3, <3>2, <3>3, <3>4 DEF ScriptStep, Process
  <2> QED
    BY <2>1, <2>2, <2>3 DEF Untyped
<1>4. CASE ReleaseInhibitor
  <2>1. /\ UNCHANGED <<engine, machine, signals>> /\ script["bus"] # <<>> /\ Rest("bus")
        /\ monitor'.handled = monitor.handled
    BY <1>4 DEF ReleaseInhibitor, AtStep, LogindOK
  <2> QED
    BY <1>1, <1>2, <2>1 DEF Untyped, engine
<1>5. CASE \/ OnPrepareForSleep \/ OnWakeUp \/ OnPrepareForShutdown
           \/ OnPrepareForShutdownWithMetadata \/ OnCancelled
  <2>1. /\ signals # <<>> /\ signals' = Tail(signals) /\ UNCHANGED <<machine, engine>>
    BY <1>5 DEF OnPrepareForSleep, OnWakeUp, OnPrepareForShutdown,
                OnPrepareForShutdownWithMetadata, OnCancelled, Signal
  <2>2. /\ Head(signals) = signals[1] /\ 1 \in DOMAIN signals
        /\ \A i \in DOMAIN signals' : i + 1 \in DOMAIN signals /\ signals'[i] = signals[i + 1]
    BY <2>1, TailFacts DEF LogindOK
  <2> SUFFICES ASSUME Asleep PROVE Untyped'
    BY <2>1 DEF Untyped
  <2>3. status.type = "UNDEFINED" /\ ~monitor.handled /\ Kindless /\ signals[1].name = "sleep"
    BY <2>2 DEF Untyped
  <2>4. \A i \in DOMAIN signals' : signals'[i].name = "sleep"
    BY <2>2 DEF Untyped
  <2>5. OnPrepareForSleep \/ OnWakeUp
    BY <1>5, <2>2, <2>3 DEF OnPrepareForShutdown, OnPrepareForShutdownWithMetadata,
                            OnCancelled, Signal
  <2>6. CASE OnPrepareForSleep
    <3>1. Run("bus", SuspendScript) /\ UNCHANGED monitor
      BY <2>6 DEF OnPrepareForSleep
    <3>2. script'["bus"] = SuspendScript /\ \A t \in Threads \ {"bus"} : script'[t] = script[t]
      BY <1>1, <3>1, Scripts, RunFacts
    <3>3. Kindless'
      BY <2>3, <3>2, ScriptsUntyped
    <3> QED
      BY <2>1, <2>3, <2>4, <3>1, <3>3 DEF Untyped, engine
  <2>7. CASE OnWakeUp
    <3>1. ~monitor'.handled
      BY <2>7 DEF OnWakeUp
    <3>2. PICK r \in Threads : Run(r, ResumeScript)
      BY <2>7, ResumeThread DEF OnWakeUp
    <3>3. script'[r] = ResumeScript /\ \A t \in Threads \ {r} : script'[t] = script[t]
      BY <3>2, Scripts, RunFacts
    <3>4. Kindless'
      BY <2>3, <3>3, ScriptsUntyped
    <3> QED
      BY <2>1, <2>3, <2>4, <3>1, <3>4 DEF Untyped, engine
  <2> QED
    BY <2>5, <2>6, <2>7
<1>6. ASSUME NEW kind \in Kinds, Request(kind) PROVE Untyped'
  <2>1. /\ machine.phase = "awake" /\ machine'.kind = kind /\ machine'.phase = "going"
        /\ machine'.cancelled = machine.cancelled
        /\ signals' = signals \o Announced(kind, TRUE) /\ UNCHANGED <<engine, monitor, script>>
    BY <1>6 DEF Request, LogindOK
  <2>2. PICK a : a = Announced(kind, TRUE)
    OBVIOUS
  <2>3. a \in Seq(Announcement) /\ (kind = "sleep" => \A i \in DOMAIN a : a[i].name = "sleep")
    BY <2>2, AnnouncedFacts
  <2>4. signals' = signals \o a /\ signals \in Seq(Announcement)
    BY <2>1, <2>2 DEF LogindOK
  <2>5. kind = "sleep" => \A i \in DOMAIN signals' :
          (i \in DOMAIN signals /\ signals'[i] = signals[i]) \/ signals'[i].name = "sleep"
    BY ONLY <2>3, <2>4, ConcatProperties
  <2> QED
    BY <2>1, <2>5 DEF Untyped, engine
<1>7. CASE Proceed \/ GoDown \/ Cancel
  <2>1. /\ UNCHANGED <<engine, monitor, script>> /\ machine'.kind = machine.kind
        /\ \/ machine'.phase # "awake" /\ machine'.cancelled = machine.cancelled
              /\ UNCHANGED signals
           \/ machine'.cancelled = TRUE
    <3>1. CASE Proceed
      BY <3>1 DEF Proceed, LogindOK
    <3>2. CASE GoDown
      BY <3>2 DEF GoDown, LogindOK
    <3>3. CASE Cancel
      BY <3>3 DEF Cancel, LogindOK
    <3> QED
      BY <1>7, <3>1, <3>2, <3>3
  <2> QED
    BY <2>1 DEF Untyped, engine
<1>8. CASE Wake
  <2>1. /\ UNCHANGED <<engine, monitor, script>> /\ machine.kind = "sleep"
        /\ machine'.cancelled = machine.cancelled
    BY <1>8 DEF Wake, LogindOK
  <2>2. \A i \in DOMAIN signals' :
          (i \in DOMAIN signals /\ signals'[i] = signals[i]) \/ signals'[i].name = "sleep"
    BY <1>8, WakeKeepsSignals
  <2> QED
    BY <2>1, <2>2 DEF Untyped, engine
<1> QED
  BY <1>3, <1>4, <1>5, <1>6, <1>7, <1>8 DEF Next, System, Monitor, Machine

-----------------------------------------------------------------------------
(* The power status.                                                        *)

\* A step of a thread that has not to suspend the engine leaves it powered; one that has to
\* declare the displays on does so, or still has to.
PowerStep(t) ==
    /\ \A u \in Threads \ {t} : call'[u] = call[u] /\ script'[u] = script[u]
    /\ Suspends(t)' => Suspends(t)
    /\ ~Suspends(t) /\ status.power => status'.power
    /\ Declares(t) => Declares(t)' \/ status'.power

\* A thread that goes on in its script, with the engine left alone.
LEMMA RestPower ==
  ASSUME LogindOK, NEW t \in Threads, script[t] # <<>>, Rest(t), UNCHANGED call,
         Head(script[t]) # "DISPLAYON", status'.power = status.power
  PROVE  PowerStep(t)
BY RestSteps DEF PowerStep, Suspends, Declares

\* An event of a script begins.
LEMMA TellEventPower ==
  ASSUME LogindOK, EngineTypeOK, NEW t \in Threads, TellEvent(t)
  PROVE  PowerStep(t)
<1> DEFINE e == Head(script[t])
<1>1. /\ script[t] # <<>> /\ e \in SystemEvents /\ Rest(t) /\ call[t].at = "idle"
      /\ SystemEvent(t, e)
  BY DEF TellEvent, AtStep
<1>2. /\ UNCHANGED status
      /\ call' = [call EXCEPT ![t] = [at |-> "process", event |-> Translated(e), to |-> Device,
                                      next |-> 1]]
  BY <1>1 DEF SystemEvent, Dispatch, Begun
<1>3. /\ call'[t].at = "process" /\ call'[t].event = Translated(e)
      /\ \A u \in Threads \ {t} : call'[u] = call[u]
  BY <1>2 DEF EngineTypeOK
<1>4. /\ \A i \in DOMAIN script'[t] : \E j \in DOMAIN script[t] : script'[t][i] = script[t][j]
      /\ \A i \in DOMAIN script[t] :
           script[t][i] = e \/ \E j \in DOMAIN script'[t] : script'[t][j] = script[t][i]
      /\ 1 \in DOMAIN script[t] /\ script[t][1] = e
      /\ \A u \in Threads \ {t} : script'[u] = script[u]
  BY <1>1, RestSteps
<1> HIDE DEF e
<1>5. /\ Translated(e) = "SUSPEND" => e = "SUSPEND"
      /\ e = "DISPLAYON" => Translated(e) = "DISPLAYON"
  BY <1>1 DEF Translated, SystemEvents
<1>6. Suspends(t)' => Suspends(t)
  BY <1>3, <1>4, <1>5 DEF Suspends
<1>7. Declares(t) => Declares(t)'
  BY <1>1, <1>3, <1>4, <1>5 DEF Declares
<1> QED
  BY <1>2, <1>3, <1>4, <1>6, <1>7 DEF PowerStep

\* The engine goes on with an event.
LEMMA ProcessPower ==
  ASSUME EngineTypeOK, NEW t \in Threads, ProcessEvent(t), UNCHANGED script
  PROVE  PowerStep(t)
<1>1. /\ \A u \in Threads \ {t} : call'[u] = call[u]
      /\ call'[t].event = call[t].event /\ call'[t].at \in {"process", "post"}
      /\ call[t].at = "process" /\ UNCHANGED status
  <2>1. CASE call[t].next = Displays
    <3>1. call' = [call EXCEPT ![t].at = "post", ![t].next = call[t].next]
      BY <2>1 DEF ProcessEvent
    <3> QED
      BY <3>1 DEF ProcessEvent, EngineTypeOK
  <2>2. CASE call[t].next # Displays
    <3>1. call' = [call EXCEPT ![t].at = "process", ![t].next = call[t].next + 1]
      BY <2>2 DEF ProcessEvent
    <3> QED
      BY <3>1 DEF ProcessEvent, EngineTypeOK
  <2> QED
    BY <2>1, <2>2
<1> QED
  BY <1>1 DEF PowerStep, Suspends, Declares

\* What follows for all displays: a suspend ends the power, DISPLAYON brings it back.
LEMMA PostPower ==
  ASSUME EngineTypeOK, ThreadsOK, NEW t \in Threads,
         PostProcess(t) \/ \E timeUp \in BOOLEAN : EndSettle(t, timeUp),
         UNCHANGED script
  PROVE  PowerStep(t)
<1>1. /\ \A u \in Threads \ {t} : call'[u] = call[u]
      /\ call'[t].at \in {"idle", "settle"}
  <2>1. CASE call' = [call EXCEPT ![t].at = "settle"]
    BY <2>1 DEF EngineTypeOK
  <2>2. CASE call' = [call EXCEPT ![t] = NoCall]
    BY <2>2 DEF EngineTypeOK, NoCall
  <2> QED
    BY <2>1, <2>2 DEF PostProcess, EndSettle
<1>2. CASE PostProcess(t)
  <2>1. status' = Posted(status, call[t].event) /\ call[t].at = "post"
    BY <1>2 DEF PostProcess
  <2>2. /\ status'.power = FALSE /\ status.power => call[t].event = "SUSPEND"
        /\ call[t].event = "DISPLAYON" => status'.power
        /\ status'.power \in BOOLEAN
    BY <2>1 DEF Posted, ThreadsOK, Brought, SystemEvents, EngineTypeOK
  <2> QED
    BY <1>1, <2>1, <2>2 DEF PowerStep, Suspends, Declares
<1>3. CASE \E timeUp \in BOOLEAN : EndSettle(t, timeUp)
  BY <1>1, <1>3 DEF EndSettle, PowerStep, Suspends, Declares
<1> QED
  BY <1>2, <1>3

\* A report is no event of the system.
LEMMA ReportPower ==
  ASSUME EngineTypeOK, Report
  PROVE  PowerStep("socket")
<1>1. "socket" \in Threads
  BY DaemonAssumption
<1>2. PICK e \in {"USERIDLE", "USERBUSY"} : UserReport("socket", e)
  BY DEF Report
<1>3. /\ call["socket"].at = "idle" /\ UNCHANGED <<script, status>>
      /\ call' = [call EXCEPT !["socket"] = [at |-> "process", event |-> e, to |-> Device,
                                             next |-> 1]]
  BY <1>2 DEF Report, UserReport, Dispatch, Begun
<1>4. call'["socket"].event = e /\ \A u \in Threads \ {"socket"} : call'[u] = call[u]
  BY <1>1, <1>3 DEF EngineTypeOK
<1> QED
  BY <1>3, <1>4 DEF PowerStep, Suspends, Declares

\* Such a step keeps what the engine believes by day.
LEMMA PowerStepKeeps ==
  ASSUME Powered, NEW t \in Threads, PowerStep(t), UNCHANGED <<signals>>,
         machine'.phase = machine.phase, machine'.cancelled = machine.cancelled
  PROVE  Powered'
<1>1. \A u \in Threads \ {t} : (Suspends(u)' <=> Suspends(u)) /\ (Declares(u)' <=> Declares(u))
  BY DEF PowerStep, Suspends, Declares
<1>2. \A u \in Threads : Suspends(u)' => Suspends(u)
  BY <1>1 DEF PowerStep
<1>3. (Undisturbed' <=> Undisturbed) /\ (Day' <=> Day)
  BY DEF Undisturbed, Day
<1>4. ASSUME Undisturbed, Day PROVE status'.power \/ \E u \in Threads : Declares(u)'
  <2>1. ~Suspends(t) /\ (status.power \/ \E u \in Threads : Declares(u))
    BY <1>4 DEF Powered
  <2> QED
    BY <1>1, <2>1 DEF PowerStep
<1> QED
  BY <1>2, <1>3, <1>4, DaemonAssumption DEF Powered

\* By day the engine stays powered, or is to be told.
LEMMA NextPowered ==
  ASSUME LogindOK, SignalsOK, EngineTypeOK, ThreadsOK, WakesLast, Powered, [Next]_vars
  PROVE  Powered'
<1>1. "bus" \in Threads /\ "socket" \in Threads
  BY DaemonAssumption
<1>2. CASE \/ \E t \in Threads : ScriptStep(t)
           \/ Settle \/ Drain \/ \E d \in Device : Acknowledge(d) \/ GivesUp(d)
           \/ Tick \/ Report \/ UNCHANGED vars
  <2>1. /\ UNCHANGED <<signals>> /\ machine'.phase = machine.phase
        /\ machine'.cancelled = machine.cancelled
    BY <1>2, MostWork DEF Works
  <2>2. ASSUME NEW t \in Threads, TellType(t) PROVE PowerStep(t)
    <3>1. /\ script[t] # <<>> /\ Head(script[t]) \in Types /\ Rest(t) /\ UNCHANGED call
          /\ status' = [status EXCEPT !.type = TypeOf(Head(script[t]))]
      BY <2>2 DEF TellType, AtStep, ShutdownType
    <3>2. status'.power = status.power /\ Head(script[t]) # "DISPLAYON"
      BY <3>1 DEF EngineTypeOK, Types
    <3> QED
      BY <3>1, <3>2, RestPower
  <2>3. ASSUME NEW t \in Threads, Skip(t) \/ WakeRaw(t) PROVE PowerStep(t)
    <3>1. /\ script[t] # <<>> /\ Head(script[t]) # "DISPLAYON" /\ Rest(t)
          /\ UNCHANGED <<call, status>>
      BY <2>3 DEF Skip, WakeRaw, AtStep, engine
    <3> QED
      BY <3>1, RestPower
  <2>4. ASSUME NEW t \in Threads, Process(t) PROVE PowerStep(t)
    BY <2>4, ProcessPower, PostPower DEF Process, world
  <2>5. CASE Settle
    <3>1. EndSettle("bus", waited >= SuspendWait) /\ UNCHANGED script
      BY <2>5 DEF Settle
    <3>2. EndSettle("bus", TRUE)
      BY <3>1 DEF EndSettle
    <3> QED
      BY <1>1, <2>1, <3>1, <3>2, PostPower, PowerStepKeeps
  <2>6. CASE Drain
    <3>1. /\ script["bus"] # <<>> /\ Head(script["bus"]) # "DISPLAYON" /\ Rest("bus")
          /\ UNCHANGED <<call, status>>
      BY <2>6 DEF Drain, AtStep, engine
    <3> QED
      BY <1>1, <2>1, <3>1, RestPower, PowerStepKeeps
  <2>7. CASE (\E d \in Device : Acknowledge(d) \/ GivesUp(d)) \/ Tick \/ UNCHANGED vars
    <3>1. UNCHANGED <<call, status, script>>
      BY <2>7 DEF Acknowledge, GivesUp, SessionEnds, Tick, engine, vars, world
    <3>2. PowerStep("bus")
      BY <3>1 DEF PowerStep, Suspends, Declares
    <3> QED
      BY <1>1, <2>1, <3>2, PowerStepKeeps
  <2> QED
    BY <1>1, <1>2, <2>1, <2>2, <2>3, <2>4, <2>5, <2>6, <2>7, TellEventPower, ReportPower,
       PowerStepKeeps DEF ScriptStep
<1>3. CASE ReleaseInhibitor
  <2>1. /\ script["bus"] # <<>> /\ Head(script["bus"]) # "DISPLAYON" /\ Rest("bus")
        /\ UNCHANGED <<call, status, signals, machine>>
    BY <1>3 DEF ReleaseInhibitor, AtStep, engine
  <2> QED
    BY <1>1, <2>1, RestPower, PowerStepKeeps
<1>4. CASE \/ OnPrepareForSleep \/ OnWakeUp \/ OnPrepareForShutdown
           \/ OnPrepareForShutdownWithMetadata \/ OnCancelled
  <2>1. /\ signals # <<>> /\ signals' = Tail(signals) /\ UNCHANGED <<machine, engine>>
        /\ call["bus"].at = "idle" /\ script["bus"] = <<>>
    BY <1>4 DEF OnPrepareForSleep, OnWakeUp, OnPrepareForShutdown,
                OnPrepareForShutdownWithMetadata, OnCancelled, Signal, Idle
  <2>2. UNCHANGED <<call, status>>
    BY <2>1 DEF engine
  <2>3. Head(signals) = signals[1] /\ signals[1] \in Announcement
    BY <2>1, TailFacts DEF LogindOK
  <2>4. CASE OnWakeUp
    <3>1. PICK r \in Threads \ {"bus", "main", "socket"} : Run(r, ResumeScript) /\ Idle(r)
      BY <2>4, ResumeThread DEF OnWakeUp
    <3>2. script'[r] = ResumeScript /\ \A t \in Threads \ {r} : script'[t] = script[t]
      BY <3>1, Scripts, RunFacts
    <3>3. /\ \A i \in DOMAIN ResumeScript : ResumeScript[i] # "SUSPEND"
          /\ 5 \in DOMAIN ResumeScript /\ ResumeScript[5] = "DISPLAYON"
      BY DEF ResumeScript
    <3>4. ~Suspends(r)' /\ Declares(r)'
      BY <2>2, <3>1, <3>2, <3>3 DEF Suspends, Declares, Idle
    <3>5. \A t \in Threads \ {r} : Suspends(t)' <=> Suspends(t)
      BY <2>2, <3>2 DEF Suspends
    <3>6. ~Suspends("bus")
      BY <2>1 DEF Suspends
    <3> QED
      BY <1>1, <3>1, <3>4, <3>5, <3>6 DEF Powered
  <2>5. ~OnWakeUp => ~(Undisturbed /\ Day)'
    BY <1>4, DayBreaks
  <2>6. CASE ~OnWakeUp
    <3>1. \A t \in Threads \ {"bus"} : script'[t] = script[t]
      <4>1. CASE OnPrepareForSleep
        BY <1>1, <4>1, Scripts, RunFacts DEF OnPrepareForSleep
      <4>2. ASSUME NEW kind \in Kinds \cup {"unsure"}, Handle(kind)
            PROVE  \A t \in Threads \ {"bus"} : script'[t] = script[t]
        BY <1>1, <4>2, Scripts, RunFacts DEF Handle
      <4>3. CASE OnPrepareForShutdown
        BY <4>2, <4>3 DEF OnPrepareForShutdown
      <4>4. CASE OnPrepareForShutdownWithMetadata
        <5>1. Head(signals).kind \in Kinds
          BY <2>3 DEF LogindOK, Announcement
        <5> QED
          BY <4>2, <4>4, <5>1 DEF OnPrepareForShutdownWithMetadata
      <4>5. CASE OnCancelled
        BY <4>5 DEF OnCancelled
      <4> QED
        BY <1>4, <2>6, <4>1, <4>3, <4>4, <4>5
    <3> QED
      BY <2>2, <2>5, <2>6, <3>1 DEF Powered, Suspends
  <2> QED
    BY <2>4, <2>6
<1>5. CASE (\E kind \in Kinds : Request(kind)) \/ Proceed \/ Wake \/ GoDown \/ Cancel
  <2>1. UNCHANGED <<call, script>>
    BY <1>5 DEF Request, Proceed, Wake, GoDown, Cancel, engine
  <2>2. ~(Undisturbed /\ Day)'
    <3>1. CASE Proceed \/ GoDown
      BY <3>1 DEF Proceed, GoDown, Day, LogindOK
    <3>2. CASE Wake
      BY <3>2, WakeKeepsSignals, EmptySeq DEF Day, LogindOK
    <3>3. CASE Cancel
      BY <3>3 DEF Cancel, Undisturbed, LogindOK
    <3>4. ASSUME NEW kind \in Kinds, Request(kind) PROVE ~Day'
      BY <3>4 DEF Request, Day, LogindOK
    <3> QED
      BY <1>5, <3>1, <3>2, <3>3, <3>4
  <2> QED
    BY <2>1, <2>2 DEF Powered, Suspends
<1> QED
  BY <1>2, <1>3, <1>4, <1>5 DEF Next, System, Monitor, Machine

-----------------------------------------------------------------------------
(* The way through the night.                                               *)

\* The scripts of the monitor, step by step.
LEMMA ScriptHeads ==
  /\ SuspendScript # <<>> /\ Head(SuspendScript) = "SUSPEND" /\ Tail(SuspendScript) = Drained
  /\ \A type : /\ ShutdownScript(type) # <<>> /\ Head(ShutdownScript(type)) = type
               /\ Tail(ShutdownScript(type)) = Shutdown
  /\ Shutdown # <<>> /\ Head(Shutdown) = "SHUTDOWN" /\ Tail(Shutdown) = Drained
  /\ Drained # <<>> /\ Head(Drained) = "drain" /\ Tail(Drained) = <<"release">>
  /\ <<"release">> # <<>> /\ Head(<<"release">>) = "release" /\ Tail(<<"release">>) = <<>>
BY DEF SuspendScript, ShutdownScript, Shutdown, Drained

\* The thread of the monitor is the only one that takes a step, and each keeps to the way.
LEMMA NightStep ==
  ASSUME LogindOK, NightInv, UNCHANGED <<machine, haste>>,
         waited' = waited \/ waited' = 0,
         \A t \in Threads \ {"bus"} : Night /\ ~Tired /\ Stages /\ Idle(t) => Idle(t)',
         Night /\ ~Tired /\ Stages => Stages'
  PROVE  NightInv'
<1>1. (Night' <=> Night) /\ (Tired' <=> Tired)
  BY DEF Night, Undisturbed, Tired
<1>2. machine.elapsed \in Nat
  BY DEF LogindOK
<1> QED
  BY <1>1, <1>2 DEF NightInv

\* By night no thread but that of the monitor has anything to do.
LEMMA BusSteps ==
  ASSUME EngineTypeOK, NightInv, Night, ~Tired, NEW t \in Threads,
         \/ TellType(t) \/ TellEvent(t) \/ Skip(t) \/ WakeRaw(t) \/ Process(t)
  PROVE  t = "bus"
BY DEF NightInv, Idle, TellType, TellEvent, Skip, WakeRaw, AtStep, Process, ProcessEvent,
       PostProcess

\* The kind of the shutdown is told.
LEMMA TellTypeNight ==
  ASSUME LogindOK, EngineTypeOK, NightInv, TellType("bus")
  PROVE  NightInv'
<1>1. /\ call["bus"].at = "idle" /\ script["bus"] # <<>> /\ Head(script["bus"]) \in Types
      /\ status' = [status EXCEPT !.type = TypeOf(Head(script["bus"]))] /\ Rest("bus")
      /\ UNCHANGED <<call, session, managed, machine, signals, monitor, waited, screen, haste>>
  BY DEF TellType, AtStep, ShutdownType
<1>2. /\ script'["bus"] = Tail(script["bus"])
      /\ \A t \in Threads \ {"bus"} : script'[t] = script[t]
  BY <1>1, RestFacts, DaemonAssumption
<1>3. ASSUME Stages PROVE Stages'
  <2>1. Held /\ Deaf /\ ToTell
    BY <1>1, <1>3, ScriptHeads DEF Stages, Told, ToSuspend, ToShutdown, Asking, Lingering,
                                   ToRelease, BusHas, Types
  <2>2. PICK type \in {"TYPE_SHUTDOWN", "TYPE_UNSURE"} : script["bus"] = ShutdownScript(type)
    BY <2>1 DEF ToTell, BusHas
  <2>3. /\ script'["bus"] = Shutdown /\ status'.type \in {"SHUTDOWN", "UNSURE"}
    BY <1>1, <1>2, <2>2, ScriptHeads DEF TypeOf, EngineTypeOK
  <2> QED
    BY <1>1, <2>1, <2>3 DEF Stages, Held, Deaf, ToShutdown, BusHas
<1> QED
  BY <1>1, <1>2, <1>3, NightStep DEF Idle

\* The event begins, and is the one for which the displays go dark.
LEMMA TellEventNight ==
  ASSUME LogindOK, EngineTypeOK, NightInv, TellEvent("bus")
  PROVE  NightInv'
<1> DEFINE e == Head(script["bus"])
<1>1. /\ call["bus"].at = "idle" /\ script["bus"] # <<>> /\ e \in SystemEvents /\ Rest("bus")
      /\ call' = [call EXCEPT !["bus"] = [at |-> "process", event |-> Translated(e),
                                          to |-> Device, next |-> 1]]
      /\ UNCHANGED <<status, session, managed, machine, signals, monitor, waited, screen, haste>>
  BY DEF TellEvent, AtStep, SystemEvent, Dispatch, Begun
<1>2. /\ script'["bus"] = Tail(script["bus"])
      /\ \A t \in Threads \ {"bus"} : script'[t] = script[t]
  BY <1>1, RestFacts, DaemonAssumption
<1>3. /\ call'["bus"] = [at |-> "process", event |-> Translated(e), to |-> Device, next |-> 1]
      /\ \A t \in Threads \ {"bus"} : call'[t] = call[t]
  BY <1>1, DaemonAssumption DEF EngineTypeOK
<1> HIDE DEF e
<1>4. ASSUME Stages PROVE Stages'
  <2>1. Held /\ Deaf /\ (ToSuspend \/ ToShutdown)
    BY <1>1, <1>4, ScriptHeads DEF Stages, Told, ToTell, Asking, Lingering, ToRelease, BusHas,
                                   SystemEvents, e
  <2>2. /\ script'["bus"] = Drained /\ Translated(e) \in Darkening
        /\ Translated(e) = "SUSPEND" => status.power
    <3>1. CASE ToSuspend
      <4>1. e = "SUSPEND" /\ status.power /\ status.type = "UNDEFINED"
        BY <3>1, ScriptHeads DEF ToSuspend, BusHas, e
      <4> QED
        BY <1>2, <3>1, <4>1, ScriptHeads DEF ToSuspend, BusHas, Translated, Darkening
    <3>2. CASE ToShutdown
      <4>1. e = "SHUTDOWN" /\ status.type \in {"SHUTDOWN", "UNSURE"}
        BY <3>2, ScriptHeads DEF ToShutdown, BusHas, e
      <4>2. Translated(e) \in {"SHUTDOWN", "UNSURE"}
        BY <4>1 DEF Translated
      <4> QED
        BY <1>2, <3>2, <4>2, ScriptHeads DEF ToShutdown, BusHas, Darkening
    <3> QED
      BY <2>1, <3>1, <3>2
  <2>3. \A d \in managed : ~(d < 1)
    BY DEF EngineTypeOK, Device
  <2>4. /\ call'["bus"].at = "process" /\ call'["bus"].event = Translated(e)
        /\ call'["bus"].next = 1
    BY <1>3
  <2>5. Asking'
    BY <1>1, <2>2, <2>3, <2>4 DEF Asking, GoneBelow
  <2> QED
    BY <1>1, <2>1, <2>5 DEF Stages, Held, Deaf
<1> QED
  BY <1>1, <1>2, <1>3, <1>4, NightStep DEF Idle

\* The scripts of the night have neither of these steps.
LEMMA NoOtherSteps ==
  ASSUME NightInv, Night, ~Tired, Skip("bus") \/ WakeRaw("bus")
  PROVE  FALSE
<1>1. /\ call["bus"].at = "idle" /\ script["bus"] # <<>>
      /\ Head(script["bus"]) \in {"REBOOT", "network", "wake"} /\ Stages
  BY DEF Skip, WakeRaw, AtStep, NightInv
<1> QED
  BY <1>1, ScriptHeads DEF Stages, Told, ToSuspend, ToTell, ToShutdown, Asking, Lingering,
                           ToRelease, BusHas

\* Each managed display is asked to go dark.
LEMMA AskedToGo ==
  ASSUME EngineTypeOK, ThreadsOK, NEW d \in managed, call["bus"].event \in Darkening,
         call["bus"].event = "SUSPEND" => status.power
  PROVE  Ask(call["bus"].event, d) = "off"
<1>1. ~LightsUp(call["bus"].event, d)
  BY DEF LightsUp, Darkening
<1>2. SwitchesOff(call["bus"].event, d)
  BY DEF SwitchesOff, Darkening
<1>3. ~Blanks(call["bus"].event, d)
  BY DEF Blanks, Darkening
<1> QED
  BY <1>1, <1>2, <1>3 DEF Ask

\* The event is processed for one display.
LEMMA ProcessNight ==
  ASSUME LogindOK, EngineTypeOK, ThreadsOK, NightInv, ProcessEvent("bus"), UNCHANGED world
  PROVE  NightInv'
<1> DEFINE e == call["bus"].event
<1> DEFINE k == call["bus"].next
<1>1. /\ call["bus"].at = "process" /\ call["bus"].to = Device /\ k \in Device
      /\ UNCHANGED <<status, managed, machine, signals, monitor, script, waited, screen, haste>>
      /\ "bus" \in Threads
  BY DaemonAssumption DEF ProcessEvent, ThreadsOK, EngineTypeOK, world
<1>2. /\ \A u \in Threads \ {"bus"} : call'[u] = call[u]
      /\ call'["bus"].event = e
      /\ \/ k = Displays /\ call'["bus"].at = "post"
         \/ call'["bus"].at = "process" /\ call'["bus"].next = k + 1
  <2>1. CASE k = Displays
    <3>1. call' = [call EXCEPT !["bus"].at = "post", !["bus"].next = k]
      BY <2>1 DEF ProcessEvent
    <3> QED
      BY <1>1, <2>1, <3>1 DEF EngineTypeOK
  <2>2. CASE k # Displays
    <3>1. call' = [call EXCEPT !["bus"].at = "process", !["bus"].next = k + 1]
      BY <2>2 DEF ProcessEvent
    <3> QED
      BY <1>1, <2>2, <3>1 DEF EngineTypeOK
  <2> QED
    BY <2>1, <2>2
<1>3. \A d \in Device :
        \/ session'[d] = session[d] /\ (d = k => Ask(e, d) = "none")
        \/ d = k /\ session'[d].pending /\ session'[d].asked = Ask(e, d)
  BY <1>1 DEF ProcessEvent, EngineTypeOK
<1>4. managed \subseteq Device /\ Device \subseteq Nat /\ \A d \in Device : d <= Displays
  BY CompanionAssumption DEF EngineTypeOK, Device
<1>5. ASSUME e \in Darkening, e = "SUSPEND" => status.power, GoneBelow(k)
      PROVE  \A d \in managed : d < k + 1 => Shown(d)' = "off"
  <2>1. \A d \in managed : Ask(e, d) = "off"
    BY <1>5, AskedToGo
  <2> HIDE DEF e, k
  <2>2. TAKE d \in managed
  <2>3. CASE d = k
    BY <1>3, <1>4, <2>1, <2>3 DEF Shown
  <2>4. CASE d # k
    <3>1. Shown(d)' = Shown(d)
      BY <1>1, <1>3, <1>4, <2>4 DEF Shown
    <3>2. d < k + 1 => d < k
      BY <1>1, <1>4, <2>4
    <3> QED
      BY <1>5, <3>1, <3>2 DEF GoneBelow
  <2> QED
    BY <2>3, <2>4
<1>6. ASSUME Stages PROVE Stages'
  <2>1. Held /\ Deaf /\ Asking
    BY <1>1, <1>6 DEF Stages, Told, ToSuspend, ToTell, ToShutdown, Lingering, ToRelease, BusHas
  <2>2. \A d \in managed : d < k + 1 => Shown(d)' = "off"
    BY <1>5, <2>1 DEF Asking
  <2>3. Held' /\ Deaf'
    BY <1>1, <2>1 DEF Held, Deaf
  <2>4. CASE k = Displays /\ call'["bus"].at = "post"
    <3>1. \A d \in managed : d < k + 1
      BY <1>4, <2>4, CompanionAssumption
    <3>2. Lingering'
      BY <1>1, <2>1, <2>2, <2>4, <3>1 DEF Asking, Lingering, Gone
    <3> QED
      BY <2>3, <3>2 DEF Stages
  <2>5. CASE call'["bus"].at = "process" /\ call'["bus"].next = k + 1
    <3>1. Asking'
      BY <1>1, <1>2, <2>1, <2>2, <2>5 DEF Asking, GoneBelow
    <3> QED
      BY <2>3, <3>1 DEF Stages
  <2> QED
    BY <1>2, <2>4, <2>5
<1> QED
  BY <1>1, <1>2, <1>6, NightStep DEF Idle

\* The event is over, or the engine waits for the displays and has waited.
LEMMA PostNight ==
  ASSUME LogindOK, EngineTypeOK, NightInv,
         PostProcess("bus") \/ \E timeUp \in BOOLEAN : EndSettle("bus", timeUp),
         waited' = waited \/ waited' = 0,
         UNCHANGED <<machine, signals, monitor, script, screen, haste>>
  PROVE  NightInv'
<1>1. call["bus"].at \in {"post", "settle"} /\ UNCHANGED <<session, managed>>
  BY DEF PostProcess, EndSettle
<1>2. /\ call'["bus"].at \in {"settle", "idle"}
      /\ \A u \in Threads \ {"bus"} : call'[u] = call[u]
  <2>1. CASE call' = [call EXCEPT !["bus"].at = "settle"]
    BY <2>1, DaemonAssumption DEF EngineTypeOK
  <2>2. CASE call' = [call EXCEPT !["bus"] = NoCall]
    BY <2>2, DaemonAssumption DEF EngineTypeOK, NoCall
  <2> QED
    BY <2>1, <2>2 DEF PostProcess, EndSettle
<1>3. ASSUME Stages PROVE Stages'
  <2>1. Held /\ Deaf /\ Lingering
    BY <1>1, <1>3 DEF Stages, Told, ToSuspend, ToTell, ToShutdown, Asking, ToRelease, BusHas
  <2>2. Lingering'
    BY <1>1, <1>2, <2>1 DEF Lingering, Gone, Shown
  <2> QED
    BY <2>1, <2>2 DEF Stages, Held, Deaf
<1> QED
  BY <1>2, <1>3, NightStep DEF Idle

\* The drain ends with the displays dark, or its time is up.
LEMMA DrainNight ==
  ASSUME LogindOK, EngineTypeOK, Waits, NightInv, Drain
  PROVE  NightInv'
<1>1. /\ call["bus"].at = "idle" /\ script["bus"] # <<>> /\ Head(script["bus"]) = "drain"
      /\ IsBusy => waited >= DrainBudget
      /\ Rest("bus") /\ waited' = 0
      /\ UNCHANGED <<call, session, managed, status, machine, signals, monitor, screen, haste>>
  BY DEF Drain, AtStep, engine
<1>2. /\ script'["bus"] = Tail(script["bus"])
      /\ \A t \in Threads \ {"bus"} : script'[t] = script[t]
  BY <1>1, RestFacts, DaemonAssumption
<1>3. ASSUME Night, ~Tired, Stages PROVE Stages'
  <2>1. Held /\ Deaf /\ Lingering
    BY <1>1, <1>3, ScriptHeads DEF Stages, Told, ToSuspend, ToTell, ToShutdown, Asking,
                                   ToRelease, BusHas
  <2>2. ~IsBusy
    <3>1. waited <= machine.elapsed
      BY <1>3 DEF NightInv
    <3>2. waited \in Nat /\ machine.elapsed \in Nat /\ DrainBudget \in Int
      BY DaemonAssumption DEF Waits, LogindOK, DrainBudget
    <3>3. ~(waited >= DrainBudget)
      BY <1>3, <3>1, <3>2 DEF Tired
    <3> QED
      BY <1>1, <3>3
  <2>3. AllDark
    BY <2>1, <2>2 DEF Lingering, Gone, Shown, AllDark, IsBusy, EngineTypeOK
  <2>4. ToRelease'
    BY <1>1, <1>2, <2>1, <2>3, ScriptHeads DEF Lingering, ToRelease, BusHas, AllDark, Shown
  <2> QED
    BY <1>1, <2>1, <2>4 DEF Stages, Held, Deaf
<1> QED
  BY <1>1, <1>2, <1>3, NightStep DEF Idle

\* The lock is released over dark displays.
LEMMA ReleaseNight ==
  ASSUME LogindOK, NightInv, ReleaseInhibitor
  PROVE  NightInv'
<1>1. /\ call["bus"].at = "idle" /\ script["bus"] # <<>> /\ Head(script["bus"]) = "release"
      /\ monitor'.handled = monitor.handled /\ Rest("bus")
      /\ UNCHANGED <<call, session, managed, machine, signals, waited, screen, haste>>
  BY DEF ReleaseInhibitor, AtStep, engine, LogindOK
<1>2. /\ script'["bus"] = Tail(script["bus"])
      /\ \A t \in Threads \ {"bus"} : script'[t] = script[t]
  BY <1>1, RestFacts, DaemonAssumption
<1>3. ASSUME Stages PROVE Stages'
  <2>1. Deaf /\ ToRelease
    BY <1>1, <1>3, ScriptHeads DEF Stages, Told, ToSuspend, ToTell, ToShutdown, Asking,
                                   Lingering, BusHas
  <2>2. BusHas(<<>>)' /\ AllDark'
    BY <1>1, <1>2, <2>1, ScriptHeads DEF ToRelease, BusHas, AllDark, Shown
  <2> QED
    BY <1>1, <2>1, <2>2 DEF Stages, Deaf
<1> QED
  BY <1>1, <1>2, <1>3, NightStep DEF Idle

\* A session ends, and with it the wait for its display.
LEMMA EndNight ==
  ASSUME LogindOK, EngineTypeOK, ThreadsOK, NightInv, NEW d \in Device,
         Acknowledge(d) \/ GivesUp(d)
  PROVE  NightInv'
<1>1. /\ UNCHANGED <<status, managed, call, machine, signals, monitor, script, waited, haste>>
      /\ \A c \in Device : Shown(c)' = Shown(c)
      /\ \A c \in Device : session'[c].pending => session[c].pending
  BY EndFacts
<1>3. managed \subseteq Device
  BY DEF EngineTypeOK
<1>5. AllDark => AllDark'
  BY <1>1, <1>3 DEF AllDark, Shown
<1>6. (Gone => Gone') /\ (Asking => Asking')
  BY <1>1, <1>3 DEF Gone, Asking, GoneBelow
<1>7. Stages => Stages'
  BY <1>1, <1>5, <1>6 DEF Stages, Held, Deaf, Told, ToSuspend, ToTell, ToShutdown, Lingering,
                          ToRelease, BusHas
<1> QED
  BY <1>1, <1>7, NightStep DEF Idle

\* Time passes for logind as it does for the handler that waits.
LEMMA TickNight ==
  ASSUME LogindOK, Waits, NightInv, Tick
  PROVE  NightInv'
<1>1. /\ call["bus"].at = "settle" \/ (call["bus"].at = "idle" /\ script["bus"] # <<>>
                                        /\ Head(script["bus"]) = "drain")
      /\ waited' = waited + 1 /\ UNCHANGED <<engine, signals, monitor, script, screen, haste>>
      /\ machine' = [machine EXCEPT !.elapsed = IF machine.phase = "going" THEN @ + 1 ELSE @]
  BY DEF Tick, Waiting, AtStep
<1>2. /\ machine'.phase = machine.phase /\ machine'.kind = machine.kind
      /\ machine'.cancelled = machine.cancelled
      /\ machine'.elapsed = IF machine.phase = "going" THEN machine.elapsed + 1
                            ELSE machine.elapsed
      /\ machine.elapsed \in Nat /\ waited \in Nat /\ DrainBudget \in Int
  BY <1>1, DaemonAssumption DEF LogindOK, Waits, DrainBudget
<1>3. (Night' <=> Night) /\ (Tired => Tired')
  BY <1>1, <1>2 DEF Night, Undisturbed, Tired
<1>4. ASSUME Stages PROVE machine.phase = "going" /\ Stages'
  <2>1. Held /\ Deaf /\ Lingering
    BY <1>1, <1>4, ScriptHeads DEF Stages, Told, ToSuspend, ToTell, ToShutdown, Asking,
                                   ToRelease, BusHas
  <2>2. Held' /\ Deaf' /\ Lingering'
    BY <1>1, <1>2, <2>1 DEF Held, Deaf, Lingering, Gone, Shown, engine
  <2> QED
    BY <2>1, <2>2 DEF Stages, Held
<1>5. \A t \in Threads : Idle(t) => Idle(t)'
  BY <1>1 DEF Idle, engine
<1> QED
  BY <1>1, <1>2, <1>3, <1>4, <1>5 DEF NightInv

\* The announcement of the night is acted upon once, and there is no other.
LEMMA HandlersNight ==
  ASSUME LogindOK, SignalsOK, NightInv,
         \/ OnPrepareForSleep \/ OnWakeUp \/ OnPrepareForShutdown
         \/ OnPrepareForShutdownWithMetadata \/ OnCancelled
  PROVE  NightInv'
<1>1. /\ signals # <<>> /\ signals' = Tail(signals) /\ call["bus"].at = "idle"
      /\ script["bus"] = <<>> /\ UNCHANGED <<engine, machine, waited, screen, haste>>
  BY DEF OnPrepareForSleep, OnWakeUp, OnPrepareForShutdown, OnPrepareForShutdownWithMetadata,
         OnCancelled, Signal, Idle
<1>2. /\ Head(signals) = signals[1] /\ signals[1] \in Announcement /\ 1 \in DOMAIN signals
      /\ signals' \in Seq(Announcement)
      /\ \A i \in DOMAIN signals' :
           i + 1 # 1 /\ i + 1 \in DOMAIN signals /\ signals'[i] = signals[i + 1]
  BY <1>1, TailFacts DEF LogindOK
<1>3. "bus" \in Threads /\ UNCHANGED <<call, session, managed, status>>
  BY <1>1, DaemonAssumption DEF engine
<1> SUFFICES ASSUME Night, ~Tired, Stages
             PROVE  Stages' /\ \A t \in Threads \ {"bus"} : Idle(t) => Idle(t)'
  BY <1>1, NightStep
<1>4. /\ Orderly /\ machine.phase # "awake"
      /\ \A i \in DOMAIN signals : /\ signals[i].goingDown /\ signals[i].kind = machine.kind
                                   /\ signals[i].name = "sleep" <=> machine.kind = "sleep"
                                   /\ signals[i].name = "sleep" => i = 1
  BY DEF Night, Undisturbed, Orderly, SignalsOK
<1>5. (Held /\ Told) \/ (Deaf /\ AllDark)
  BY <1>1, ScriptHeads DEF Stages, ToSuspend, ToTell, ToShutdown, Asking, Lingering, ToRelease,
                           BusHas
<1>6. CASE OnPrepareForSleep
  <2>1. signals[1].name = "sleep" /\ Run("bus", SuspendScript) /\ UNCHANGED monitor
    BY <1>2, <1>6 DEF OnPrepareForSleep, Signal
  <2>2. /\ script'["bus"] = SuspendScript
        /\ \A t \in Threads \ {"bus"} : script'[t] = script[t]
    BY <1>3, <2>1, Scripts, RunFacts
  <2>3. machine.kind = "sleep" /\ Held /\ Told
    BY <1>1, <1>2, <1>4, <1>5, <2>1 DEF Deaf
  <2>4. signals' = <<>>
    <3>1. \A i \in DOMAIN signals' : FALSE
      BY <1>2, <1>4, <2>3
    <3> QED
      BY <1>2, <3>1
  <2>5. Held' /\ Deaf' /\ ToSuspend'
    BY <1>1, <1>3, <2>1, <2>2, <2>3, <2>4 DEF Held, Deaf, Told, ToSuspend, BusHas
  <2> QED
    BY <1>3, <2>2, <2>5 DEF Stages, Idle
<1>7. ASSUME NEW kind \in {"poweroff", "unsure"}, Handle(kind), machine.kind # "sleep"
      PROVE  Stages' /\ \A t \in Threads \ {"bus"} : Idle(t) => Idle(t)'
  <2>1. monitor'.handled /\ monitor'.lock = monitor.lock
    BY <1>7 DEF Handle, LogindOK
  <2>2. Deaf'
    BY <1>1, <1>7, <2>1 DEF Deaf
  <2>3. CASE monitor.handled
    <3>1. UNCHANGED script /\ Deaf /\ AllDark
      BY <1>5, <1>7, <2>3 DEF Handle, Told
    <3>2. BusHas(<<>>)' /\ AllDark'
      BY <1>1, <1>3, <3>1 DEF BusHas, AllDark, Shown
    <3> QED
      BY <1>3, <2>2, <3>1, <3>2 DEF Stages, Idle
  <2>4. CASE ~monitor.handled
    <3>1. PICK type \in {"TYPE_SHUTDOWN", "TYPE_UNSURE"} : ScriptOf(kind) = ShutdownScript(type)
      BY <1>7 DEF ScriptOf
    <3>2. Run("bus", ScriptOf(kind)) /\ ScriptOf(kind) \in Seq(Steps)
      BY <1>7, <2>4, Scripts DEF Handle, Kinds
    <3>3. /\ script'["bus"] = ShutdownScript(type)
          /\ \A t \in Threads \ {"bus"} : script'[t] = script[t]
      BY <1>3, <3>1, <3>2, RunFacts
    <3>4. Held
      BY <1>5, <1>7, <2>4 DEF Deaf
    <3>5. Held' /\ ToTell'
      BY <1>1, <1>3, <2>1, <3>3, <3>4 DEF Held, ToTell, BusHas
    <3> QED
      BY <1>3, <2>2, <3>3, <3>5 DEF Stages, Idle
  <2> QED
    BY <2>3, <2>4
<1>8. CASE OnPrepareForShutdown
  <2>1. signals[1].name = "shutdown" /\ Handle("unsure")
    BY <1>2, <1>8 DEF OnPrepareForShutdown, Signal
  <2> QED
    BY <1>2, <1>4, <1>7, <2>1
<1>9. CASE OnPrepareForShutdownWithMetadata
  <2>1. signals[1].name = "metadata" /\ Handle(signals[1].kind)
    BY <1>2, <1>9 DEF OnPrepareForShutdownWithMetadata, Signal
  <2>2. machine.kind = "poweroff" /\ signals[1].kind = "poweroff"
    BY <1>2, <1>4, <2>1 DEF Night
  <2> QED
    BY <1>7, <2>1, <2>2
<1>10. CASE OnWakeUp \/ OnCancelled
  BY <1>2, <1>4, <1>10 DEF OnWakeUp, OnCancelled, Signal
<1> QED
  BY <1>6, <1>8, <1>9, <1>10

\* A daemon at rest that is told to let the displays go dark holds the lock and has them on.
LEMMA RequestNight ==
  ASSUME LogindOK, EngineTypeOK, Waits, Untyped, Powered, NEW kind \in Kinds, Request(kind)
  PROVE  NightInv'
<1>1. /\ machine.phase = "awake" /\ UNCHANGED <<engine, monitor, script, waited>>
      /\ machine' = [machine EXCEPT !.phase = "going", !.kind = kind, !.elapsed = 0]
      /\ signals' = signals \o Announced(kind, TRUE)
      /\ haste' = haste \cup (IF AtRest THEN {} ELSE {"restless"})
                        \cup (IF monitor.lock /\ signals = <<>> THEN {} ELSE {"unheard"})
  BY DEF Request
<1>2. /\ machine'.phase = "going" /\ machine'.elapsed = 0
      /\ machine'.cancelled = machine.cancelled
  BY <1>1 DEF LogindOK
<1> SUFFICES ASSUME Night' PROVE NightInv'
  BY DEF NightInv
<1>3. AtRest /\ monitor.lock /\ signals = <<>>
  BY <1>1 DEF Night
<1>4. \A t \in Threads : call[t].at = "idle" /\ script[t] = <<>>
  BY <1>3 DEF AtRest, Idle
<1>5. Undisturbed /\ Day
  BY <1>1, <1>2, <1>3 DEF Night, Undisturbed, Day
<1>6. status.power /\ status.type = "UNDEFINED" /\ ~monitor.handled
  <2>1. \A t \in Threads : ~Declares(t)
    BY <1>4 DEF Declares
  <2> QED
    BY <1>5, <2>1 DEF Powered, Untyped, Undisturbed, Day
<1>7. signals' # <<>>
  <2>1. PICK a : a = Announced(kind, TRUE)
    OBVIOUS
  <2>2. a \in Seq(Announcement) /\ a # <<>>
    BY <2>1, AnnouncedFacts
  <2>3. signals' = a
    BY <1>1, <1>3, <2>1, <2>2, ConcatEmptySeq
  <2> QED
    BY <2>2, <2>3
<1>8. "bus" \in Threads /\ UNCHANGED <<call, status>>
  BY <1>1, DaemonAssumption DEF engine
<1>9. waited' = 0
  BY <1>1, <1>4, <1>8 DEF Waits
<1>10. Held' /\ Told'
  BY <1>1, <1>2, <1>3, <1>4, <1>6, <1>7, <1>8 DEF Held, Told, BusHas
<1>11. \A t \in Threads : Idle(t)'
  BY <1>1, <1>4, <1>8 DEF Idle
<1> QED
  BY <1>2, <1>9, <1>10, <1>11 DEF NightInv, Stages

\* logind goes ahead without the lock, which was released over dark displays, or once its
\* patience is over, which is longer than the drain.
LEMMA MachineNight ==
  ASSUME LogindOK, NightInv, InhibitDelay > 0, Proceed \/ Wake \/ GoDown \/ Cancel
  PROVE  NightInv'
<1>1. UNCHANGED <<engine, monitor, script, screen, haste>>
  BY DEF Proceed, Wake, GoDown, Cancel
<1>2. UNCHANGED <<call, session, managed, status>>
  BY <1>1 DEF engine
<1>3. CASE Proceed \/ GoDown
  <2>1. /\ machine.phase \in {"going", "stopping"} /\ machine'.kind = machine.kind
        /\ machine'.cancelled = machine.cancelled /\ machine'.elapsed = machine.elapsed
        /\ UNCHANGED <<signals, waited>>
    <3>1. CASE Proceed
      BY <3>1 DEF Proceed, LogindOK
    <3>2. CASE GoDown
      BY <3>2 DEF GoDown, LogindOK
    <3> QED
      BY <1>3, <3>1, <3>2
  <2>2. (Night' => Night) /\ (Tired' <=> Tired)
    BY <1>1, <2>1 DEF Night, Undisturbed, Tired
  <2>3. ASSUME Night, ~Tired, Stages PROVE Stages'
    <3>1. ~Held
      <4>1. CASE Proceed
        <5>1. monitor.lock => machine.elapsed = InhibitDelay
          BY <4>1 DEF Proceed
        <5>2. InhibitDelay >= DrainBudget
          BY DaemonAssumption DEF DrainBudget
        <5> QED
          BY <2>3, <5>1, <5>2 DEF Held, Tired
      <4>2. CASE GoDown
        BY <4>2 DEF GoDown, Held
      <4> QED
        BY <1>3, <4>1, <4>2
    <3>2. Deaf /\ BusHas(<<>>) /\ AllDark
      BY <2>3, <3>1 DEF Stages
    <3> QED
      BY <1>1, <1>2, <2>1, <3>2 DEF Stages, Deaf, BusHas, AllDark, Shown
  <2>4. \A t \in Threads : Idle(t)' <=> Idle(t)
    BY <1>1, <1>2 DEF Idle
  <2> QED
    BY <2>1, <2>2, <2>3, <2>4 DEF NightInv
<1>4. CASE Wake
  BY <1>4 DEF Wake, LogindOK, NightInv, Night
<1>5. CASE Cancel
  BY <1>5 DEF Cancel, LogindOK, NightInv, Night, Undisturbed
<1> QED
  BY <1>3, <1>4, <1>5

\* The displays are dark before the machine goes to sleep or down.
LEMMA NextNight ==
  ASSUME LogindOK, SignalsOK, EngineTypeOK, ThreadsOK, Waits, Untyped, Powered, NightInv,
         InhibitDelay > 0, [Next]_vars
  PROVE  NightInv'
<1>1. CASE UNCHANGED vars
  BY <1>1 DEF vars, world, engine, NightInv, Night, Undisturbed, Tired, Idle, Stages, Held, Told,
     Deaf, ToSuspend, ToTell, ToShutdown, Asking, GoneBelow, Lingering, Gone, Shown, ToRelease,
     AllDark, BusHas
<1>2. ASSUME NEW t \in Threads, ScriptStep(t) PROVE NightInv'
  <2>1. CASE ~(Night /\ ~Tired)
    <3>1. UNCHANGED <<machine, haste>>
      BY <1>2 DEF ScriptStep, TellType, TellEvent, Skip, WakeRaw, Process, world
    <3> QED
      BY <2>1, <3>1 DEF NightInv, Night, Undisturbed, Tired
  <2>2. CASE Night /\ ~Tired
    <3>1. t = "bus"
      BY <1>2, <2>2, BusSteps DEF ScriptStep
    <3>2. ASSUME Process("bus") PROVE NightInv'
      <4>1. CASE ProcessEvent("bus")
        BY <3>2, <4>1, ProcessNight DEF Process
      <4>2. CASE PostProcess("bus")
        BY <3>2, <4>2, PostNight DEF Process, world
      <4> QED
        BY <3>2, <4>1, <4>2 DEF Process
    <3> QED
      BY <1>2, <2>2, <3>1, <3>2, TellTypeNight, TellEventNight, NoOtherSteps DEF ScriptStep
  <2> QED
    BY <2>1, <2>2
<1>3. CASE Settle
  <2>1. /\ EndSettle("bus", waited >= SuspendWait) /\ waited' = 0
        /\ UNCHANGED <<machine, signals, monitor, script, screen, haste>>
    BY <1>3 DEF Settle
  <2>2. EndSettle("bus", TRUE)
    BY <2>1 DEF EndSettle
  <2> QED
    BY <2>1, <2>2, PostNight
<1>4. CASE Report
  <2>1. machine.phase = "awake" /\ UNCHANGED machine
    BY <1>4 DEF Report
  <2> QED
    BY <2>1 DEF NightInv, Night
<1> QED
  BY <1>1, <1>2, <1>3, <1>4, DrainNight, ReleaseNight, EndNight, TickNight,
     HandlersNight, RequestNight, MachineNight DEF Next, System, Monitor, Machine

-----------------------------------------------------------------------------
(* The results.                                                             *)

DaemonInv == LogindOK /\ SignalsOK /\ LockInv /\ DisplayInv /\ AwakeInv /\ DarkInv

\* By day, before the displays were ever told anything, there is nothing to go dark for.
LEMMA StartIsDay ==
  ASSUME Init
  PROVE  AwakeInv /\ DarkInv
<1>1. /\ machine = [phase |-> "awake", kind |-> "sleep", elapsed |-> 0, cancelled |-> FALSE]
      /\ signals = <<>> /\ monitor = [lock |-> TRUE, handled |-> FALSE] /\ user = "busy"
      /\ script = [t \in Threads |-> IF t = "main" THEN Startup ELSE <<>>] /\ waited = 0
      /\ status = InitStatus /\ call = [t \in Threads |-> NoCall]
  BY DEF Init, EngineInit
<1>2. /\ "bus" \in Threads /\ "main" \in Threads /\ script["bus"] = <<>>
      /\ script["main"] = Startup
      /\ \A t \in Threads : call[t].at = "idle" /\ script[t] \in {<<>>, Startup}
  BY <1>1, DaemonAssumption DEF NoCall
<1>3. \A i \in DOMAIN Startup : Startup[i] \notin Kindly \cup Darkening
  BY DEF Startup, Kindly, Darkening
<1>4. \A t \in Threads : ~Darkens(t) /\ ~Suspends(t)
  BY <1>2, <1>3 DEF Darkens, Suspends, Darkening
<1>5. ASSUME Undisturbed PROVE Declares("main") /\ \A d : Lights("main", d)
  <2>1. 2 \in DOMAIN Startup /\ Startup[2] = "DISPLAYON"
    BY <1>5 DEF Undisturbed, Startup
  <2> QED
    BY <1>2, <2>1 DEF Lights, Declares
<1>6. ReportsOK /\ WakesLast
  BY <1>1, <1>2 DEF ReportsOK, WakesLast
<1>7. LitInv
  BY <1>2, <1>4, <1>5 DEF LitInv
<1>8. Waits
  BY <1>1 DEF Waits
<1>9. Untyped
  BY <1>1, <1>2, <1>3 DEF Untyped, InitStatus
<1>10. Powered
  BY <1>2, <1>4, <1>5 DEF Powered
<1>11. NightInv
  BY <1>1 DEF NightInv, Night
<1> QED
  BY <1>6, <1>7, <1>8, <1>9, <1>10, <1>11 DEF AwakeInv, DarkInv

\* The daemon is started while the machine is up: it is to light the displays.
LEMMA DaemonStarts ==
  ASSUME Init
  PROVE  DaemonInv
<1>1. EngineTypeOK
  BY TypesAtStart DEF Init
<1>2. /\ machine = [phase |-> "awake", kind |-> "sleep", elapsed |-> 0, cancelled |-> FALSE]
      /\ signals = <<>> /\ monitor = [lock |-> TRUE, handled |-> FALSE] /\ haste = {}
      /\ script = [t \in Threads |-> IF t = "main" THEN Startup ELSE <<>>]
      /\ screen \in [Device -> {"on", "off"}]
      /\ status = InitStatus /\ topology = Restored(prefs, NoFile)
      /\ call = [t \in Threads |-> NoCall]
  BY DEF Init, EngineInit
<1>3. {"bus", "main"} \subseteq Threads
  BY DaemonAssumption
<1>4. Startup \in Seq(Steps) /\ script["bus"] = <<>> /\ script["main"] = Startup
  BY <1>2, <1>3, Scripts
<1>5. script \in [Threads -> Seq(Steps)]
  BY <1>2, <1>4
<1>6. LogindOK
  BY <1>2, <1>5 DEF LogindOK, Kinds
<1>7. SignalsOK
  BY <1>2 DEF SignalsOK
<1>8. LockInv
  BY <1>2, <1>4 DEF LockInv, ReleaseLast, Ahead
<1>9. \A t \in Threads : ~Darkens(t)
  <2>1. \A i \in DOMAIN Startup : Startup[i] \notin Darkening
    BY DEF Startup, Darkening
  <2>2. \A t \in Threads : call[t].at = "idle" /\ script[t] \in {<<>>, Startup}
    BY <1>2 DEF NoCall
  <2> QED
    BY <2>1, <2>2 DEF Darkens
<1>10. ThreadsOK
  <2>1. ~status.remote /\ ~topology.support
    BY <1>2 DEF InitStatus, Restored, Loaded, NoFile, NoTopology
  <2>2. screen \in [Device -> Asks \cup {"unknown"}]
    BY <1>2 DEF Asks
  <2>3. \A t \in Threads : call[t].event \in Brought /\ call[t].at # "process"
    BY <1>2 DEF NoCall, Brought, SystemEvents
  <2> QED
    BY <1>9, <2>1, <2>2, <2>3 DEF ThreadsOK
<1>11. ASSUME Calm, NEW d PROVE Lights("main", d)
  <2>1. 2 \in DOMAIN Startup /\ Startup[2] = "DISPLAYON"
    BY <1>11 DEF Calm, Undisturbed, Startup
  <2> QED
    BY <1>4, <2>1 DEF Lights
<1>12. ~Rebooting
  BY <1>2 DEF Rebooting
<1>13. DisplayInv
  BY <1>1, <1>3, <1>9, <1>10, <1>11, <1>12 DEF DisplayInv
<1> QED
  BY <1>6, <1>7, <1>8, <1>13, StartIsDay DEF DaemonInv

\* The inductive invariant: the announcements on the bus are those of the last request,
\* the lock is held while there is something to do for it, a display that is to be lit and
\* is not has a thread that lights it, and the monitor's thread is on its way through the
\* night when the displays are to go dark.
THEOREM DaemonIsRight == Spec => []DaemonInv
<1>1. DaemonInv /\ [Next]_vars => DaemonInv'
  <2> SUFFICES ASSUME DaemonInv, [Next]_vars
               PROVE  DaemonInv'
    OBVIOUS
  <2>1. EngineTypeOK /\ ThreadsOK
    BY DEF DaemonInv, DisplayInv
  <2>2. LogindOK' /\ SignalsOK' /\ LockInv' /\ DisplayInv'
    BY NextSignals, NextLock, NextDisplays DEF DaemonInv
  <2>3. AwakeInv'
    BY NextAwake DEF DaemonInv
  <2>4. Waits' /\ Untyped' /\ Powered'
    BY <2>1, NextWaits, NextUntyped, NextPowered DEF DaemonInv, AwakeInv, DarkInv
  <2>5. InhibitDelay > 0 => NightInv'
    BY <2>1, NextNight DEF DaemonInv, DarkInv
  <2> QED
    BY <2>2, <2>3, <2>4, <2>5 DEF DaemonInv, DarkInv
<1> QED
  BY <1>1, DaemonStarts, PTL DEF Spec

\* The handler of a machine that goes down runs while the lock is held (main.cpp, logind.cpp).
THEOREM LockOutlastsHandler == Spec => []HandlerUnderLock
<1>1. DaemonInv => HandlerUnderLock
  BY DEF DaemonInv, LockInv, Heard, HandlerUnderLock
<1> QED
  BY <1>1, DaemonIsRight, PTL

\* A reboot that is told from a shutdown asks no display to go off (main.cpp's kind before
\* its event, and systemEvent).
THEOREM RebootLeavesLit == Spec => []RebootKeepsLit
<1>1. DaemonInv => RebootKeepsLit
  BY DEF DaemonInv, DisplayInv, Calm, Rebooting, RebootKeepsLit
<1> QED
  BY <1>1, DaemonIsRight, PTL

\* A daemon that has nothing left to do after a start or a wake-up has each display on for
\* a user who is there, or asked for it last and its session gave up (main.cpp's resume
\* threads, its start and the control socket).
THEOREM AwakeDisplaysAreLit == Spec => []AwakeIsLit
<1>1. DaemonInv => AwakeIsLit
  <2> SUFFICES ASSUME DaemonInv, Undisturbed, machine.phase = "awake", AtRest, user = "busy",
                      NEW d \in managed
               PROVE  screen[d] = "on" \/ Missed(d, "on")
    BY DEF AwakeIsLit
  <2>1. (\A t \in Threads : call[t].at = "idle" /\ script[t] = <<>>) /\ Day
    BY DEF AtRest, Idle, Day
  <2>2. /\ \A t \in Threads : ~Lights(t, d)
        /\ ~Answers(d)
    BY <2>1, DaemonAssumption DEF Lights, Answers
  <2>3. Shown(d) = "on"
    BY <2>1, <2>2 DEF DaemonInv, AwakeInv, LitInv, Bright
  <2>4. ~session[d].pending
    BY DEF AtRest, IsBusy, DaemonInv, DisplayInv, EngineTypeOK
  <2> QED
    BY <2>3, <2>4 DEF Shown, Missed
<1> QED
  BY <1>1, DaemonIsRight, PTL

\* A machine that sleeps or is off has its displays off, unless the time of the drain was
\* used up or a session gave the power-off up (main.cpp's handler, its drain and the
\* release of the lock). With a delay of zero logind waits for nobody.
THEOREM DarkBeforeSleep == InhibitDelay > 0 => (Spec => []DarkInTime)
<1> SUFFICES ASSUME InhibitDelay > 0
             PROVE  Spec => []DarkInTime
  OBVIOUS
<1>1. DaemonInv => DarkInTime
  <2> SUFFICES ASSUME DaemonInv, Undisturbed, haste = {}, GoneDark, ~Tired
               PROVE  \A d \in managed : screen[d] = "off" \/ Missed(d, "off")
    BY DEF DarkInTime, Tired
  <2>1. Night /\ ~Held
    BY DEF GoneDark, Night, Held, DaemonInv, LogindOK
  <2>2. AllDark
    BY <2>1 DEF DaemonInv, DarkInv, NightInv, Stages
  <2> QED
    BY <2>2 DEF AllDark, Shown, Missed
<1> QED
  BY <1>1, DaemonIsRight, PTL
=============================================================================
