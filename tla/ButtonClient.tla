----------------------------- MODULE ButtonClient -----------------------------
(***************************************************************************)
(* The pointer-input connection of a display, over which virtual buttons    *)
(* are pressed: ButtonClient::Impl of src/src/daemon/button_client.cpp.     *)
(*                                                                         *)
(* The session (WebOsClient) hands it one press after the other, from a     *)
(* strand of its own, and a close when the session itself is closed. Like   *)
(* the session it has a queue, a unit of work in progress, one web socket   *)
(* and a timer for retries. It reads the socket but expects no answers: a   *)
(* press is done once it is written.                                        *)
(*                                                                         *)
(* The members are operators that map a client record to a client record,   *)
(* every completion handler is an action. A timer that is armed may fire at *)
(* any later moment, any operation in progress may fail. A path has always  *)
(* been set when a press arrives (web_os_client.cpp:917), so the return of  *)
(* run() without one is left out.                                           *)
(***************************************************************************)
EXTENDS Integers, Sequences

CONSTANTS
    Devices,      \* the device settings a behaviour may start from
    MaxPresses,   \* bound: presses of a button
    MaxCloses,    \* bound: closes asked for by the session
    MaxFaults,    \* bound: failures of the network and of the display
    MaxDelays,    \* bound: how often a unit may last longer than ten seconds
    Prompt,       \* BOOLEAN: completions run before the network and the timers
    MaxPending    \* bound: operations of one kind in flight

Device == [ssl : BOOLEAN, keepAlive : BOOLEAN]

ASSUME ButtonAssumption ==
    /\ Devices \subseteq Device
    /\ {MaxPresses, MaxCloses, MaxFaults, MaxDelays} \subseteq Nat
    /\ Prompt \in BOOLEAN
    /\ MaxPending \in Nat \ {0}

VARIABLES
    device,   \* device_settings_
    client,   \* the members of ButtonClient::Impl and the operations in flight
    budget    \* how many presses, closes, faults and delays the bounds still allow

vars == <<device, client, budget>>

-----------------------------------------------------------------------------
(* State.                                                                   *)

WorkTypes == {"UNDEFINED", "BUTTON", "CLOSE", "KEEPALIVE"}

\* Presses are numbered in the order of the calls, 0 is no name.
Press == 0 .. MaxPresses

MaxRetries == 2

Unit == [type : WorkTypes \ {"UNDEFINED"}, press : Press]

Work == [type : WorkTypes, press : Press, retry : 0 .. MaxRetries, old : BOOLEAN]

NoWork == [type |-> "UNDEFINED", press |-> 0, retry |-> 0, old |-> FALSE]

Started(u) == [type |-> u.type, press |-> u.press, retry |-> 0, old |-> FALSE]

Handshaking == {"connect", "ssl", "handshake"}

Stages == Handshaking \cup {"fresh", "open", "closing", "closed", "failed"}

Client ==
    [ posted : Seq(Unit),                \* work on its way to the strand
      queue : Seq(Unit), work : Work,
      status : {"DISCONNECTED", "CONNECTING", "CONNECTED"},
      chain : Stages,                    \* the current stream
      reads : 0 .. MaxPending, writes : 0 .. MaxPending, blocked : 0 .. MaxPending,
      closes : 0 .. MaxPending,          \* its operations in flight
      stale : 0 .. MaxPending,           \* aborted operations of destroyed streams
      resolving : 0 .. MaxPending,
      retryTimer : BOOLEAN, abortedRetry : 0 .. MaxPending,   \* async_timer_
      keepAlive : BOOLEAN,               \* keep_alive_timer_
      last : Press ]                     \* ghost: the last press written

InitClient ==
    [ posted |-> <<>>, queue |-> <<>>, work |-> NoWork, status |-> "DISCONNECTED",
      chain |-> "fresh", reads |-> 0, writes |-> 0, blocked |-> 0, closes |-> 0,
      stale |-> 0, resolving |-> 0, retryTimer |-> FALSE, abortedRetry |-> 0,
      keepAlive |-> FALSE, last |-> 0 ]

Capped(n) == IF n < MaxPending THEN n ELSE MaxPending

-----------------------------------------------------------------------------
(* The stream and the timers.                                               *)

\* async_write on the current stream. Behind a close frame it waits for the handshake
\* and then fails. onWinsockHandshake writes a press also when no work is in progress.
Send(c) ==
    [c EXCEPT !.writes = Capped(@ + 1),
              !.blocked = IF c.chain = "closing" THEN Capped(@ + 1) ELSE @,
              !.last = IF c.chain = "open" /\ c.work.press # 0 THEN c.work.press ELSE @]

Read(c) == [c EXCEPT !.reads = Capped(@ + 1)]

InFlight(c) ==
    c.reads + c.writes + c.closes + (IF c.chain \in Handshaking THEN 1 ELSE 0)

\* run(): a new stream takes the place of the old one, whose operations complete with
\* operation_aborted.
Run(c) ==
    [c EXCEPT !.status = "CONNECTING", !.chain = "fresh", !.reads = 0, !.writes = 0,
              !.blocked = 0, !.closes = 0, !.stale = Capped(@ + InFlight(c)),
              !.resolving = Capped(@ + 1)]

\* async_timer_.expires_after() cancels the wait in progress.
ArmRetry(c) ==
    [c EXCEPT !.retryTimer = TRUE,
              !.abortedRetry = IF c.retryTimer THEN Capped(@ + 1) ELSE @]

\* doClose. What is queued is forgotten, whoever asked for it and when.
DoClose(c) ==
    LET d == [c EXCEPT !.queue = <<>>, !.work = NoWork]
    IN IF c.status = "DISCONNECTED" THEN d
       ELSE [d EXCEPT !.closes = Capped(@ + 1),
                      !.chain = IF @ = "open" THEN "closing" ELSE @]

-----------------------------------------------------------------------------
(* The work queue.                                                          *)

\* A keep-alive that finds no connection is finished on the spot.
Instant(c, u) == u.type = "KEEPALIVE" /\ c.status # "CONNECTED"

Skip(c) ==
    LET stops == {k \in 0 .. Len(c.queue) :
                    k < Len(c.queue) => ~Instant(c, c.queue[k + 1])}
    IN CHOOSE k \in stops : \A j \in stops : k <= j

Begin(c) ==
    IF c.work.type = "CLOSE" THEN DoClose(c)
    ELSE IF c.status = "CONNECTED" THEN Send(c)
    ELSE Run(c)

Dispatch(c) ==
    LET k == Skip(c)
    IN IF c.status = "CONNECTING" THEN DoClose(c)
       ELSE IF k = Len(c.queue)
            THEN [c EXCEPT !.queue = <<>>,
                           !.keepAlive = c.status = "CONNECTED" /\ device.keepAlive]
            ELSE Begin([c EXCEPT !.work = Started(c.queue[k + 1]),
                                 !.queue = SubSeq(@, k + 2, Len(c.queue))])

\* startNextWork: work older than ten seconds is given up.
StartNextWork(c) ==
    IF c.work.type # "UNDEFINED" /\ ~c.work.old THEN c
    ELSE Dispatch([c EXCEPT !.work = NoWork, !.keepAlive = FALSE])

\* Mutant: the next unit waits for the next call.
FinishOnly(c) == [c EXCEPT !.work = NoWork]

Finish(c) == StartNextWork([c EXCEPT !.work = NoWork])

\* Mutant: the newest unit goes first.
EnqueueFirst(c, u) == StartNextWork([c EXCEPT !.queue = <<u>> \o @])

Enqueue(c, u) == StartNextWork([c EXCEPT !.queue = Append(@, u)])

-----------------------------------------------------------------------------
(* onError: retry the press in progress, or give it up.                     *)

MayRetry(c) == c.work.retry < MaxRetries

OnError(c) ==
    CASE c.work.type = "BUTTON" ->
           IF c.status = "DISCONNECTED" THEN Finish(c)
           ELSE IF MayRetry(c) THEN ArmRetry(c)
           ELSE Finish([c EXCEPT !.status = "DISCONNECTED"])
      [] c.work.type = "KEEPALIVE" -> Finish([c EXCEPT !.status = "DISCONNECTED"])
      [] OTHER -> [c EXCEPT !.status = "DISCONNECTED"]

-----------------------------------------------------------------------------
(* The ordinary schedule: a completion that waits for nothing but a thread   *)
(* of the pool runs before the network moves or a timer expires.             *)

\* The operations of a stream that is no longer open fail at once.
Failing(c) ==
    \/ c.chain \in {"closed", "failed"} /\ c.reads + c.writes > 0
    \/ c.chain # "closing" /\ c.closes > 0

Ready(c) ==
    \/ Failing(c)
    \/ c.resolving + c.stale + c.abortedRetry > 0
    \/ c.posted # <<>>

Undisturbed == Prompt => ~Ready(client)

-----------------------------------------------------------------------------
(* The handlers.                                                            *)

Init == /\ device \in Devices
        /\ client = InitClient
        /\ budget = [presses |-> MaxPresses, closes |-> MaxCloses, faults |-> MaxFaults,
                     delays |-> MaxDelays]

Spend(kind) == budget[kind] > 0 /\ budget' = [budget EXCEPT ![kind] = @ - 1]

Fault(new) == IF new THEN Spend("faults") ELSE UNCHANGED budget

Pressed == MaxPresses - budget.presses

Post(type, press) ==
    client' = [client EXCEPT !.posted = Append(@, [type |-> type, press |-> press])]

\* The session presses a button: over the connection it believes to exist, or after it
\* asked the display for a new path. Its view of the connection may be stale.
SendButton ==
    /\ Spend("presses")
    /\ Post("BUTTON", Pressed + 1)
    /\ UNCHANGED device

\* onClose of the session.
Close ==
    /\ Spend("closes")
    /\ Post("CLOSE", 0)
    /\ UNCHANGED device

\* What enqueueWork dispatched reaches the strand.
EnqueueWork ==
    /\ client.posted # <<>>
    /\ client' = Enqueue([client EXCEPT !.posted = Tail(@)], Head(client.posted))
    /\ UNCHANGED <<device, budget>>

OnResolve ==
    /\ client.resolving > 0
    /\ LET c == [client EXCEPT !.resolving = @ - 1]
       IN \/ Spend("faults") /\ client' = OnError(c)
          \/ /\ client' = [c EXCEPT !.status = "CONNECTING", !.chain = "connect",
                             !.stale = IF c.chain \in Handshaking THEN Capped(@ + 1) ELSE @]
             /\ UNCHANGED budget
    /\ UNCHANGED device

\* onConnect and onSSLhandshake: on to the next stage.
OnStage ==
    /\ Undisturbed
    /\ client.chain \in {"connect", "ssl"}
    /\ client' = [client EXCEPT !.status = "CONNECTING",
                    !.chain = IF @ = "connect" /\ device.ssl THEN "ssl" ELSE "handshake"]
    /\ UNCHANGED <<device, budget>>

\* Mutant: the connection is made and the press forgotten.
OnWinsockHandshakeReads ==
    /\ Undisturbed
    /\ client.chain = "handshake"
    /\ client' = Read([client EXCEPT !.status = "CONNECTED", !.chain = "open"])
    /\ UNCHANGED <<device, budget>>

\* onWinsockHandshake writes the press the connection was made for, and reads.
OnWinsockHandshake ==
    /\ Undisturbed
    /\ client.chain = "handshake"
    /\ client' = Read(Send([client EXCEPT !.status = "CONNECTED", !.chain = "open"]))
    /\ UNCHANGED <<device, budget>>

OnStageFailed ==
    /\ Undisturbed
    /\ client.chain \in Handshaking
    /\ Spend("faults")
    /\ client' = OnError([client EXCEPT !.chain = "failed"])
    /\ UNCHANGED device

\* Mutant: every write is followed by a read of its own.
OnWriteReads ==
    /\ Undisturbed
    /\ client.chain \in {"open", "closing"}
    /\ client.writes > client.blocked
    /\ client' = Read(Finish([client EXCEPT !.writes = @ - 1]))
    /\ UNCHANGED <<device, budget>>

OnWrite ==
    /\ Undisturbed
    /\ client.chain \in {"open", "closing"}
    /\ client.writes > client.blocked
    /\ LET c == [client EXCEPT !.writes = @ - 1]
       IN client' = IF c.status = "CONNECTING" THEN Read(c) ELSE Finish(c)
    /\ UNCHANGED <<device, budget>>

\* The display answers a ping or a press; nobody looks at what it says.
OnRead ==
    /\ Undisturbed
    /\ client.chain \in {"open", "closing"}
    /\ client.reads > 0
    /\ client' = [client EXCEPT !.status = "CONNECTED"]
    /\ UNCHANGED <<device, budget>>

OnReadFailed ==
    /\ Failing(client) \/ Undisturbed
    /\ client.reads > 0
    /\ Fault(client.chain = "open")
    /\ client' = OnError([client EXCEPT !.reads = @ - 1,
                            !.chain = IF @ = "open" THEN "failed" ELSE @])
    /\ UNCHANGED device

OnWriteFailed ==
    /\ Failing(client) \/ Undisturbed
    /\ client.writes > 0
    /\ client.chain = "closing" => client.writes > client.blocked
    /\ Fault(client.chain \in {"open", "closing"})
    /\ client' = OnError([client EXCEPT !.writes = @ - 1,
                            !.blocked = IF client.writes > @ THEN @ ELSE @ - 1,
                            !.chain = IF @ \in {"open", "closing"} THEN "failed" ELSE @])
    /\ UNCHANGED device

OnClose ==
    /\ Undisturbed
    /\ client.chain = "closing"
    /\ client.closes > 0
    /\ client.writes = client.blocked
    /\ client' = [client EXCEPT !.closes = @ - 1, !.chain = "closed",
                                !.status = "DISCONNECTED"]
    /\ UNCHANGED <<device, budget>>

\* The close handshake timed out, or there was no open connection to close.
OnCloseFailed ==
    /\ Failing(client) \/ Undisturbed
    /\ client.closes > 0
    /\ Fault(client.chain = "closing")
    /\ client' = OnError([client EXCEPT !.closes = @ - 1,
                            !.chain = IF @ = "closing" THEN "failed" ELSE @])
    /\ UNCHANGED device

\* An operation of a destroyed stream completes with operation_aborted.
OnAborted ==
    /\ client.stale > 0
    /\ client' = OnError([client EXCEPT !.stale = @ - 1])
    /\ UNCHANGED <<device, budget>>

OnRetryConnection ==
    /\ Undisturbed
    /\ client.retryTimer
    /\ client' = Run([client EXCEPT !.retryTimer = FALSE, !.work.retry = @ + 1])
    /\ UNCHANGED <<device, budget>>

OnRetryAborted ==
    /\ client.abortedRetry > 0
    /\ client' = OnError([client EXCEPT !.abortedRetry = @ - 1])
    /\ UNCHANGED <<device, budget>>

OnKeepAlive ==
    /\ Undisturbed
    /\ client.keepAlive
    /\ LET c == [client EXCEPT !.keepAlive = FALSE]
       IN client' = IF c.status = "CONNECTED" /\ c.work.type = "UNDEFINED"
                    THEN [c EXCEPT !.posted = Append(@, [type |-> "KEEPALIVE", press |-> 0])]
                    ELSE c
    /\ UNCHANGED <<device, budget>>

\* time(0) moves on.
WorkAges ==
    /\ Undisturbed
    /\ client.work.type # "UNDEFINED" /\ ~client.work.old
    /\ client' = [client EXCEPT !.work.old = TRUE]
    /\ Spend("delays")
    /\ UNCHANGED device

Calls == SendButton \/ Close

Network ==
    \/ OnStage \/ OnStageFailed \/ OnWinsockHandshake \/ OnWrite \/ OnWriteFailed
    \/ OnRead \/ OnReadFailed \/ OnClose \/ OnCloseFailed

Posted == EnqueueWork \/ OnResolve \/ OnAborted \/ OnRetryAborted

Expiries == OnRetryConnection \/ OnKeepAlive

Next == Calls \/ Network \/ Posted \/ Expiries \/ WorkAges

Spec == Init /\ [][Next]_vars

FailAtOnce ==
    /\ Failing(client)
    /\ OnReadFailed \/ OnWriteFailed \/ OnCloseFailed

\* The pool takes every completion, the display and the network answer, and a timer
\* that stays armed expires.
LiveSpec ==
    /\ Spec
    /\ WF_vars(EnqueueWork) /\ WF_vars(OnResolve) /\ WF_vars(OnAborted)
    /\ WF_vars(OnRetryAborted) /\ WF_vars(FailAtOnce)
    /\ WF_vars(OnStage) /\ WF_vars(OnWinsockHandshake) /\ WF_vars(OnWrite)
    /\ WF_vars(OnClose) /\ WF_vars(OnRetryConnection)

-----------------------------------------------------------------------------
(* Properties.                                                              *)

\* The members have their types; a retry beyond the second would leave them.
TypeOK ==
    /\ device \in Devices
    /\ client \in Client
    /\ budget \in [presses : 0 .. MaxPresses, closes : 0 .. MaxCloses,
                   faults : 0 .. MaxFaults, delays : 0 .. MaxDelays]

\* A press that is in progress or queued is waited for by something: a handshake, an
\* operation in flight, a timer, a completion. No path through startNextWork, onError
\* and doClose forgets to start the next one.
NoStrandedPress ==
    client.work.type # "UNDEFINED" \/ client.queue # <<>> =>
      \/ client.posted # <<>>
      \/ client.chain \in Handshaking
      \/ client.reads + client.writes + client.closes + client.resolving
           + client.stale + client.abortedRetry > 0
      \/ client.retryTimer

\* One async_read at a time: onWinsockHandshake, onWrite and onRead all start one, and
\* the stream takes no second.
OneReader == client.reads <= 1

\* The display receives the presses in the order in which they were made, whatever is
\* retried, given up or closed in between.
PressesInOrder == [][client'.last >= client.last]_client

\* With no failure, no close and no work that outlasts its ten seconds, every press
\* reaches the display.
PressesArrive ==
    [](/\ budget.faults = MaxFaults
       /\ budget.closes = MaxCloses
       /\ budget.delays = MaxDelays)
      => \A p \in 1 .. MaxPresses : [](Pressed >= p => <>(client.last >= p))
================================================================================
