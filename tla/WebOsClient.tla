----------------------------- MODULE WebOsClient -----------------------------
(***************************************************************************)
(* The webOS session of one display: WebOsClient::Impl of                  *)
(* src/src/daemon/web_os_client.cpp.                                       *)
(*                                                                         *)
(* A session owns a list of work units, at most one unit in progress, one  *)
(* web socket stream and a handful of timers. Every completion handler of  *)
(* the program is one action of this module. A handler calls other members *)
(* of the class before it returns (onRead calls workIsFinished, which      *)
(* calls startNextWork, which may call doClose or run ...), so the members *)
(* are operators that map a client record to a client record, and an       *)
(* action is the composition its handler performs.                         *)
(*                                                                         *)
(* Time is what the code compares it with: a unit is "fresh", then         *)
(* "expired" (a power-on older than the device's timeout), then            *)
(* "lingering"; the last unit of work finished less than two seconds ago   *)
(* or it did not; an armed timer may fire at any later moment. The display *)
(* and the network are the environment: any operation in progress may      *)
(* fail, any request may get any answer the code distinguishes.            *)
(***************************************************************************)
EXTENDS Integers, Sequences

CONSTANTS
    Devices,          \* the device settings a behaviour may start from
    Commands,         \* what the public API is asked for: [type, forced]
    PowerOnRetries,   \* extra.timeout / (TIMER_RETRY_WAIT / 1000)
    MaxCalls,         \* bound: calls of the public API
    MaxFaults,        \* bound: failures of the network and of the display
    MaxDelays,        \* bound: how often a unit may outlast one of its deadlines
    Prompt,           \* BOOLEAN: completions run before the network and the timers
    MaxPending        \* bound: operations of one kind in flight, unanswered requests

WorkTypes == {"UNDEFINED", "POWER_ON", "POWER_OFF", "BLANK_SCREEN", "REQUEST",
              "REQUEST_DELAYED", "BUTTON", "CLOSE", "KEEPALIVE"}
Power == {"POWER_ON", "POWER_OFF"}

Device == [enabled : BOOLEAN, persistence : {"OFF", "ON", "KEEPALIVE"},
            mute : BOOLEAN, checkHdmi : BOOLEAN, ssl : BOOLEAN, paired : BOOLEAN]
Command == [type : WorkTypes \ {"UNDEFINED"}, forced : BOOLEAN]

ASSUME ClientAssumption ==
    /\ Devices \subseteq Device
    /\ Commands \subseteq Command
    /\ PowerOnRetries \in Nat \ {0}
    /\ MaxCalls \in Nat
    /\ MaxFaults \in Nat
    /\ MaxDelays \in Nat
    /\ Prompt \in BOOLEAN
    /\ MaxPending \in Nat \ {0}

VARIABLES
    device,   \* device_settings_
    client,   \* the members of WebOsClient::Impl and the operations in flight
    budget    \* how many calls and faults the bounds still allow

vars == <<device, client, budget>>

-----------------------------------------------------------------------------
(* Work units. A cleared unit has timestamp_start_ = 0, so by the clock it  *)
(* is always "lingering".                                                   *)

NoWork == [type |-> "UNDEFINED", forced |-> FALSE, retry |-> 0, age |-> "lingering"]

Started(u) == [type |-> u.type, forced |-> u.forced, retry |-> 0, age |-> "fresh"]

MaxRetries == IF PowerOnRetries > 2 THEN PowerOnRetries ELSE 2

Work == [type : WorkTypes, forced : BOOLEAN, retry : 0 .. MaxRetries,
         age : {"fresh", "expired", "lingering"}]

Requests == {"register", "getPowerState", "getForegroundApp", "powerToggle",
             "unblankScreen", "blankScreen", "mute", "unmute", "getAudioStatus",
             "request", "closeLunaAlert", "getButtonSocket"}

Stages == {"fresh", "connect", "ssl", "handshake", "open", "closing", "closed", "failed"}

Client ==
    [ queue : Seq(Command), work : Work,
      intent : Power \cup {"NONE"},      \* ghost: the last power command accepted
      fate : {"none", "pending", "done", "declined", "aborted", "gaveup",
              "lingered", "closed", "dropped", "replaced"}, \* ghost: what became of it
      status : {"DISCONNECTED", "CONNECTING", "CONNECTED"},
      poweredOn : BOOLEAN, key : BOOLEAN, buttonUp : BOOLEAN,
      chain : Stages,                    \* the current stream
      reads : 0 .. MaxPending, writes : 0 .. MaxPending, blocked : 0 .. MaxPending,
      closes : 0 .. MaxPending,          \* its operations in flight
      wire : Seq(Requests),              \* requests of this stream not answered yet
      stale : 0 .. MaxPending,           \* aborted operations of destroyed streams
      resolving : 0 .. MaxPending,
      timer : {"idle", "retry", "poll"}, \* async_timer_, by the handler it waits for
      delayed : BOOLEAN,                 \* delayed_request_timer_
      cancelled : 0 .. MaxPending,       \* waits for these two that were cancelled
      closeTimer : BOOLEAN,              \* delayed_close_timer_
      keepAlive : BOOLEAN, keepAlivePosted : BOOLEAN,       \* keep_alive_timer_
      wol : BOOLEAN ]                    \* wol_timer_

InitClient ==
    [ queue |-> <<>>, work |-> NoWork, intent |-> "NONE", fate |-> "none",
      status |-> "DISCONNECTED", poweredOn |-> FALSE,
      key |-> FALSE, buttonUp |-> FALSE, chain |-> "fresh", reads |-> 0,
      writes |-> 0, blocked |-> 0, closes |-> 0, wire |-> <<>>, stale |-> 0,
      resolving |-> 0, timer |-> "idle",
      delayed |-> FALSE, cancelled |-> 0, closeTimer |-> FALSE,
      keepAlive |-> FALSE, keepAlivePosted |-> FALSE, wol |-> FALSE ]

Capped(n) == IF n < MaxPending THEN n ELSE MaxPending

(* std::list::remove_if: the units of q whose type is not in T, in order.    *)
Without(q, T) ==
    LET kept[i \in 0 .. Len(q)] ==
          IF i = 0 THEN <<>>
          ELSE IF q[i].type \in T THEN kept[i - 1] ELSE Append(kept[i - 1], q[i])
    IN kept[Len(q)]

-----------------------------------------------------------------------------
(* The stream and the timers.                                               *)

\* async_write on the current stream. Only an open stream takes the request to the
\* display; behind a close frame the write waits for the handshake and then fails.
\* A request beyond MaxPending unanswered ones is one the display never answers.
Send(c, r) ==
    [c EXCEPT !.writes = Capped(@ + 1),
              !.blocked = IF c.chain = "closing" THEN Capped(@ + 1) ELSE @,
              !.wire = IF c.chain = "open" /\ Len(@) < MaxPending THEN Append(@, r) ELSE @]

Read(c) == [c EXCEPT !.reads = Capped(@ + 1)]

\* Operations in flight on the stream that run() destroys.
InFlight(c) ==
    c.reads + c.writes + c.closes
      + (IF c.chain \in {"connect", "ssl", "handshake"} THEN 1 ELSE 0)

\* run(): a new stream takes the place of the old one, whose operations complete
\* with operation_aborted.
Run(c) ==
    [c EXCEPT !.status = "CONNECTING", !.chain = "fresh", !.wire = <<>>,
              !.reads = 0, !.writes = 0, !.blocked = 0, !.closes = 0,
              !.stale = Capped(@ + InFlight(c)), !.resolving = Capped(@ + 1)]

\* Mutant: the wait is cancelled, and no other one begins.
ArmTimerCancels(c, handler) ==
    [c EXCEPT !.timer = "idle",
              !.cancelled = IF c.timer # "idle" THEN Capped(@ + 1) ELSE @]

\* async_timer_.expires_after() cancels the wait in progress, whose handler is then
\* called with operation_aborted.
ArmTimer(c, handler) ==
    [c EXCEPT !.timer = handler,
              !.cancelled = IF c.timer # "idle" THEN Capped(@ + 1) ELSE @]

ArmDelayed(c) ==
    [c EXCEPT !.delayed = TRUE,
              !.cancelled = IF c.delayed THEN Capped(@ + 1) ELSE @]

\* runWOL(): an open UDP socket means that the wake loop is running, its timer armed.
RunWOL(c) == [c EXCEPT !.wol = TRUE]

StartClose(c) ==
    IF c.status = "DISCONNECTED" THEN c
    ELSE [c EXCEPT !.closes = Capped(@ + 1),
                   !.chain = IF @ = "open" THEN "closing" ELSE @]

-----------------------------------------------------------------------------
(* The work queue.                                                          *)

\* Ghost: a power command in progress or queued gets its outcome.
Settle(c, outcome) ==
    IF c.fate = "pending" /\ c.work.type = c.intent THEN [c EXCEPT !.fate = outcome] ELSE c

\* Mutant: only the queue is cleared.
DiscardQueue(c, outcome) ==
    [c EXCEPT !.queue = <<>>, !.fate = IF @ = "pending" THEN outcome ELSE @]

Discard(c, outcome) ==
    [c EXCEPT !.queue = <<>>, !.work = NoWork,
              !.fate = IF @ = "pending" THEN outcome ELSE @]

DoClose(c, outcome) == StartClose(Discard(c, outcome))

\* Units that startNextWork finishes on the spot.
Instant(c, u) ==
    \/ u.type = "KEEPALIVE" /\ c.status # "CONNECTED"
    \/ u.type = "BUTTON" /\ c.buttonUp

\* How many units startNextWork and workIsFinished run through at once.
Skip(c) ==
    LET stops == {k \in 0 .. Len(c.queue) :
                    k < Len(c.queue) => ~Instant(c, c.queue[k + 1])}
    IN CHOOSE k \in stops : \A j \in stops : k <= j

FirstRequest(type) ==
    CASE type = "REQUEST" -> "request"
      [] type = "BUTTON" -> "getButtonSocket"
      [] OTHER -> "getPowerState"

\* Contact the display for the unit in progress: over the open connection or a new one.
Contact(c) == IF c.status = "CONNECTED" THEN Send(c, FirstRequest(c.work.type)) ELSE Run(c)

BeginPowerOn(c) == RunWOL(Contact(c))

\* The switch of startNextWork over the unit just taken from the queue.
Begin(c) ==
    CASE c.work.type = "REQUEST_DELAYED" -> ArmDelayed(c)
      [] c.work.type = "CLOSE" -> DoClose(c, "closed")
      [] c.work.type = "POWER_ON" -> BeginPowerOn(c)
      [] OTHER -> Contact(c)

\* Mutant: the connection is closed only for a display that is off.
RestConnected(c) ==
    IF device.enabled /\ ~c.poweredOn THEN DoClose(c, "dropped") ELSE c

\* The branch of startNextWork for an empty queue.
Rest(c) ==
    IF device.enabled /\ c.status = "CONNECTED" /\ c.poweredOn
    THEN CASE device.persistence = "ON" -> c
           [] device.persistence = "KEEPALIVE" -> [c EXCEPT !.keepAlive = TRUE]
           [] OTHER -> [c EXCEPT !.closeTimer = TRUE]
    ELSE IF device.enabled /\ ~c.poweredOn THEN DoClose(c, "dropped")
    ELSE [c EXCEPT !.closeTimer = TRUE]

Dispatch(c) ==
    LET k == Skip(c)
    IN IF c.status = "CONNECTING" THEN DoClose(c, "dropped")
       ELSE IF k = Len(c.queue) THEN Rest([c EXCEPT !.queue = <<>>])
       ELSE Begin([c EXCEPT !.work = Started(c.queue[k + 1]),
                            !.queue = SubSeq(@, k + 2, Len(c.queue))])

StartNextWork(c) ==
    IF c.work.age # "lingering" THEN c
    ELSE Dispatch([Settle(c, "lingered") EXCEPT !.work = NoWork, !.keepAlive = FALSE])

\* Mutant: the next unit waits for the next call.
FinishOnly(c, outcome) == [Settle(c, outcome) EXCEPT !.work = NoWork]

Finish(c, outcome) ==
    StartNextWork([Settle(c, outcome) EXCEPT !.work = NoWork])

\* The queued units that a unit takes the place of.
Superseded(u) ==
    CASE u.type \in Power -> Power
      [] u.type = "REQUEST_DELAYED" -> {"REQUEST_DELAYED"}
      [] OTHER -> {}

\* A unit of the type in progress is discarded.
\* Mutant: a power command in progress discards the opposite one too.
InProgressAnyPower(c, u) ==
    \/ u.type \in Power /\ c.work.type \in Power
    \/ u.type = "REQUEST_DELAYED" /\ c.work.type = u.type

InProgress(c, u) == u.type \in Power \cup {"REQUEST_DELAYED"} /\ c.work.type = u.type

\* Mutant: the newest unit goes first.
PushFront(c, u) == [c EXCEPT !.queue = <<u>> \o Without(@, Superseded(u))]

Push(c, u) == [c EXCEPT !.queue = Append(Without(@, Superseded(u)), u)]

\* enqueueWork. A power command empties the queue of its like even when it is itself
\* discarded, a delayed request does not.
Enqueue(c, u) ==
    LET d == IF u.type \in Power
             THEN [c EXCEPT !.intent = u.type, !.fate = "pending"] ELSE c
    IN IF ~InProgress(c, u) THEN StartNextWork(Push(d, u))
       ELSE IF u.type \in Power THEN [d EXCEPT !.queue = Without(@, Power)]
       ELSE d

-----------------------------------------------------------------------------
(* onError: retry the unit in progress, or give it up.                      *)

RetryLimit(type) == IF type = "POWER_ON" THEN PowerOnRetries ELSE 2

\* Mutant: the attempts are not counted.
MayRetryForever(c) ==
    c.work.type = "POWER_ON" /\ c.status = "CONNECTING" => c.work.age = "fresh"

\* Mutant: one attempt too many.
MayRetryOnceMore(c) ==
    /\ c.work.retry <= RetryLimit(c.work.type)
    /\ c.work.type = "POWER_ON" /\ c.status = "CONNECTING" => c.work.age = "fresh"

MayRetry(c) ==
    /\ c.work.retry < RetryLimit(c.work.type)
    /\ c.work.type = "POWER_ON" /\ c.status = "CONNECTING" => c.work.age = "fresh"

OnError(c) ==
    CASE c.work.type \in {"POWER_ON", "POWER_OFF", "BLANK_SCREEN", "REQUEST", "BUTTON"} ->
           IF c.status = "DISCONNECTED" THEN Finish(c, "aborted")
           ELSE IF MayRetry(c) THEN ArmTimer(c, "retry")
           ELSE Finish([c EXCEPT !.status = "DISCONNECTED"], "gaveup")
      [] c.work.type = "KEEPALIVE" -> Finish([c EXCEPT !.status = "DISCONNECTED"], "aborted")
      [] OTHER -> [c EXCEPT !.status = "DISCONNECTED"]

-----------------------------------------------------------------------------
(* onRead: the conversation with the display.                               *)

PowerStates == {"Active", "Processing", "Screen Off", "Active Standby", "Other"}

Answers(r) ==
    CASE r = "getPowerState" -> PowerStates
      [] r = "getForegroundApp" -> {"our input", "other app"}
      [] r = "getAudioStatus" -> {"ok", "muted"}
      [] r = "request" -> {"ok", "alert"}
      [] r \in {"unblankScreen", "blankScreen", "getButtonSocket"} -> {"ok", "refused"}
      [] r = "register" -> {"registered", "unregistered"}
      [] OTHER -> {"ok"}

\* What the unit in progress does next on answer a to request r: the next request,
\* "poll", or the outcome that ends the unit ("on" and "off" note the power state).
PowerOnStep(r, a) ==
    CASE r = "getPowerState" ->
           CASE a = "Active" -> IF device.mute THEN "getAudioStatus" ELSE "on"
             [] a = "Screen Off" -> "unblankScreen"
             [] a = "Active Standby" -> "powerToggle"
             [] OTHER -> "poll"
      [] r = "unblankScreen" -> IF device.mute /\ a = "ok" THEN "getAudioStatus" ELSE "on"
      [] r = "powerToggle" -> "poll"
      [] r = "unmute" -> "on"
      [] r = "getAudioStatus" -> IF a = "muted" THEN "unmute" ELSE "on"
      [] OTHER -> "aborted"

PowerOffStep(u, r, a) ==
    CASE r = "getPowerState" ->
           IF a \notin {"Active", "Processing", "Screen Off"} THEN "off"
           ELSE IF device.checkHdmi /\ ~u.forced THEN "getForegroundApp" ELSE "powerToggle"
      [] r = "getForegroundApp" -> IF a = "our input" THEN "powerToggle" ELSE "declined"
      [] r = "powerToggle" -> "off"
      [] OTHER -> "aborted"

BlankStep(u, r, a) ==
    CASE r = "getPowerState" ->
           IF a \notin {"Active", "Processing"} THEN "done"
           ELSE IF device.checkHdmi /\ ~u.forced THEN "getForegroundApp" ELSE "blankScreen"
      [] r = "getForegroundApp" -> IF a = "our input" THEN "blankScreen" ELSE "declined"
      [] r = "blankScreen" -> IF device.mute /\ a = "ok" THEN "mute" ELSE "done"
      [] r = "mute" -> "done"
      [] OTHER -> "aborted"

Step(u, r, a) ==
    CASE u.type = "POWER_ON" -> PowerOnStep(r, a)
      [] u.type = "POWER_OFF" -> PowerOffStep(u, r, a)
      [] u.type = "BLANK_SCREEN" -> BlankStep(u, r, a)
      [] u.type = "REQUEST" ->
           IF r = "request" THEN (IF a = "alert" THEN "closeLunaAlert" ELSE "done")
           ELSE IF r = "closeLunaAlert" THEN "done" ELSE "aborted"
      [] u.type = "BUTTON" -> IF r = "getButtonSocket" THEN "button" ELSE "aborted"
      [] u.type = "KEEPALIVE" -> IF r = "getPowerState" THEN "done" ELSE "aborted"
      [] OTHER -> "nothing"

\* Mutant: the power state is not noted.
ConcludeUnnoted(c, on) == Finish(c, "done")

Conclude(c, on) == Finish([c EXCEPT !.poweredOn = on], "done")

Respond(c, r, a) ==
    LET s == Step(c.work, r, a)
    IN CASE s \in Requests -> Send(c, s)
         [] s = "poll" -> ArmTimer(c, "poll")
         [] s = "on" -> Conclude(c, TRUE)
         [] s = "off" -> Conclude(c, FALSE)
         [] s = "button" -> Finish([c EXCEPT !.buttonUp = @ \/ a = "ok"], "done")
         [] s = "nothing" -> c
         [] OTHER -> Finish(c, s)

\* The answer to the webOS handshake. The pairing key is a new one when there was
\* none, and then the display is also asked to enable wake-on-LAN.
Registered(c) ==
    LET d == IF c.key THEN c
             ELSE Enqueue([c EXCEPT !.key = TRUE], [type |-> "REQUEST", forced |-> FALSE])
    IN IF d.work.type \in {"POWER_ON", "POWER_OFF", "BLANK_SCREEN", "KEEPALIVE",
                           "REQUEST", "BUTTON"}
       THEN Send(d, FirstRequest(d.work.type))
       ELSE Finish(d, "aborted")

\* While the display prompts its user the handshake stays unanswered; a refused key
\* is forgotten and the handshake repeated.
Unregistered(c) ==
    IF c.key THEN Send([c EXCEPT !.key = FALSE], "register")
    ELSE [c EXCEPT !.wire = <<"register">> \o @]

\* Invalid JSON, an error response and a message of another type end the unit.
Reject(c, r) ==
    IF c.work.type = "POWER_ON" /\ r = "unblankScreen"
    THEN Conclude(c, TRUE) ELSE Finish(c, "aborted")

OnRead(c, a) ==
    LET r == Head(c.wire)
        d == [c EXCEPT !.status = "CONNECTED", !.wire = Tail(@)]
    IN CASE a = "error" -> Reject(d, r)
         [] a = "garbage" -> Finish(d, "aborted")
         [] a = "registered" -> Registered(d)
         [] a = "unregistered" -> Unregistered(d)
         [] OTHER -> Respond(d, r, a)

-----------------------------------------------------------------------------
(* The ordinary schedule, for the properties that depend on it. A completion  *)
(* that waits for nothing but a thread of the pool runs before the network    *)
(* moves or a timer expires; the public API is called at any moment.          *)

\* The operations of a stream that is no longer open fail at once.
Failing(c) ==
    \/ c.chain \in {"closed", "failed"} /\ c.reads + c.writes > 0
    \/ c.chain # "closing" /\ c.closes > 0

Ready(c) ==
    \/ Failing(c)
    \/ c.resolving + c.stale + c.cancelled > 0
    \/ c.keepAlivePosted

Undisturbed == Prompt => ~Ready(client)

-----------------------------------------------------------------------------
(* The handlers.                                                            *)

Init == /\ device \in Devices
        /\ client = [InitClient EXCEPT !.key = device.paired]
        /\ budget = [calls |-> MaxCalls, faults |-> MaxFaults, delays |-> MaxDelays]

Spend(kind) == budget[kind] > 0 /\ budget' = [budget EXCEPT ![kind] = @ - 1]

Fault(new) == IF new THEN Spend("faults") ELSE UNCHANGED budget

\* powerOn, powerOff, blankScreen, sendRequest, sendButton, close.
Call == /\ Spend("calls")
        /\ \E u \in Commands : client' = Enqueue(client, u)
        /\ UNCHANGED device

OnResolve ==
    /\ client.resolving > 0
    /\ LET c == [client EXCEPT !.resolving = @ - 1]
       IN \/ Spend("faults") /\ client' = OnError(c)
          \/ /\ client' = [c EXCEPT !.status = "CONNECTING", !.chain = "connect",
                             !.stale = IF c.chain \in {"connect", "ssl", "handshake"}
                                       THEN Capped(@ + 1) ELSE @]
             /\ UNCHANGED budget
    /\ UNCHANGED device

\* onConnect, onSSLhandshake and onWinsockHandshake: on to the next stage, the last
\* of which sends the webOS handshake.
OnStage ==
    /\ Undisturbed
    /\ client.chain \in {"connect", "ssl", "handshake"}
    /\ LET c == [client EXCEPT !.status = "CONNECTING"]
       IN client' = CASE client.chain = "connect" /\ device.ssl -> [c EXCEPT !.chain = "ssl"]
                      [] client.chain = "handshake" ->
                           Send([c EXCEPT !.chain = "open"], "register")
                      [] OTHER -> [c EXCEPT !.chain = "handshake"]
    /\ UNCHANGED <<device, budget>>

OnStageFailed ==
    /\ Undisturbed
    /\ client.chain \in {"connect", "ssl", "handshake"}
    /\ Spend("faults")
    /\ client' = OnError([client EXCEPT !.chain = "failed"])
    /\ UNCHANGED device

OnWrite ==
    /\ Undisturbed
    /\ client.chain \in {"open", "closing"}
    /\ client.writes > client.blocked
    /\ LET c == [client EXCEPT !.writes = @ - 1]
       IN client' = IF c.status = "CONNECTING" THEN Read(c) ELSE c
    /\ UNCHANGED <<device, budget>>

\* The display answers the oldest request that has left the program.
OnReadAnswer ==
    /\ Undisturbed
    /\ client.chain \in {"open", "closing"}
    /\ client.reads > 0
    /\ client.wire # <<>>
    /\ Len(client.wire) > client.writes - client.blocked
    /\ \/ \E a \in Answers(Head(client.wire)) :
             /\ Fault(a = "unregistered" /\ client.key)
             /\ client' = OnRead(client, a)
       \/ \E a \in {"error", "garbage"} : Spend("faults") /\ client' = OnRead(client, a)
    /\ UNCHANGED device

\* A broken connection, or one the close handshake ended, fails what is in flight.
Broken(chain) == IF chain = "open" THEN "failed" ELSE chain

OnReadFailed ==
    /\ Failing(client) \/ Undisturbed
    /\ client.reads > 0
    /\ Fault(client.chain = "open")
    /\ client' = OnError([client EXCEPT !.reads = @ - 1, !.chain = Broken(@)])
    /\ UNCHANGED device

OnWriteFailed ==
    /\ Failing(client) \/ Undisturbed
    /\ client.writes > 0
    /\ client.chain = "closing" => client.writes > client.blocked
    /\ Fault(client.chain \in {"open", "closing"})
    /\ client' = OnError([client EXCEPT
                            !.writes = @ - 1,
                            !.blocked = IF client.writes > @ THEN @ ELSE @ - 1,
                            !.chain = IF @ \in {"open", "closing"} THEN "failed" ELSE @])
    /\ UNCHANGED device

OnClose ==
    /\ Undisturbed
    /\ client.chain = "closing"
    /\ client.closes > 0
    /\ client.writes = client.blocked
    /\ client' = [client EXCEPT !.closes = @ - 1, !.chain = "closed",
                                !.status = "DISCONNECTED"]
    /\ UNCHANGED <<device, budget>>

\* The close handshake timed out, or there was no open connection to close.
OnCloseFailed ==
    /\ Failing(client) \/ Undisturbed
    /\ client.closes > 0
    /\ Fault(client.chain = "closing")
    /\ client' = OnError([client EXCEPT !.closes = @ - 1,
                            !.chain = IF @ = "closing" THEN "failed" ELSE @])
    /\ UNCHANGED device

\* An operation of a destroyed stream completes with operation_aborted.
OnAborted ==
    /\ client.stale > 0
    /\ client' = OnError([client EXCEPT !.stale = @ - 1])
    /\ UNCHANGED <<device, budget>>

OnWait ==
    /\ Undisturbed
    /\ client.timer = "poll"
    /\ client' = Send([client EXCEPT !.timer = "idle"], "getPowerState")
    /\ UNCHANGED <<device, budget>>

OnRetryConnection ==
    /\ Undisturbed
    /\ client.timer = "retry"
    /\ LET c == Run([client EXCEPT !.timer = "idle", !.work.retry = @ + 1])
       IN client' = IF c.work.type = "POWER_ON" THEN RunWOL(c) ELSE c
    /\ UNCHANGED <<device, budget>>

\* onWait, onRetryConnection and onDelayedRequest do the same with operation_aborted.
OnCancelled ==
    /\ client.cancelled > 0
    /\ client' = OnError([client EXCEPT !.cancelled = @ - 1])
    /\ UNCHANGED <<device, budget>>

\* Whatever unit is in progress by then becomes the request, and keeps its count.
OnDelayedRequest ==
    /\ Undisturbed
    /\ client.delayed
    /\ client' = Contact([Settle(client, "replaced") EXCEPT
                            !.delayed = FALSE, !.work.type = "REQUEST"])
    /\ UNCHANGED <<device, budget>>

\* Less than two seconds after the last unit finished the timer is armed again, which
\* is no step: a timer fires at any later moment. What has started since is closed too.
OnDelayedClose ==
    /\ Undisturbed
    /\ client.closeTimer
    /\ client' = DoClose([client EXCEPT !.closeTimer = FALSE], "dropped")
    /\ UNCHANGED <<device, budget>>

\* The unit is enqueued by a handler of its own: the check may be stale by then.
OnKeepAlive ==
    /\ Undisturbed
    /\ client.keepAlive
    /\ client' = [client EXCEPT !.keepAlive = FALSE,
                    !.keepAlivePosted = @ \/ (client.status = "CONNECTED"
                                              /\ client.work.type = "UNDEFINED")]
    /\ UNCHANGED <<device, budget>>

EnqueueKeepAlive ==
    /\ client.keepAlivePosted
    /\ client' = Enqueue([client EXCEPT !.keepAlivePosted = FALSE],
                         [type |-> "KEEPALIVE", forced |-> FALSE])
    /\ UNCHANGED <<device, budget>>

\* onWOL sends its packets and waits again while the display is to be powered on.
Waking(u) == u.type = "POWER_ON" /\ u.age = "fresh"

OnWOL ==
    /\ Undisturbed
    /\ client.wol
    /\ ~Waking(client.work)
    /\ client' = [client EXCEPT !.wol = FALSE]
    /\ UNCHANGED <<device, budget>>

\* The button client loses its connection, or closes it when the session does.
ButtonClientDisconnects ==
    /\ Undisturbed
    /\ client.buttonUp
    /\ client' = [client EXCEPT !.buttonUp = FALSE]
    /\ UNCHANGED <<device, budget>>

\* time(0) moves on.
WorkAges ==
    /\ Undisturbed
    /\ client.work.age # "lingering"
    /\ client' = [client EXCEPT !.work.age =
                    IF client.work.type = "POWER_ON" /\ @ = "fresh" THEN "expired"
                    ELSE "lingering"]
    /\ Spend("delays")
    /\ UNCHANGED device

Expiries ==
    \/ OnWait \/ OnRetryConnection \/ OnDelayedRequest \/ OnDelayedClose
    \/ OnKeepAlive \/ OnWOL

Network ==
    \/ OnStage \/ OnStageFailed \/ OnWrite \/ OnWriteFailed \/ OnReadAnswer \/ OnReadFailed
    \/ OnClose \/ OnCloseFailed

Posted ==
    \/ OnResolve \/ OnAborted \/ OnCancelled
    \/ EnqueueKeepAlive

Next == Call \/ Expiries \/ Network \/ Posted \/ ButtonClientDisconnects \/ WorkAges

\* Without Prompt any interleaving of the handlers: no assumption about time or the pool.
Spec == Init /\ [][Next]_vars

FailAtOnce ==
    /\ Failing(client)
    /\ OnReadFailed \/ OnWriteFailed \/ OnCloseFailed

\* The pool never rests while a completion is posted, nor the network while it has
\* something to carry. A timer expires when it stays armed; one that is armed again and
\* again in posted completions never does. A display that is being powered on does not
\* report for ever that it is not yet on.
Fairness ==
    /\ WF_vars(Posted \/ FailAtOnce)
    /\ WF_vars(OnStage \/ OnWrite \/ OnReadAnswer \/ OnClose)
    /\ WF_vars(OnWait \/ OnRetryConnection)
    /\ WF_vars(OnDelayedRequest)
    /\ WF_vars(OnDelayedClose)
    /\ SF_vars(Waking(client.work) /\ OnReadAnswer /\ ~Waking(client'.work))

LiveSpec == Spec /\ Fairness

-----------------------------------------------------------------------------
(* Properties.                                                              *)

TypeOK == /\ device \in Device
          /\ client \in Client
          /\ budget \in [calls : 0 .. MaxCalls, faults : 0 .. MaxFaults, delays : 0 .. MaxDelays]

Queued(type) == \E i \in DOMAIN client.queue : client.queue[i].type = type

\* The last power command wins: no queued unit contradicts it, and a unit in progress
\* that does is followed by the one asked for last.
LatestIntentWins ==
    /\ \A i \in DOMAIN client.queue :
         client.queue[i].type \in Power => client.queue[i].type = client.intent
    /\ client.work.type \in Power /\ client.work.type # client.intent => Queued(client.intent)

\* An accepted power command without an outcome keeps the session busy: the drain of
\* the daemon's power handler, which asks for work, does not end before the command.
BusyWhilePending ==
    client.fate = "pending" => client.work.type = client.intent \/ Queued(client.intent)

\* The power state noted last is the one the last power command ended in.
FlagMatchesOutcome ==
    client.fate = "done" => client.poweredOn = (client.intent = "POWER_ON")

\* A unit reconnects only as often as its type allows, whatever number of operations
\* fails (a delayed request keeps the count of the unit it replaces).
RetryBounded ==
    client.work.type # "REQUEST" => client.work.retry <= RetryLimit(client.work.type)

\* While a power-on is fresh the wake loop runs: the socket that an earlier loop left
\* open never keeps a new one from starting.
WakeWhilePoweringOn == Waking(client.work) => client.wol

\* A session counts as connected only over a stream whose web socket handshake is
\* done, so that no request is written to a stream that cannot take it.
StatusMatchesStream ==
    client.status = "CONNECTED" => client.chain \in {"open", "closing", "closed", "failed"}

\* A session with nothing in flight, armed or posted holds no unit and no queue:
\* nothing would ever continue the one or start the other.
Quiescent(c) ==
    /\ c.chain \notin {"connect", "ssl", "handshake"}
    /\ c.reads + c.writes + c.closes + c.stale + c.resolving + c.cancelled = 0
    /\ c.timer = "idle"
    /\ ~c.delayed
    /\ ~c.keepAlivePosted

NoStrandedWork ==
    Quiescent(client) => client.work.type = "UNDEFINED" /\ client.queue = <<>>

\* Units whose place in the queue is never given to another (power commands and
\* delayed requests replace their like) are neither reordered nor overtaken: a step
\* adds a unit at the back and takes units from the front.
Ordinary(q) == Without(q, Power \cup {"REQUEST_DELAYED"})

InOrder ==
    [][\E new \in {<<>>} \cup {<<u>> : u \in Command} :
         LET extended == Ordinary(client.queue) \o new
         IN \E k \in 0 .. Len(extended) :
              Ordinary(client'.queue) = SubSeq(extended, k + 1, Len(extended))]_vars

\* A session without persistence that has nothing to do ends its connection, or gets
\* something to do: the io_context of the daemon can run out of work.
IdleDisconnects ==
    (device.persistence = "OFF" /\ client.status = "CONNECTED" /\ client.work.type = "UNDEFINED")
      ~> (client.status # "CONNECTED" \/ client.work.type # "UNDEFINED")

\* Left alone by further calls, failures and overruns, a session ends every unit.
UndisturbedWorkEnds ==
    [](budget = [calls |-> MaxCalls - 1, faults |-> MaxFaults, delays |-> MaxDelays]
         \/ budget.calls = MaxCalls)
      => (client.work.type # "UNDEFINED" ~> client.work.type = "UNDEFINED")

\* The engine need not know of queues, streams and retries: whatever handler runs, a
\* command that begins is the one accepted last, the power state is noted as the command
\* that was carried out, and no command loses its outcome.
Promise == INSTANCE PowerSession WITH
    Nothing <- "NONE",
    Outcomes <- {"declined", "aborted", "gaveup", "lingered", "closed", "dropped", "replaced"},
    slot <- [asked |-> client.intent, fate |-> client.fate, lit |-> client.poweredOn,
             doing |-> IF client.work.type \in Power THEN client.work.type ELSE "NONE"]

ImplementsPowerSession == Promise!Spec

-----------------------------------------------------------------------------
(* What the program's documentation says and its code does not do.           *)

\* "The daemon holds that lock until the TV has actually acknowledged the power-off"
\* (README.md): a power-off the daemon waits for is not thrown away half-way.
PowerOffHeld == ~(client.intent = "POWER_OFF" /\ client.fate = "dropped")

\* "milliseconds to wait before retrying connection": an armed retry takes place, or
\* the timer is used for something else.
RetryFires == client.timer = "retry" ~> client.timer # "retry"
==============================================================================
