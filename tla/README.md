# Verification of LGTV Linux Companion

The program switches LG webOS televisions that serve as computer displays on and off with the computer: a daemon (system
service) follows sleep, shutdown and start of the machine, an idle helper (one per graphical session) tells the daemon when
the user goes away, a settings window writes the configuration, other programs send the daemon messages over a control
socket, and a command line program talks to the displays by itself. This directory has TLA+ models of the parts whose behaviour depends on the order of events, the TLC runs
that check them on small instances, and proofs, checked by TLAPS, of the central invariants for every value of the constants.
`PROJECT.json` maps each definition to the lines it stands for.

1. [The system](#1-the-system): parts, state, operations, interaction, what is hard
2. [The modules](#2-the-modules): how state and actions correspond to the code
3. [The runs](#3-the-runs): what each checks, its bounds, and what it shows
4. [Fairness and time](#4-fairness-and-time)
5. [The proofs](#5-the-proofs)
6. [What the models found](#6-what-the-models-found)
7. [What is not modelled](#7-what-is-not-modelled)
8. [Plan](#8-plan)

Paths are relative to the repository's `src/` directory; `README.md:107` is in the README at its root.

## 1. The system

    compositor --> idle helper ----\                        /--> session (display 1) <--> button client <--> TV
                   (src/idle)       \                      /
    API programs --> control socket --> parser --> engine +----> session (display n) ...
                     (common/ipc)      (daemon/companion)             one io_context, a pool of threads
    logind --> monitor --> power handler --/       |
    (D-Bus)   (daemon/logind) (daemon/main)        +--> topology file
    settings window (src/gui) --> config.json <--- session (pairing key);   read by daemon, helper and CLI when they start
                    \--> systemd --> daemon
    command line program (src/cli) --> TV      shares the commands and the requests with the parser, and no process

| Part | State it keeps | Operations | Hard about it | What makes it correct |
|---|---|---|---|---|
| **Session** `daemon/web_os_client.cpp` | queue of work, the unit in progress, stream and connection status, pairing, five timers, `isPoweredOn_` | `powerOn`, `powerOff`, requests, buttons, `close`; completion handlers of every network operation and timer | handlers of aborted operations arrive late; retries, polling and wake-on-LAN have timers of their own; work arrives at any point of a connection | the last power command decides; nothing accepted is left behind; requests in order; retries bounded; an idle session disconnects |
| **Button client** `daemon/button_client.cpp` | as the session, for the pointer-input socket | `sendButton`, `close` | the same, and it reads without expecting answers | presses arrive in order; one read at a time |
| **I/O pool** `daemon/companion.cpp:164, 448-470, 610-640` | the io_context, `ioc_reset_`, `ioc_started_`, threads | start and end of `processEvent`, `isBusy` | the io_context runs out of work at any step of a caller; callers are several threads without a lock | work has threads; `isBusy` never denies it; a drain ends |
| **Engine** `daemon/companion.cpp` | `windows_power_status_on_`, `remote_client_connected_`, shutdown kind, `device_.enabled`, topology and its file | `systemEvent`, `ipcCallback`, `processEvent` | flags are read per display and written at the end; a suspend waits inside; restart with a half-written file | flags agree with the displays; streaming and topology are respected; topology survives a restart |
| **Monitor of logind and power handler** `daemon/logind.cpp`, `daemon/main.cpp` | delay lock, `shutdown_handled_`, detached resume threads | sleep, wake-up, shutdown, reboot, cancel | logind's time limit; signals twice, or once, by version; resume threads against new requests | displays off before the machine is; on after; reboot leaves them alone; handler runs once and under the lock |
| **Idle helper** `idle/main.cpp`, `daemon/idle_monitor.cpp` | idle flag, running, quit | Wayland events, signal, stop | two threads report; the daemon comes and goes | the daemon believes what was reported last; an exit leaves nobody idle |
| **Control socket** `common/ipc.cpp` | sessions, listening socket, one thread | connect, line, leave, stop | clients at every stage when the server stops | lines in order per thread; no client forgotten; stop ends |
| **Preferences and window** `common/preferences.cpp`, `gui/` | config.json, the window's lists, the daemon's copy, the service | load, edit, Apply, install, restart or remove the service, store a pairing key | two programs write one file without a lock; entries are renamed on every write; older versions; a service that goes on with old settings | a key stays with its display; what was applied is what is used |
| **Parser** `daemon/companion.cpp:666-760, 946-1498`, `common/tools.cpp`, `common/lg_api_commands.h`, `common/event.cpp` | the rest of a message | `ipcCallback`, `extractSeparateCommands`, `stringsplit`, the commands | a message is split twice, commands are written anew and read again; names with blanks, hyphens, quotes | displays are asked what was written, and those it was written for |
| **Command line program** `cli/console.cpp` | commands left, results, the exchange with a display, the thread of each power-on, `bTerminateThread` | arguments, each command, connect, register, ask, alert, power state, close | an exchange fails between two messages; a power-on is tried until its time is up, beside a thread that wakes the display | nothing is done that was not written, twice, or out of order; success is not claimed for what was not done; the program ends |
| Log, paths, test programs | none of their own | text and constants | – | see 7 |

They interact by calls (monitor → handler → engine → session), by messages (helper and API programs → socket → parser → engine), by callbacks
posted to the io_context (session), by shared flags (engine, pool) and by files (settings, topology). The hazards of each are
listed with their lines in `PROJECT.json`, with the property that covers it or the reason why none does.

## 2. The modules

| Module | Part | Composition |
|---|---|---|
| `PowerSession` | what a session promises the engine | abstract |
| `WebOsClient` | session | implements `PowerSession` (`Promise`); `MCWebOsClient` instantiates it |
| `WebOsClientProofs` | proofs about it: types and invariants, then steps | extends it |
| `ButtonClient` | button client | stands alone |
| `ButtonClientProofs` | proofs about it | extends it |
| `IoPool` | I/O pool | stands alone |
| `IoPoolProofs` | proofs about it | extends it |
| `Companion` | engine | sessions abstracted to [asked, by, pending] |
| `Daemon` | monitor, power handler, resume threads | extends `Companion`: every step of the engine is a step here |
| `DaemonProofs` | proofs about it and the engine | extends it |
| `ControlSocket` | server thread, one-shot clients | state and steps, to be composed |
| `IdleHelper` | helper, Wayland monitor, the daemon's end | extends `ControlSocket` |
| `IdleHelperProofs` | proofs about both | extends it |
| `Settings` | preferences, window, service, pairing | stands alone |
| `SettingsProofs` | proofs about it | extends it |
| `Words` | strings, commands and requests | operators that both programs share |
| `MessageParser` | parser of the daemon | extends `Words` |
| `Console` | command line program | extends `Words` |
| `CommandLine` | both, given the same commands of a user | extends `MessageParser` and `Console` |
| `CommandLineProofs` | proofs about the command line program | extends it |
| `MessageProofs` | proofs about the daemon's reading of a message | extends `CommandLineProofs`, whose lemmas about words and sequences it uses |

### PowerSession

`slot` has the command accepted last, the one the display is being told, what became of the former, and the power state the session
has noted. A handler of the session may accept a command, end one (carried out, and noted as such, or given up), and begin the
accepted one or throw everything away. That is all the engine relies on: not queues, streams, retries. `Promise` in `WebOsClient`
is the refinement mapping: `intent`, `fate`, `isPoweredOn_`, and the work in progress if it is a power command.

### WebOsClient

`client` is a record of the members of `WebOsClient::Impl` and the operations it has in flight: `queue` (`workQueue_`), `work`
(`work_`), `status` (`connection_status_`), `poweredOn` (`isPoweredOn_`), `key`, `buttonUp`; the stream (`chain`, and the number of
`reads`, `writes`, `closes` on it; `blocked` writes wait behind a close frame; `wire` has the unanswered requests); `stale`, the
aborted operations of streams that `run()` destroyed; and the timers: `timer` is `async_timer_` by the handler it waits for,
then `delayed`, `closeTimer`, `keepAlive`, `wol`. `cancelled` counts
the handlers of cancelled waits that are on their way; they all call `onError`.

Members of the class are operators from record to record with the members' names (`DoClose`, `WorkIsFinished`, `StartNextWork`,
`Run`, `Enqueue`, ...), and **one completion handler is one action**, composed of the members it calls, to the end: `onRead` calls
`workIsFinished`, which calls `startNextWork`, which may call `run`. The public API is `Call`. The display answers a request with
any answer the code tells apart; every operation may fail while `MaxFaults` allows. A unit's age is what the code compares
(`fresh`, `expired` beyond the device's timeout, `lingering` beyond the limit for a unit); a timer may fire at any moment after it was
armed, therefore the two seconds that a session lingers need no clock. `intent` and `fate` are ghosts: the last accepted power
command and what became of it.

### ButtonClient

The same form. Presses are numbered in the order of the calls; `last` is the last one a display received. `enqueueWork` is
posted, so calls and enqueueing are two actions (`posted` is the FIFO of the strand). `run()` returns without a path in the
code; the session has always set one before it hands over a press, so that return is left out.

### IoPool

A caller goes through the places of `processEvent` that read or write shared state: `top` (`stopped()`), `flag` (`ioc_reset_`),
`restart`, `enqueue`, `bottom`, `create`, `start`, `clear`, each a step. `io.work` counts the posted operations, `pool` the threads
about to enter `run()` and inside it. The io_context stops when work falls to zero inside `run()`. Callers come when they like:
nothing in the code keeps two of them apart. `met` is a history variable: two were inside since the io_context last ran out of work. Where two
met, a late store of `ioc_reset_` may deny a pool that works and a late clear may leave work without one; the properties
are about the other times, and say with it that the next round is right again.

### Companion

`status`, `managed`, `topology`, `saved` are the engine's flags and its file. `call[t]` is the event a thread processes: a step for each
display (`ProcessEvent`), then `PostProcess`; a suspend then waits in `settle` (`companion.cpp:388`) and a topology report in `save`, between
the truncation of the file and its last byte. `session[d]` is what the display was asked last, by which event, and whether the session
still works on it; that a session stays busy until then is `BusyWhilePending` of `WebOsClient`. `by` distinguishes what the engine
asked from what the user took over. `Restart` ends the process at any step and runs the constructor again.

### Daemon

The power handler and the resume threads are sequences of calls, so each thread has a `script` of steps still to take, as written in
`main.cpp`: tell the kind, the event, wait for the network, wake the displays. `monitor` has the lock and `shutdown_handled_`,
`signals` what D-Bus has yet to deliver, `machine` logind's phase and the time since the request, `screen` what each display
shows. A session that ends has done what it was asked (`Acknowledge`), or it gave up after its last retry or dropped it in the close of a
lingering connection (`GivesUp`): the engine sees the same, that it is no longer busy, and the display may show anything. `Missed(d, ask)`
names such a display, and the properties about the displays exclude it: what they say is that the daemon asks, in time and to the end.
`Settle` and `Drain` are the two waits; `ReleaseInhibitor` follows. Time since the request is counted anew at each wake-up.

A sleep, a shutdown or a reboot may be asked for at any moment the machine is awake: while the start of the daemon or the resume thread of an
earlier wake-up still waits for the network, and before the monitor has heard of the wake-up. The history variable `haste` says
which of these happened, and each property says which it can stand: `AwakeIsLit` and `NightPasses` any of them,
`HandlerUnderLock` and `RebootKeepsLit` one each, `DarkInTime` none.

### ControlSocket and IdleHelper

The server has one thread, so its completed handlers are a queue. `conns` has every connection: the unread line, whether the
client has left, and whether a read is pending. `Stop` and `OnStop` close what is in the list of sessions; a connection whose
accept has completed but was not handled is in no list, so `Idle` (the thread ends) waits until that client leaves. `sendOneShot`
is two steps, connect and write. The helper's monitor thread is `loop`, `poll`, `dispatch` (a batch of events), `connect`, `write`;
the main thread `test`, `sleep`/`wait`, `check`, `connect`, `write`, `stop`, `join`. `Signal` at `sleep`, between the test of the predicate and the
wait, is lost, since `onSignal` notifies without the mutex.

### Settings

`file` is missing, whole, or torn (opened for writing and not finished). Opening the window, `ApplyReads`, `ApplyCuts`, `ApplyWrites`,
`Syncs` are the steps of `writeToDisk` and of what follows it; `PairReads`, `PairCuts`, `PairWrites` those of `setSessionKey`, which uses the copy of
the entries from the daemon's start. A node of the file is the record of the keys it has, so the defaults, the limits and the names
of older versions are those of the code. `Format` and `Keyed` say which files the programs of this version and of older ones write: values of the types
of their keys (numbers of any size), no display named twice, no entry with the key of another. The files of the first start (`Files`) are such files. A display is its entry's name and address; the key it gives is the display itself.
The dialog (`Edits`, `Stored`) may make an entry another display's, with the key it had; the ghost `moved` has the displays that were given such an
entry. A file that cannot be opened for writing is left as it is, by the window (`ApplyFails`), which takes its settings for applied, and by a
session (`PairFails`); one that is opened may be cut short (`Put`). A display gives a key if the session has none for it or one that it refuses.
`Syncs` asks the user, and then installs and starts the service, stops and removes it, or restarts it if it runs; `unit` is whether systemd starts
it. `gui.agreed` says that the service was brought up to date after the last Apply: the user said yes, polkit and systemd did it, and the
daemon was not one that ran already when the service was enabled (`enable --now` leaves it alone, with its old settings).
`clash` is a ghost for the two situations below in which a key is lost, which no property covers.

### Words, MessageParser, Console and CommandLine

A text is a sequence of symbols: a symbol stands for a word where nothing looks inside it, and for one character where something does (blank,
hyphen, quote, digits, names of one character). `stringsplit`, `extractSeparateCommands`, `atoi` and the ranges are operators; each
family of commands is an operator from words to events (`SoundCommand`, `CurveCommand`, ...). The daemon's state is what is left of a
message (`commands`): `set_curvature` and the service menus put messages of their own before the rest. `dispatched` has the event for each display, as
`dispatchEvent` calls `processEvent`; what comes of it is in `Companion`.

`Console` has the program itself: `left` the commands, `work` the event and the loop over the displays, `link` where the exchange with a display is
(connect, register, ask, answers, alert, button socket, close), `trying` the clock of a power-on, `wol` the thread of each display. Any operation of
an exchange may throw, before or after the display did what it was asked (`Fails`); a display may be off, refuse (`Refused`) or accept the
connection and never answer (`silent`). The thread of a power-on sends to the displays that are `Wakeable`: one with the subnet broadcast whose address or subnet
has not four parts is not, its thread ends at once, and the program tries on.

`CommandLine` gives the two the same commands, written down as `Docs/Commandline.md` says, as a message and as arguments. `Means` and `Intended`
are the reference: what the user wants from which display, defined without a look at how it is written or read. The equivalences
`DaemonReadsAsWritten` and `ConsoleReadsAsWritten` say exactly which commands are read as they were written. What a user can write at all is `Command`:
a name, as many words as the command has arguments (`Arity`), and the displays; a word is not empty,
and is what is meant: the escapes before its quotes come in when it is written (`Written`). A backslash that the user means to send is not in the model.

## 3. The runs

| Run | Module | Checks | Instance | Distinct states |
|---|---|---|---|---|
| `client_power` | WebOsClient | `TypeOK` `LatestIntentWins` `BusyWhilePending` `FlagMatchesOutcome` `RetryBounded` `NoStrandedWork` `InOrder` `ImplementsPowerSession` | one plain display; power commands, requests, delayed requests and buttons; 2 calls, 1 failure, 1 overrun; any interleaving | 2,780,663 |
| `client_session` | WebOsClient | `IdleDisconnects` `UndisturbedWorkEnds` | four displays that have every setting the code asks about; every command, forced or not; 2 calls, 1 failure | 64,754 |
| `client_livelock` | WebOsClient | `RetryFires` is violated | 1 call, 1 failure | – |
| `client_dropped` | WebOsClient | `PowerOffHeld` is violated | 2 calls, no failure | – |
| `button` | ButtonClient | `NoStrandedPress` `OneReader` `PressesInOrder` `PressesArrive` | ssl and keep-alive or not; 3 presses, 1 close, 2 failures, 1 overrun | 59,798 |
| `pool` | IoPool | `WorkIsServed` `BusyWhileWorking` `DrainEnds` | two callers, at once or in turn, two threads, 5 events | 154,960 |
| `companion` | Companion | `RemoteKeepsDark` `OffMeansDark` `FollowsTopology` `TopologyRestored` | 1 display, two threads, three configurations, unbounded sequences of events | 748,552 |
| `daemon_power` | Daemon | `DarkInTime` `RebootKeepsLit` `AwakeIsLit` `HandlerUnderLock` `NightPasses` | 1 display, 2 requests and 2 reports at any time, two resume threads, one second of delay | 1,873,017 |
| `daemon_deadline` | Daemon | `ReleasedInTime` is violated | 1 display, 1 request, five seconds of delay | – |
| `idle` | IdleHelper | `NoClientForgotten` `ReportsInOrder` `LastReportCounts` `ExitLeavesBusy` `StopEnds` | 2 moves of the user, 1 signal, 1 stop of the daemon or failure of Wayland, 1 guest | 678,124 |
| `settings` | Settings | `KeyOfItsDisplay` `KeysKept` `AppliedIsLoaded` | 3 displays, two with a MAC address; files of version 2 and 3 and a foreign one; 3 edits, 1 key, 1 kill; no further than a clash or a file that stays torn | 3,722,184 |
| `command_line` | CommandLine | `DaemonReadsAsWritten` `ConsoleReadsAsWritten` `HeardInOrder` `NoErrorMeansDone` `WakesWhileTrying` `ConsoleEnds` | 3 displays, with names of one character, with a blank, with a hyphen; two of them paired and with a MAC address, one of these with an address that no packet can be sent to; every family of commands, alone, and lines of two and three; 1 failure; one second to power on | 54,164 |

Every run says `CHECK_DEADLOCK FALSE`: the io_context may run out of work, a machine may be off, and the bounds on calls end every behaviour.
Each property has a mutant in `PROJECT.json`, a change of one mapped definition that a plausible bug would make and that
the same run finds. Each component has a type invariant, `TypeOK` or `EngineTypeOK`. All but that
of `Daemon` are theorems (for the command line program `ConsoleTypeOK`, in its proofs). No run repeats any of them but the session's.

**Why the bounds are enough.** *Session*: the conflicts are between one unit in progress and one that comes, on top of a connection that
lingers from an earlier one: two calls, with everything a failure and an overrun can do to them; retries are limited to
`max(2, PowerOnRetries)`, so `PowerOnRetries = 1` exercises the end of the count. `MaxPending` caps the count of handlers
of one kind that are in flight (all of which do the same) and of unanswered requests; a fourth is taken as one that never completes. The safety properties of the session that matter most are proved without these bounds. *Buttons*: two retries and
their exhaustion need two failures; order needs a third press behind a retried one. *Pool*: an event after a restart after an event is the
whole cycle; with five, two that met can be followed by a round that must be right again. *Engine*: the flags are global and displays are treated alike; one display shows
each rule, the proofs cover any number. *Daemon*: a second request shows what the first left behind, and meets its resume
thread; a second resume thread is what a machine that sleeps again at once has (the wake-up waits for a free one in the model); the delay is short
since what counts is whether it ends before, during or after the two waits. *Helper*: one cycle of idle
and busy; the ghost `heard` would show a swap. *Settings*: two edits renumber entries, the third puts one back; one key comes from a display, another is in the file from the start. The user chooses one wake method, the second: the conversions of
all four are in the files. The constraint `Lasting` stops where no property says anything any more: after a clash, and with a torn file that nobody
is about to write (which nothing repairs).
*Command line*: each command has an argument in range, one out of range and one that is none; the three names are the three ways in which a
name can be difficult; a second and a third command show what the first leaves; one failure at every operation of every exchange.

## 4. Fairness and time

- **No fairness** for what a user, another program, the network's failures or logind's requests do.
- **WebOsClient, ButtonClient**: `LiveSpec` is weakly fair to posted completions (a pool thread is there), to the network
  as a whole (it does not rest while it has something to carry) and to each timer. A display that is being powered on eventually
  reports that it is on (strong fairness of that answer): the program polls it without a limit on this path. Timers that are
  re-armed each time (weak fairness does not apply to an expiry that is disabled again and again) may never expire, which is what
  `client_livelock` shows.
- **`Prompt`**: with `Prompt = TRUE` posted completions run before the next network or timer event, which is how the code behaves
  when handlers take microseconds and timers seconds. `client_power` does without it. `ButtonClient` needs it: an aborted handler that is
  slower than a reconnect leads to two reads.
- **IoPool**: the scheduler runs every thread and a unit of work ends (weak fairness).
- **Companion**: `EngineSpec` processes one event at a time, a settling suspend excepted. Its safety properties are about that discipline.
  `Daemon` drops it for the bus, main, resume and socket threads.
- **Daemon**: time is in half seconds and passes only while the handler waits; everything else is instantaneous in comparison. `LiveSpec` is
  weakly fair to `System` as a whole: threads, displays, time, logind's going ahead and waking up never all rest while one of them can go on; none
  of them is promised its turn before another. So each session ends, done or given up: one whose retries put each other off for ever (`client_livelock`)
  is left out. Requests and reports are not fair. The properties exclude a cancelled
  shutdown (`~machine.cancelled`) and the setting `power_on_at_login = false`: see the hazards.
- **CommandLine**: the program, its thread and the clock never all rest (weak fairness of `CommandLineProgram`), and a display that is not `silent`
  answers. `ConsoleEnds` excludes silence: reads have no limit of time in the code (`cli/console.cpp:1044`).
- **IdleHelper**: every thread runs; a guest leaves in the end, since the one-shot client waits for a bounded time. The properties that
  need a daemon and a compositor to be there say so in terms of the budget not spent.

## 5. The proofs

TLAPS checks them for every set of devices, commands, displays, callers, threads and settings and every bound, under the named
assumptions `ClientAssumption`, `ButtonAssumption`, `PoolAssumption`, `CompanionAssumption`, `DaemonAssumption`, `IdleAssumption`,
`SettingsAssumption`, `FilesAssumption` (the file of the first start is one that the programs write), `NamesAssumption`, `ConsoleAssumption` and `IntentsAssumption`, which TLC evaluates on the small instances. They state the types of the constants and positive limits: one retry of a power-on at least, one display, one
thread in the pool, and room for one operation of each kind (`MaxPending`: a bound of zero would leave out every operation, and
nothing would ever be under way). Every invariant below but `ReadInv` was first checked by TLC.

### Session (first part of `WebOsClientProofs`)

`IInv == device \in Device /\ budget \in Budget /\ Good(client)`, where `Good` is the conjunction of

- `Client`: the type, with every counter in range;
- `Attempts`: a unit's retries are within the limit of its type, and below it while a retry is waited for (a delayed request keeps
  the count of the unit it replaces, and has the largest limit);
- `Woken`: a fresh power-on has the wake loop;
- `Linked`: connected implies a stream whose handshake is done;
- `Agreed`: at most one power command is queued, it is the intent and still pending, and `fate = "done"` implies that `poweredOn`
  agrees with the intent;
- `Followed`: behind a power command in progress no other is queued if it is the intent, and the intent is queued if it is not;
- `Kept`: an intent that is pending is in progress or queued.

The properties are not inductive by themselves: `LatestIntentWins` needs that the queue holds one power command at most (else taking
one leaves another) and that none is queued behind the intended one; `FlagMatchesOutcome` needs that a queued command is still pending, or a
unit that starts could disown an outcome; `RetryBounded` needs the strict bound that the armed retry timer stands for; `BusyWhilePending`
needs `Agreed` and `Followed`, or a unit thrown out of the queue could be the intent. Each member function has a *frame lemma* (which fields
it leaves alone) and a lemma that it preserves `Good`; a handler is the composition
of members, so its step is the composition of their lemmas. `Without`, the removal of units from the queue, is a recursive
function; the facts about it are proved from the least-number principle (`LeastNumber`, which each module of proofs that needs it has, from the library's well-founded ordering of finite
sets), since the library's induction theorems take an operator as a parameter, which no installed prover instantiates.

| Theorem | Says |
|---|---|
| `Inductive` | `Spec => []IInv` |
| `TypeCorrect` | `Spec => []TypeOK` |
| `LastPowerCommandWins` | `Spec => []LatestIntentWins` |
| `PendingKeepsBusy` | `Spec => []BusyWhilePending` |
| `OutcomeIsNoted` | `Spec => []FlagMatchesOutcome` |
| `RetriesEnd` | `Spec => []RetryBounded` |
| `WakeLoopRuns` | `Spec => []WakeWhilePoweringOn` |
| `ConnectedMeansOpened` | `Spec => []StatusMatchesStream` |

### Steps of the session (second part of `WebOsClientProofs`)

| Theorem | Says |
|---|---|
| `KeepsItsPromise` | `Spec => ImplementsPowerSession` (refinement) |
| `QueueInOrder` | `Spec => InOrder` (action property) |
| `NoWorkIsLeft` | `Spec => []NoStrandedWork` |

*Refinement.* One handler may do several things in the abstract: accept a command, then end the one in progress, then begin the next or
throw all away. `Slot` is the mapped state; `Moves` is those three in their order, each of them optional, `Runs` the last two, `Closes` the
last one. Each member is shown to do one of the three, and which of them may follow which; `IInv` says that the unit that is begun is the intent.

*Order.* `InOrder` is about units nothing takes the place of. What a handler does to them is to take some from the front and then to add
one at the back, in one order or the other: `Takes` (what is left is a *back* of what was there) and `Adds`. Removing power
commands or buttons from the queue commutes with both.

*No stranded work* has an invariant of its own, `Served(c)`, since it is about the operations in flight and `Good` is about the work:

- `Going`: what will look at the unit in progress, one disjunct for each kind of operation or timer that calls `onError` or goes on.
  The handshake of a close is not one of them, as it may have been asked for before the unit began;
- `Busy(c) => Going(c)`: a unit in progress has one of these, as it stands at every exit of a handler;
- `Filled`: only a unit in progress keeps others waiting;
- `Listens`: on an open stream on which the display has answered there is a read; `Talks`: no unit relies on an open stream after the session
  has called it lost (a read that fails is the one that says so, and runs the unit anew);
- `Sorted`: a close is never in progress, and a delayed request in progress has its timer.

`Spec` is the fully asynchronous one or the prompt one, as `Prompt` says: the theorems hold for both.

### Button client (`ButtonClientProofs`)

`ButtonInv == TypeOK /\ Sound(client, Pressed) /\ Manned(client)`. `Sound` is what every member keeps, in the middle of a handler too:

- `InLine`: the last press written is not after the one in progress, and that one is before those queued, which are before those posted,
  in rising order and none above the number of calls. A press that is written again is the one in progress, so that retries keep the order;
- `Allowed`: a close is never in progress, and a retry that is waited for is within the limit;
- `Prompt => Reader`: one reader at most, none on a stream that is not open, and no other stream while a name is being resolved.

`Manned` holds at the end of a handler: only a unit in progress keeps others waiting, and it is waited for itself (`Waited`, in which, as above,
closes do not count). `OneReader` is a theorem of the prompt specification only, where completions run before the network moves. Without
that it is false: TLC finds a behaviour of 15 steps in which a press is given up as too old while its name is being
resolved, the next press starts a second look-up, the first opens the stream and reads, and the second connects again. The other two hold in both.

| Theorem | Says |
|---|---|
| `ButtonIsRight` | `Spec => []ButtonInv` |
| `NoPressIsLeft` | `Spec => []NoStrandedPress` |
| `PressesKeepOrder` | `Spec => PressesInOrder` (action property) |
| `OneReadAtATime` | `Prompt => (Spec => []OneReader)` |

### Pool (`IoPoolProofs`)

`PoolInv` says for each place of `processEvent` what a caller that stands there alone may rely on, while threads enter, finish and leave:

- `Remembers`: what it remembers of its post is true;
- `Noticed`: work in a stopped io_context is that of somebody who will look again. This one holds also for callers that have met;
- `Alone`: callers that have not met are one;
- `Restarts`: who has found the io_context stopped finds it so until the restart;
- `Awaited`: work that has no pool has a caller on its way to create one;
- `Created`: threads a caller has created leave only a stopped io_context; `Manned`: where `ioc_reset_` says that there is a pool there is one.

| Theorem | Says |
|---|---|
| `PoolIsRight` | `Spec => []PoolInv` (`TypeOK` is part of it) |
| `WorkHasThreads` | `Spec => []WorkIsServed` |
| `BusyTellsOfWork` | `Spec => []BusyWhileWorking` |

### Engine (first part of `DaemonProofs`)

`EngineInv == EngineTypeOK /\ OneAtATime /\ CallsOK /\ PowerInv /\ RemoteInv /\ TopologyInv /\ FileInv`. The
properties speak of the moments between events (`Quiet`); the invariant says what holds in the middle of one: for a suspend, that the
displays already treated are dark; for a streaming client, that those treated are unlit; for a topology report, that those
not yet treated are going to be; and that only one thread is inside. Without the half-way parts the step that writes the flag
after the last display could not be justified.

| Theorem | Says |
|---|---|
| `EngineInductive` | `EngineSpec => []EngineInv` |
| `EngineTypeCorrect` | `EngineSpec => []EngineTypeOK` |
| `RemoteStaysDark` | `EngineSpec => []RemoteKeepsDark` |
| `OffIsDark` | `EngineSpec => []OffMeansDark` |
| `TopologyIsFollowed` | `EngineSpec => []FollowsTopology` |
| `TopologySurvives` | `EngineSpec => TopologyRestored` (an action property, from `FileInv`) |

### Daemon (second part of `DaemonProofs`)

`DaemonInv == LogindOK /\ SignalsOK /\ LockInv /\ DisplayInv /\ AwakeInv /\ DarkInv`, for any number of displays, requests and resume threads.
It is written in terms of `Shown(d)`: what the display shows, or should show where its session still works on it, gave up or dropped it. The last is all that can
be said of such a display, and is why the properties have the alternative `Missed`; what has to be proved is that whoever is to ask it does.

- `SignalsOK`: where each request found the bus silent, it carries what was announced of the last request, and after a sleep its end;
- `LockInv`: the release is the last step of a script; a script of the monitor that is not finished has the lock; so has an announcement the
  handler will still act upon, and it finds the monitor idle. That is how the second announcement of a shutdown, which finds
  `shutdown_handled_` set, starts no second handler;
- `DisplayInv`: `~Darkens` (no thread has yet to switch a display off by day, or in a reboot); by day the last thing a managed display
  was asked is not to go dark, or a thread has yet to light it; and in a reboot none was asked to. The part about the day is
  what a reboot starts from: a reboot that comes while the start still waits for the network would find displays that were;
- `AwakeInv`, for the day, whatever requests came when: what the socket brings is what the user did last (`ReportsOK`); the last word on the
  bus of a machine that is awake is that it woke up (`WakesLast`), so the handler of a sleep is over when the day breaks; and each managed display
  is on, or should be, or is blank for a user who is away or whose return is being told to the displays, or a thread has yet to light it (`LitInv`).
  The end of a sleep is what begins a day, and it starts such a thread (`DayBreaks`);
- `DarkInv`, for the night that begins on a daemon at rest: `Powered` (by day the engine believes that the displays are on, or is going
  to; else a suspend would send nothing), `Untyped` (it knows of no shutdown before one is asked for), `Waits` (time is counted in the two waits of the
  handler only) and `NightInv`: while logind has waited for less than the drain's budget no other thread has anything to do,
  and the monitor's thread is at one of the `Stages`: the announcement is on the bus; the script stands before the kind of a shutdown, before the
  event, or in it, with the displays below the one at hand asked to go dark; all have been asked; all have answered, and the lock is to be released; it is
  released. logind goes ahead only in the last of these (`MachineNight`), for its delay is not below the budget of the drain.

`DarkBeforeSleep` has a hypothesis, `InhibitDelay > 0`. With a delay of zero logind waits for nobody, lock or no lock, and TLC finds the machine asleep before
its displays are dark.

The engine's steps are taken over from the first part; two lemmas say how `ProcessEvent` treats one display, and the rest is about the scripts.

| Theorem | Says |
|---|---|
| `DaemonIsRight` | `Spec => []DaemonInv` |
| `LockOutlastsHandler` | `Spec => []HandlerUnderLock` |
| `RebootLeavesLit` | `Spec => []RebootKeepsLit` |
| `AwakeDisplaysAreLit` | `Spec => []AwakeIsLit` |
| `DarkBeforeSleep` | `InhibitDelay > 0 => (Spec => []DarkInTime)` |

### Helper and socket (`IdleHelperProofs`)

`HelperInv == TypeOK /\ Shape(server, conns) /\ Order(server, conns, daemon.heard) /\ Speaks(.. monitor ..) /\ Speaks(.. main ..)`,
for any number of moves, signals, stops of the daemon and guests, in all phases of the server's life:

- `Shape` says where each connection is. `Lined`, `Single`, `Found`: one that waits is in the backlog, in the order of the connects, or its accept
  has completed; there is one accept, and it is of a connection made before the backlog. `Attended`: an open one has a read pending or a
  handler that follows it. `Written`: who has written has left, and there is nothing to read where a read is pending. `Phases`: a
  server that runs has an accept pending or completed, one that is down nothing at all, and one that is stopping and still listens has the
  handler of `stop` queued;
- `Order` says in which order connections get ahead. `Ordered`: lines that have been read, and not yet been given to the callback, stand in
  the order of their connections, and are later than what the daemon has heard of that thread; `Own`: what it has heard of a thread came on that
  thread's connections, which the thread has left; `Ahead`: a connection that has got as far as a read was made before any
  that waits;
- `Speaks`: a thread between connect and write is on the last of its connections, so that the one it writes to is later than all of its that were
  heard.

`ReportsInOrder` needs all of it: each report has a connection of its own, so the order of two is not that of a stream, but comes from the
backlog, the one accept and the queue of handlers. A daemon that stops and starts again does not break it, as the connections of the old one are closed.
`Turned(h, g, d, add)` says what a handler does to the queue (`d` handlers taken from the front, those of `add` put behind, no accept or
line twice), and each part of the invariant is shown of any queue so turned.

| Theorem | Says |
|---|---|
| `HelperIsRight` | `Spec => [](TypeOK /\ HelperInv)` |
| `NoClientIsForgotten` | `Spec => []NoClientForgotten` |
| `ReportsKeepOrder` | `Spec => ReportsInOrder` (action property) |

### Settings (`SettingsProofs`)

`Inv == TypeInv /\ (~clash => Sound(file, gui, daemon, paired, moved))`. The types hold whatever happens, for any displays, files, versions and bounds: a
value out of range is brought within its limits by the reader, and a setting that the file lacks has its default (the log level, the updater mode
and the shutdown timing are taken as they are). `Sound` is
what holds until a key is stored while the window writes, or by a daemon that still has the entry's old name:

- `Apart`: while a key is stored the window is not between reading and writing, and the entry chosen has, in the daemon's copy of the file, the
  name of the display;
- `Follows`: so that copy is the file's content, or what the file had before the daemon emptied it. This is what keeps the daemon from writing
  back a list that the window has replaced;
- `OwnKeys`: neither the file nor the copy, nor the window's list, has a key of another display, those in `moved` excepted, or names a display twice. It speaks of all three, as each may
  become the file; the list's names are needed because `writeToDisk` looks the keys up by address;
- `Safe`, for each display (moved or not) with a stored key and a MAC address: the key is in the file unless it is torn, in the copy that is going to replace it, and, once
  `ApplyReads` has looked the keys up, in the list that is;
- `Agrees`: while the window shows what it read or wrote, the file's content reads as what it shows, and so do the daemon's copy and the entries of a daemon that
  was brought up to date; between `ApplyCuts` and `ApplyWrites` the entries have the numbers they are written with.

Three lemmas are about the conversions: `LoadedRight` (what is read has its type, own keys and single names), `WrittenRight` (what is written is a file of the
format which reads as the settings it was made of, field by field and entry by entry) and `PairedRight` (a key that is stored changes one entry's key and nothing
that is read). They rest on `Ranks`: the entries of a finite set of names stand at the places 1 to n in their order, each once, which is
shown by counting, since an enumeration by recursion is beyond the prover.

| Theorem | Says |
|---|---|
| `SettingsWithinLimits` | `Spec => []TypeOK` |
| `KeysAreOfTheirDisplays` | `Spec => []KeyOfItsDisplay` |
| `StoredKeysStay` | `Spec => []KeysKept` |
| `AppliedSettingsAreLoaded` | `Spec => []AppliedIsLoaded` |

### Command line program and messages (`CommandLineProofs`, `MessageProofs`)

The proof has five parts: four about the command line program, and one, the module `MessageProofs`, about the daemon.

**The exchange.** `ConsoleInv == ConsoleTypeOK /\ Addressed /\ Unanswered /\ Treated /\ AnswersAreTrue /\ Waking`, for any displays, commands of a user, silent displays and
number of faults. What the readers make of the arguments is left open here: an event is whatever they return.

- `Addressed`: an exchange is with a display of the event that has a key, at a place that its kind of event has (so that an effect is never repeated
  by the loop of a power-on, which has none before its state is asked);
- `Unanswered`, `Treated`: a display that comes later has no answer, one that was treated has one, and so has the one at hand once its exchange is over but for the
  close. A power-on alone is tried again, with the answers of its earlier attempts: one that a display refused, and whose close fails, goes on with an error noted,
  which two faults are needed for (the run has one; TLC has checked the invariant with three);
- `AnswersAreTrue`: a display that is said to have answered did what it was asked;
- `Waking`: the thread of the first power-on has waited for no longer than the loop, and is there while the loop may go on, if it can send at all (`Wakeable`).

`AskedOnce` and `SuccessMeansDone` are action properties of this module. They say of one event what `HeardInOrder` and `NoErrorMeansDone` say
of all that a user has in mind: a display does its part once, in the order of the displays, and a result of nothing but answers is true.

**The reading.** `ReadsAsMeant`: if each command of the line is one that arguments can say, `CommandsOf(Argv(line))` are the line's commands, in order, and what
they ask of the displays (`ToCome`) is `Intended(line)`. The arguments are cut where a word begins with a hyphen (`CommandsAre`, `ArgvIsRead`: one more command written
behind the others is one more command read). Each command is then read as it is meant (`CommandIsRight`), by its name and the number of its
arguments: each operator of `ProcessCommand` reads the names of its own family and no other. The commands that are written anew are followed into the commands they become: `-set_curvature` writes a percentage with `to_string`, which the second
reading turns back with `atoi`; this needs what the two do to the digits of 0 to 100.

**The order.** `OrderInv == AlertsSay /\ (written = "arguments" /\ All(intent, ConsoleUnderstands) => OnSchedule)`. The list `Intended(intent)` is at every moment some
`past` and what is left of it (`RestOf`: the displays of the event that have not been asked, then what the commands still to come will ask), and `heard` is
met in `past`, in its order. It is all of `past`, unless there is a `Doubt`: something printed that is no confirmation, something that will be printed of
the event at hand, or a command still to come that goes through an alert. The last is what makes it inductive: the commands that `-set_curvature`
becomes are not all printed, and what fails of those is owed to the printed one behind them (`Guarded`, which also says that none of them is a power-on). `AlertsSay`: nothing is recorded as the answer of a display that
was asked through an alert. `Met` and `FlattenSeq` are recursive functions; what is used of them (one more element at either end, lists end to end) is shown by
induction on a length, inside one set each.

**The service.** `ServedInv == PowerSays /\ (written = "arguments" /\ All(intent, ConsoleUnderstands) => AllServed)`. Order alone would be kept by a program that does nothing and says so.
While nothing fails (`Smooth`: no fault, no error printed, and none that will be of the event at hand), `heard` *is* `OfPaired(past)`: the
paired displays have done all that is not left. Each step that goes on to the next display either did the part of this one or leaves a fault or an error
(`DoneOrError`); the error of a power-on that ran out of time is printed, since a power-on is never one of the commands that are not (`Guarded`), and it is not
mistaken for the word of an alert (`PowerSays`). `WhatIsWrittenIsDone` is then `ConsoleReadsAsWritten` of a line that can be said. Both ask for `MaxFaults > 0`: the
number of failures is capped by that bound, and one that could not be counted would leave no trace in `NothingFailed`.

**The daemon's reading.** `ReadInv` says of a message, once received: if each of its commands is one that a message can say (`DaemonUnderstands`), then `AllDue`: what was
dispatched so far, and what the lines that are left give, are together `Intended(intent)`. `Gives(line, part)` is the heart of it: whatever lines stand behind this one, reading
it dispatches `part`, at once or by way of lines that the daemon writes anew and puts in front of the rest (`-set_curvature`, the service menus, the input that becomes a command), whose parts are `part`
in a row and of which none is written anew again. So `AllDue` is inductive: a line that is written anew leaves as much due as before. Below it are three layers.

- *The text*: a message is pieces with blanks between them, a piece a word or a word in quotes. A reader goes forward through the text; it is shown where
  it is when it has read a piece, and that it reads back the words that were written, with their quotes escaped (`StringSplit`) and, one level up, the
  lines of the commands (`MessageIsRead`). This needs that a blank before a hyphen is in no word (the next command starts there), and that a word in quotes is not a lone character.
- *The command*: the name finds its one operator, the words after its arguments the displays that are called so, and each display is asked once, in its order (`Asked`).
- *What is written anew*: the texts the daemon writes itself are read by the same lemmas.

`DaemonUnderstands` has one condition on the displays of the commands that are written anew: their names are written there without quotes, so a blank in
one, or a hyphen or a quote at its front, would make other words of it. The proof shows that a hyphen *within* such a name does no harm.

| Theorem | Says |
|---|---|
| `ConsoleIsRight` | `Spec => []ConsoleInv` |
| `ThreadLasts` | `Spec => []WakesWhileTrying` |
| `DisplaysDoItOnce` | `Spec => AskedOnce` (action property) |
| `SuccessIsTrue` | `Spec => SuccessMeansDone` (action property) |
| `ScheduleIsKept` | `Spec => []OrderInv` |
| `OrderIsKept` | `Spec => []HeardInOrder` |
| `NoErrorIsTrue` | `Spec => []NoErrorMeansDone` |
| `ServiceIsKept` | `MaxFaults > 0 => (Spec => []ServedInv)` |
| `WhatIsWrittenIsDone` | `MaxFaults > 0 => (Spec => [](All(intent, ConsoleUnderstands) => ConsoleReadsAsWritten))` |
| `ReadingIsKept` | `Spec => []ReadInv` |
| `MessageIsReadAsWritten` | `Spec => [](All(intent, DaemonUnderstands) => DaemonReadsAsWritten)` |

`IntentsAssumption` is what the reading needs of a line: its commands have words that are not empty, and as many arguments as `Arity` says. The properties say nothing of
a line that `ConsoleUnderstands` excludes: a word that begins with a hyphen is the next command.

`SettingsWithinLimits`, `WakeLoopRuns`, `ConnectedMeansOpened` and `EngineTypeCorrect` have no run of their own: the model checker would only repeat them.

### Only model-checked

- every liveness property: the prover has no support for fairness and ENABLED;
- `TypeOK` of `Daemon`: the bounds of its counters, `waited <= SuspendWait` and `elapsed <= InhibitDelay`, matter to the model checker
  only, and `LogindOK` has the rest;
- the converses in `ConsoleReadsAsWritten` and `DaemonReadsAsWritten`: that a line or message which cannot be said is *not* done as it was meant. They are true of the
  instance but not of all values of the constants (with no display paired nothing is to be done, and nothing is; two wrong readings may agree with what was
  meant). That what can be said is done is `WhatIsWrittenIsDone` and `MessageIsReadAsWritten`.

`ReadInv`, on the other hand, is proved and has no run: it quantifies over lists of lists, which TLC cannot enumerate. The property it is for has one.

## 6. What the models found

Three disagreements between the program and what it says of itself, each with a run that shows a shortest behaviour:

1. **A retry that never comes** (`client_livelock`). `onError` re-arms the one timer (`daemon/web_os_client.cpp:1002`) whatever it was
   waiting for. `expires_after` cancels a pending wait, its handler comes back to `onError` with `operation_aborted`, and so on. One failure while
   a retry is pending is enough. The retry limit does not end it. The button client has the same code (`daemon/button_client.cpp:428`).
2. **A power-off thrown away** (`client_dropped`). `onDelayedClose` closes a session that was idle when the timer was armed without a look at
   the work begun since (`daemon/web_os_client.cpp:422`); `README.md:107` says the daemon holds the lock until the TV acknowledged.
3. **The lock outlives logind's patience** (`daemon_deadline`). The wait of up to nine seconds inside `systemEvent(SUSPEND)` (`daemon/companion.cpp:388`)
   comes before the drain starts to count, and only the drain knows the limit (`daemon/main.cpp:113`).

Other behaviours a reader should know of are in the models, as the exceptions that the properties name:

- *Session*: a delayed request that becomes due takes the place of the work in progress, a power-off included (`OnDelayedRequest`, outcome `replaced`).
- *Pool*: two threads in `processEvent` at once; the late `ioc_reset_.store(true)` of one (`daemon/companion.cpp:456`) meets the running
  pool of the other, `isBusy` denies the work, and the power handler does not wait (`met`).
- *Daemon*: a sleep asked for while the start or an earlier wake-up still waits for the network leaves displays lit (`haste`): the engine has not
  been told that they are on, and sends nothing; a request before the monitor heard of the last wake-up finds no lock; a cancelled shutdown
  leaves no lock and `shutdown_handled_` set.
- *Helper*: a signal between test and wait of the main thread is lost.
- *Daemon and session*: a power-off that is given up or dropped lets the lock go over a lit display, and a power-on that is leaves it dark for a user who
  is there; nothing asks again (`Missed`).
- *Settings*: an Apply that cannot open the file says nothing and restarts the service with the old settings; an entry that the dialog makes another
  display's keeps the key of the first; a torn `config.json` stops the daemon from starting although the window says that Apply writes a new one (`gui/main_window.cpp:42`; Apply
  reads the file first and refuses); a key stored while the window writes, or by a daemon that still has the entry's old name, is lost or goes
  to the wrong entry; the key of a display without a MAC address is lost by Apply; a daemon started by hand keeps its old settings when
  the service is enabled; an entry of the fourth wake method leaves the dialog with the first.
- *Commands* (`DaemonUnderstands`, `ConsoleUnderstands`): both programs look at the first character of an input only (`cli/console.cpp:289`), so `-sethdmi 20` selects
  the second one; a blank before a hyphen ends a command also in quotes, which `Docs/Commandline.md` says
  escape both; a quoted word of one character is dropped, and the command goes to every display; commands that are written anew lose the
  quotes of names; a display that is named twice is asked twice by the daemon and once by the command line program; an argument of the latter
  that begins with a hyphen is a command, quotes or not, as the shell has taken them.
- *Command line program*: the flag that ends the waking thread is never reset, so that a second power-on sends no packet; a display with
  the subnet broadcast and an address or subnet that has not four parts is tried without a packet; one that accepts a connection and is silent holds the program for ever.

## 7. What is not modelled

- **Session**: the text of requests, the keep-alive pings of the web socket library, and data races between the strands: the handlers of the timers have strands
  of their own, while the model runs one handler at a time.
- **Engine**: the HDMI input that follows a power-on; what is told to API clients; the log; events nothing on Linux sends (screen saver,
  dimming, `RESUMEAUTO`). Of the daemon's own idle monitor, `systemEvent` drops what it sends (`daemon/main.cpp:232-247`).
- **Daemon**: its stop (`daemon/main.cpp:271-290`) and its start without a bus; what a user reports while the machine goes down.
- **Control socket**: `send` to clients and the persistent `IpcClient`, which only API programs outside the repository use.
- **Preferences**: a file that exists and cannot be opened for reading; settings that are carried along unchanged (lists of processes, wake locks, streaming, keys of the Windows version); ten or
  more displays, where the file's order of names differs from the numbers.
- **Window**: its widgets and the status it shows, the test of a display (which sends messages), polkit, the text of the unit.
- **Parser and command line program**: JSON is accepted or not, and its text is left out; three commands (a range, a range below zero, a list with
  an input) stand for the 74 of the table; results and their text; the bytes of a magic packet, and its address (but for one that cannot be made); `iterateJsonKeys`. Of `common/tools.cpp` wildcards (used nowhere
  on Linux), subnets, interfaces and raw packets, which are calls of the system.
- **Not stateful**: logging and paths. The two test programs are not part of the program.

External code (boost::asio and beast, the display, D-Bus, logind, the compositor) is modelled from the way the code uses it and marked
`external` in the map.

## 8. Plan

The order was: the session first, as it carries out every promise; then the pool that keeps it running; the engine that tells it what to
do; the daemon around the engine; the helper and the socket; the button client; the file, the window and the service; the promise of a session as an
abstract specification; and the commands of the two programs. All of these are in place. What is left:

1. *Proofs*: for which values of the constants the converses in `ConsoleReadsAsWritten` and `DaemonReadsAsWritten` hold.
2. *Model*: the persistent IPC client and the server's `send`; the session with its timer handlers split at reads and writes of shared
   members (the races between strands); ten or more displays in `Settings`.
3. *Abstract specifications*: a register of the last report, implemented by helper and socket; a keyed store, implemented by file and
   window while there is no clash.
