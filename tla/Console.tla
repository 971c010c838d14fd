-------------------------------- MODULE Console --------------------------------
(***************************************************************************)
(* The command line program, src/src/cli/console.cpp. It does not talk to    *)
(* the daemon: it reads its arguments as commands, connects to each display  *)
(* in turn, waits for the answer, and prints the answers of a command before  *)
(* it goes on to the next. A power-on is tried again until the display is     *)
(* active or its time is up, while a thread of its own wakes the display.     *)
(*                                                                         *)
(* Time passes by Tick, in seconds, as far as somebody waits for it: what is  *)
(* counted from some moment stays at TimeUp once it got there.               *)
(***************************************************************************)
EXTENDS Words

CONSTANTS
    Paired,      \* displays with a pairing key
    WithMac,     \* displays with a MAC address
    Malformed,   \* those with the subnet broadcast for a wake method and an address or a
                 \* subnet that has not four parts
    Timeout,     \* power_on_timeout_, seconds
    MaxFaults    \* bound: faults of the displays that answer; any number of them are off

ASSUME ConsoleAssumption ==
    /\ Paired \subseteq Displays /\ WithMac \subseteq Displays /\ Malformed \subseteq Displays
    /\ Timeout \in Nat /\ MaxFaults \in Nat

VARIABLES
    left,       \* the commands left: [words, printed], whether the result is printed
    format,     \* json_output_type
    printed,    \* the results printed: [format, says, answers]
    work,       \* the event: [event, printed, display, answers], the display of the loop
    link,       \* where the exchange with that display is
    trying,     \* the loop of PowerOnDevice: [elapsed, fresh, nap], fresh within a second
    wol,        \* the latest Thread_WOL of each display: [at, elapsed, nap]
    terminate,  \* bTerminateThread
    heard,      \* what the displays carried out, a sequence of [ask, display]
    silent,     \* displays that accept a connection and never answer
    faults      \* faults so far, at most MaxFaults

console == <<left, format, printed, work, link, trying, wol, terminate, heard, silent, faults>>

TimeUp == Timeout + 1

NoAnswers == [d \in Displays |-> {}]

NoWork == [event |-> <<>>, printed |-> FALSE, display |-> 0, answers |-> NoAnswers]

NoThread == [at |-> "none", elapsed |-> 0, nap |-> FALSE]

-----------------------------------------------------------------------------
(* From arguments to commands.                                              *)

Begins(argv) == {i \in DOMAIN argv : argv[i] # <<>> /\ argv[i][1] = Dash}

\* An argument that begins with a hyphen begins a command.
CommandsOf(argv) ==
    LET begins == Begins(argv)
        end(i) == FirstOf(begins, i + 1, argv) - 1
        commands == [i \in DOMAIN argv |->
                       IF i \in begins
                       THEN <<[words |-> SubSeq(argv, i, end(i)), printed |-> TRUE]>> ELSE <<>>]
    IN  IF argv = <<>> \/ 1 \notin begins THEN <<>> ELSE FlattenSeq(commands)

-----------------------------------------------------------------------------
(* ProcessCommand. Each operator gives what its commands come to: nothing for   *)
(* other commands, and otherwise what is said at once, the event that is        *)
(* processed, or the commands that are processed instead.                       *)

Named(words, names) == Len(words[1]) = 2 /\ words[1][2] \in names

Says(what) == <<[says |-> what, event |-> <<>>, again |-> <<>>]>>

Sends(ask, to) == <<[says |-> "answers", event |-> [ask |-> ask, to |-> to], again |-> <<>>]>>

Again(commands) == <<[says |-> "again", event |-> <<>>, again |-> commands]>>

\* An argument is missing, invalid or no JSON.
OrError(condition, outcome) == IF condition THEN outcome ELSE Says("error")

OutputReads(words) ==
    IF Named(words, {"help"}) THEN Says("help")
    ELSE IF Named(words, {"of"}) THEN Says("friendly")
    ELSE IF Named(words, {"od"}) THEN Says("default")
    ELSE IF Named(words, {"ok"}) THEN OrError(Len(words) > 1, Says("field"))
    ELSE IF ~Named(words, {"output"}) THEN <<>>
    ELSE OrError(/\ Len(words) > 1
                 /\ \/ words[2] \in {<<"friendly">>, <<"default">>}
                    \/ words[2] = <<"key">> /\ Len(words) > 2,
                 Says(IF words[2] = <<"key">> THEN "field" ELSE words[2][1]))

PowerReads(words) ==
    IF Named(words, {"poweron", "screenon"}) THEN Sends(Ask("poweron", <<>>), Devices(words, 1))
    ELSE IF Named(words, {"poweroff", "screenoff"})
         THEN Sends(Ask(words[1][2], <<>>), Devices(words, 1)) ELSE <<>>

HdmiReads(words) ==
    LET joined == Len(words[1]) > 2
        input == IF joined THEN <<words[1][3]>>
                 ELSE IF Len(words) > 1 THEN SubSeq(words[2], 1, 1) ELSE <<>>
    IN  IF Len(words[1]) < 2 \/ words[1][2] # "sethdmi" THEN <<>>
        ELSE OrError(validateArgument(input, {<<"1">>, <<"2">>, <<"3">>, <<"4">>}) # <<>>,
                     Sends(HdmiApp(input), Devices(words, IF joined THEN 1 ELSE 2)))

SoundReads(words) ==
    IF Named(words, {"volume"})
    THEN OrError(Len(words) > 1,
                 Sends(Ask("setVolume", <<Level(words[2], 0, 100)>>), Devices(words, 2)))
    ELSE IF Named(words, {"mute"})
    THEN Sends(Ask("setMute", <<<<"true">>>>), Devices(words, 1))
    ELSE IF Named(words, {"unmute"}) THEN Sends(Ask("setMute", <<>>), Devices(words, 1)) ELSE <<>>

\* Mutant: the devices are left behind.
RewrittenForAll(words, offset, command) == <<[words |-> command, printed |-> TRUE]>>

\* Another command for the same devices.
Rewritten(words, offset, command) ==
    <<[words |-> command \o Devices(words, offset), printed |-> TRUE]>>

AppCommandFor(app, key, value) ==
    <<<<Dash, "start_app_with_param">>, <<app>>,
      <<"{", Quote, key, Quote, ":", Quote, value, Quote, "}">>>>

LegacyCommandFor(value) ==
    <<<<Dash, "settings_other">>, <<"{", Quote, "svcMenuFlag", Quote, ":", value, "}">>>>

MenuReads(words) ==
    LET command == [servicemenu |-> AppCommandFor("com.webos.app.factorywin", "irKey", "inStart"),
                    freesyncinfo |-> AppCommandFor("com.webos.app.tvhotkey", "activateType",
                                                   "freesync-info"),
                    servicemenu_legacy_enable |-> LegacyCommandFor("false"),
                    servicemenu_legacy_disable |-> LegacyCommandFor("true")]
    IN  IF Named(words, DOMAIN command)
        THEN Again(Rewritten(words, 1, command[words[1][2]])) ELSE <<>>

PanelReads(words) ==
    LET enable(name) == IF words[1][2] = name THEN <<"true">> ELSE <<"false">>
    IN  IF Named(words, {"servicemenu_tpc_enable", "servicemenu_tpc_disable"})
        THEN Sends(Ask("setTemporalPeakControl", <<enable("servicemenu_tpc_enable")>>),
                   Devices(words, 1))
        ELSE IF Named(words, {"servicemenu_gsr_enable", "servicemenu_gsr_disable"})
        THEN Sends(Ask("setGlobalStressReduction", <<enable("servicemenu_gsr_enable")>>),
                   Devices(words, 1))
        ELSE <<>>

ButtonReads(words) ==
    IF Named(words, {"button"})
    THEN OrError(Len(words) > 1 /\ validateArgument(words[2], Buttons) # <<>>,
                 Sends(Ask("button", <<words[2]>>), Devices(words, 2)))
    ELSE IF Named(words, {"button_nocheck"})
    THEN OrError(Len(words) > 1, Sends(Ask("button", <<words[2]>>), Devices(words, 2)))
    ELSE <<>>

SettingsReads(words) ==
    LET category == [settings_picture |-> <<"picture">>, settings_other |-> <<"other">>,
                     settings_options |-> <<"option">>]
    IN  IF ~Named(words, DOMAIN category) THEN <<>>
        ELSE OrError(Len(words) > 1 /\ IsJson(words[2]),
                     Sends(SetSettings(category[words[1][2]], Dumped(words[2])),
                           Devices(words, 2)))

RequestReads(words) ==
    IF Named(words, {"request"})
    THEN OrError(Len(words) > 1, Sends(Ask("ssap", <<words[2]>>), Devices(words, 2)))
    ELSE IF Named(words, {"request_with_param"})
    THEN OrError(Len(words) > 2 /\ IsJson(words[3]),
                 Sends(Ask("ssap", <<words[2], Dumped(words[3])>>), Devices(words, 3)))
    ELSE IF Named(words, {"get_system_settings"})
    THEN OrError(Len(words) > 2 /\ IsJson(words[3]),
                 Sends(Ask("getSystemSettings", <<words[2], Dumped(words[3])>>),
                       Devices(words, 3)))
    ELSE <<>>

AppReads(words) ==
    IF Named(words, {"start_app"})
    THEN OrError(Len(words) > 1, Sends(Launch(words[2]), Devices(words, 2)))
    ELSE IF Named(words, {"start_app_with_param"})
    THEN OrError(Len(words) > 2 /\ IsJson(words[3]),
                 Sends(LaunchWith(words[2], Dumped(words[3])), Devices(words, 3)))
    ELSE IF Named(words, {"close_app"})
    THEN OrError(Len(words) > 1, Sends(Ask("close", <<words[2]>>), Devices(words, 2)))
    ELSE <<>>

CurvePreset(word) ==
    IF word \in {<<"0">>, <<"flat">>} THEN <<"flat">>
    ELSE IF word \in {<<"1">>, <<"2">>, <<"3">>} THEN <<"curvature">> \o word ELSE <<>>

CurveReads(words) ==
    IF Named(words, {"set_curve_preset"})
    THEN OrError(Len(words) > 1 /\ CurvePreset(words[2]) # <<>>,
                 Sends(Ask("changeCurve", <<CurvePreset(words[2])>>), Devices(words, 2)))
    ELSE IF Named(words, {"adjust_curve_preset"})
    THEN OrError(Len(words) > 2 /\ CurvePreset(words[2]) \notin {<<>>, <<"flat">>},
                 Sends(Ask("updateCurvature", <<CurvePreset(words[2]), Level(words[3], 0, 100)>>),
                       Devices(words, 3)))
    ELSE <<>>

\* Of the four commands of a curvature only the result of the last is printed.
CurvatureReads(words) ==
    LET level == Level(words[2], 0, 100)
        adjust(preset) == <<<<Dash, "adjust_curve_preset">>, <<preset>>, level>>
        choose(preset) == <<<<Dash, "set_curve_preset">>, <<preset>>>>
        commands == IF words[2] = <<"flat">> \/ level = <<"0">> THEN <<choose("flat")>>
                    ELSE <<adjust("2"), adjust("3"), choose("3"), choose("2")>>
    IN  IF ~Named(words, {"set_curvature"}) THEN <<>>
        ELSE OrError(Len(words) > 1,
                     Again([i \in DOMAIN commands |->
                              [words |-> commands[i] \o Devices(words, 2),
                               printed |-> i = Len(commands)]]))

InputTypeReads(words) ==
    IF ~Named(words, {"set_input_type"}) THEN <<>>
    ELSE OrError(Len(words) > 3,
                 Sends(SetDeviceInfo(words[2], words[3], words[4]), Devices(words, 4)))

TableReads(words) ==
    LET name == words[1][2]
        argument == IF HasRange(name) THEN Level(words[2], Min_(name), Max_(name))
                                      ELSE validateArgument(words[2], Argument(name))
    IN  IF ~Named(words, ApiCommands) THEN <<>>
        ELSE OrError(Len(words) > 1 /\ argument # <<>>,
                     Sends(IF Len(Setting(name)) > 1
                           THEN SetSettings(Category(name), Setting(name) \o argument)
                           ELSE SetSetting(Category(name), Setting(name), argument),
                           Devices(words, 2)))

ProcessCommand(words) ==
    LET outcome == OutputReads(words) \o PowerReads(words) \o HdmiReads(words)
                     \o SoundReads(words) \o MenuReads(words) \o PanelReads(words)
                     \o ButtonReads(words) \o SettingsReads(words) \o RequestReads(words)
                     \o AppReads(words) \o CurveReads(words) \o CurvatureReads(words)
                     \o InputTypeReads(words) \o TableReads(words)
    IN  IF outcome = <<>> THEN Says("error")[1] ELSE outcome[1]

-----------------------------------------------------------------------------
(* main and ProcessEvent.                                                   *)

At(place) == work # NoWork /\ link = place

\* The program was started with these arguments.
Start(argv) ==
    /\ left = CommandsOf(argv)
    /\ format = "default"
    /\ printed = <<>>
    /\ work = NoWork
    /\ link = "none"
    /\ trying = [elapsed |-> 0, fresh |-> FALSE, nap |-> FALSE]
    /\ wol = [d \in Displays |-> NoThread]
    /\ terminate = FALSE
    /\ heard = <<>>
    /\ silent \in SUBSET Paired
    /\ faults = 0

Result(says, answers) == [format |-> format, says |-> says, answers |-> answers]

PrintIf(wanted, result) == printed' = IF wanted THEN Append(printed, result) ELSE printed

\* The next command: what it says, the event it sends, or the commands it stands for.
ReadArguments ==
    /\ work = NoWork
    /\ left # <<>>
    /\ LET outcome == ProcessCommand(Head(left).words)
           wanted == Head(left).printed
       IN  /\ left' = outcome.again \o Tail(left)
           /\ format' = IF outcome.says \in {"default", "friendly", "field"} THEN outcome.says
                                                                           ELSE format
           /\ work' = IF outcome.says = "answers"
                      THEN [NoWork EXCEPT !.event = outcome.event, !.printed = wanted]
                      ELSE NoWork
           /\ PrintIf(wanted /\ outcome.says \in {"error", "help"},
                    Result(outcome.says, NoAnswers))
    /\ UNCHANGED <<link, trying, wol, terminate, heard, silent, faults>>

Matches(event) ==
    {d \in Displays : event.to = <<>> \/ \E i \in DOMAIN event.to : Called(d, event.to[i])}

Further == {d \in Matches(work.event) : d > work.display}

Closest == CHOOSE d \in Further : \A e \in Further : d <= e

IsPowerOn == work.event.ask.on = "poweron"

\* The next display of the event. One without a key is not even tried.
NextDisplay ==
    /\ At("none")
    /\ Further # {}
    /\ work' = [work EXCEPT !.display = Closest,
                           !.answers[Closest] = IF Closest \in Paired THEN {} ELSE {"error"}]
    /\ IF Closest \in Paired
       THEN /\ link' = IF IsPowerOn THEN "again" ELSE "connect"
            /\ trying' = [elapsed |-> 0, fresh |-> FALSE, nap |-> FALSE]
            /\ wol' = IF IsPowerOn THEN [wol EXCEPT ![Closest] = [NoThread EXCEPT !.at = "born"]]
                                   ELSE wol
       ELSE UNCHANGED <<link, trying, wol>>
    /\ UNCHANGED <<left, format, printed, terminate, heard, silent, faults>>

\* All displays of the event were asked.
PrintAnswers ==
    /\ At("none")
    /\ Further = {}
    /\ PrintIf(work.printed, Result(IF Matches(work.event) = {} THEN "error" ELSE "answers",
                                  work.answers))
    /\ work' = NoWork
    /\ UNCHANGED <<left, format, link, trying, wol, terminate, heard, silent, faults>>

-----------------------------------------------------------------------------
(* SendRequest, SendButtonRequest and PowerOnDevice: an exchange with a display. *)

Kind ==
    IF IsPowerOn THEN "power"
    ELSE IF work.event.ask.on = "button" THEN "button"
    ELSE IF work.event.ask.on \in ThroughAlert THEN "alert" ELSE "plain"

\* What is written, each with its answer, between the connection and its close.
Course ==
    [plain  |-> <<"connect", "register", "ask", "close">>,
     alert  |-> <<"connect", "register", "create", "alert", "close">>,
     button |-> <<"connect", "register", "socket", "reconnect", "press", "close">>,
     power  |-> <<"connect", "register", "unblank", "state", "close">>][Kind]

\* The connection is closed after the course, after an invalid key, after the display is on.
Closings == {"close", "dismiss", "part"}

Stages == {"connect", "register", "ask", "create", "alert", "socket", "reconnect", "press",
           "unblank", "state"} \cup Closings

Following(stage) == Course[1 + CHOOSE i \in DOMAIN Course : Course[i] = stage]

\* The display does what it was asked.
Effect == {"ask", "alert", "press"}

Answer(mark) == work' = [work EXCEPT !.answers[work.display] = @ \cup {mark}]

Carried == Append(heard, [ask |-> work.event.ask, display |-> work.display])

Answers == work.display \notin silent

\* Something goes wrong.
Fault == faults' = IF faults < MaxFaults THEN faults + 1 ELSE faults

\* The end of the exchange; PowerOnDevice also tells its thread, and every later one.
Leave ==
    /\ link' = "none"
    /\ terminate' = (terminate \/ IsPowerOn)

Succeeds ==
    /\ link \in Stages \ ({"state"} \cup Closings)
    /\ link = "connect" \/ Answers
    /\ link' = Following(link)
    /\ IF link \in Effect
       THEN heard' = Carried /\ Answer(IF link = "alert" THEN "info" ELSE "payload")
       ELSE UNCHANGED <<heard, work>>
    /\ UNCHANGED <<left, format, printed, trying, wol, terminate, silent, faults>>

\* Whether the display is on.
PowerState ==
    /\ link = "state"
    /\ Answers
    /\ \/ /\ link' = "part"
          /\ heard' = IF "payload" \in work.answers[work.display] THEN heard ELSE Carried
          /\ Answer("payload")
          /\ UNCHANGED faults
       \/ /\ link' = "close"
          /\ Fault
          /\ UNCHANGED <<heard, work>>
    /\ UNCHANGED <<left, format, printed, trying, wol, terminate, silent>>

\* A key that is not valid ends the exchange, a request that is refused goes to its close. The
\* answer to the close of an alert, by which the setting is made, is not looked at.
Refused ==
    /\ link \in {"register", "ask", "create", "alert", "socket"}
    /\ Answers
    /\ faults < MaxFaults
    /\ Fault
    /\ Answer(IF link = "alert" THEN "info" ELSE "error")
    /\ link' = IF link = "register" THEN "dismiss" ELSE "close"
    /\ UNCHANGED <<left, format, printed, trying, wol, terminate, heard, silent>>

\* The end of an attempt to power on that was not the last.
Rests ==
    /\ link' = IF trying.fresh THEN "nap" ELSE "again"
    /\ trying' = [trying EXCEPT !.nap = trying.fresh]

Closes ==
    /\ link \in Closings
    /\ Answers
    /\ IF IsPowerOn /\ link = "close"
       THEN Rests /\ UNCHANGED terminate
       ELSE Leave /\ UNCHANGED trying
    /\ UNCHANGED <<left, format, printed, work, wol, heard, silent, faults>>

\* Mutant: a failed exchange is made again.
FailsAndRepeats ==
    /\ link \in Stages
    /\ link = "connect" \/ faults < MaxFaults
    /\ Fault
    /\ heard' \in {heard} \cup (IF link \in Effect THEN {Carried} ELSE {})
    /\ IF IsPowerOn THEN Rests /\ UNCHANGED <<terminate, work>>
                    ELSE link' = "connect" /\ UNCHANGED <<terminate, work, trying>>
    /\ UNCHANGED <<left, format, printed, wol, silent>>

\* Mutant: the exception is dropped.
FailsQuietly ==
    /\ link \in Stages
    /\ link = "connect" \/ faults < MaxFaults
    /\ Fault
    /\ heard' \in {heard} \cup (IF link \in Effect THEN {Carried} ELSE {})
    /\ IF IsPowerOn THEN Rests /\ UNCHANGED <<terminate, work>>
                    ELSE Leave /\ UNCHANGED <<trying, work>>
    /\ UNCHANGED <<left, format, printed, wol, silent>>

\* An exception, before or after the display did what it was asked. Only a power-on goes
\* on after it.
Fails ==
    /\ link \in Stages
    /\ link = "connect" \/ faults < MaxFaults
    /\ Fault
    /\ heard' \in {heard} \cup (IF link \in Effect THEN {Carried} ELSE {})
    /\ IF IsPowerOn THEN Rests /\ UNCHANGED <<terminate, work>>
                    ELSE Leave /\ Answer("error") /\ UNCHANGED trying
    /\ UNCHANGED <<left, format, printed, wol, silent>>

\* Mutant: each attempt has the whole time.
TriesAnew ==
    /\ link = "again"
    /\ trying.elapsed < TimeUp
    /\ link' = "connect"
    /\ trying' = [trying EXCEPT !.fresh = TRUE, !.elapsed = 0]
    /\ UNCHANGED <<left, format, printed, work, wol, terminate, heard, silent, faults>>

TriesAgain ==
    /\ link = "again"
    /\ trying.elapsed < TimeUp
    /\ link' = "connect"
    /\ trying' = [trying EXCEPT !.fresh = TRUE]
    /\ UNCHANGED <<left, format, printed, work, wol, terminate, heard, silent, faults>>

GivesUp ==
    /\ link = "again"
    /\ trying.elapsed >= TimeUp
    /\ IF "payload" \in work.answers[work.display] THEN UNCHANGED work ELSE Answer("error")
    /\ Leave
    /\ UNCHANGED <<left, format, printed, trying, wol, heard, silent, faults>>

Wakes ==
    /\ link = "nap"
    /\ ~trying.nap
    /\ link' = "again"
    /\ UNCHANGED <<left, format, printed, work, trying, wol, terminate, heard, silent, faults>>

Exchange ==
    /\ work # NoWork
    /\ \/ Succeeds \/ PowerState \/ Refused \/ Closes \/ Fails
       \/ TriesAgain \/ GivesUp \/ Wakes

-----------------------------------------------------------------------------
(* Thread_WOL, and the clock.                                               *)

\* The displays that a packet can be sent to. The thread of another ends at once, and the
\* program tries on without it.
Wakeable == WithMac \ Malformed

MayWake(d) == d \in Wakeable /\ ~terminate /\ wol[d].elapsed < TimeUp

\* Mutant: one packet is enough.
WolSendsOnce(d) ==
    /\ wol[d].at \in {"born", "run"}
    /\ ~wol[d].nap
    /\ wol' = [wol EXCEPT ![d].at = IF MayWake(d) /\ wol[d].at = "born"
                                    THEN "run" ELSE "ended",
                         ![d].nap = TRUE]
    /\ UNCHANGED <<left, format, printed, work, link, trying, terminate, heard, silent, faults>>

\* A packet, and a second of sleep.
WolSends(d) ==
    /\ wol[d].at \in {"born", "run"}
    /\ ~wol[d].nap
    /\ wol' = [wol EXCEPT ![d].at = IF MayWake(d) THEN "run" ELSE "ended",
                         ![d].nap = MayWake(d)]
    /\ UNCHANGED <<left, format, printed, work, link, trying, terminate, heard, silent, faults>>

Later(n) == IF n < TimeUp THEN n + 1 ELSE n

Trying == IsPowerOn /\ link # "none"

Tick ==
    /\ work # NoWork
    /\ Trying
    /\ trying' = [elapsed |-> Later(trying.elapsed), fresh |-> FALSE, nap |-> FALSE]
    /\ wol' = [d \in Displays |->
                 IF wol[d].at = "run"
                 THEN [wol[d] EXCEPT !.elapsed = Later(@), !.nap = FALSE] ELSE wol[d]]
    /\ UNCHANGED <<left, format, printed, work, link, terminate, heard, silent, faults>>

ConsoleNext ==
    \/ ReadArguments \/ NextDisplay \/ PrintAnswers \/ Exchange \/ Tick
    \/ \E d \in Displays : WolSends(d)

Ended == left = <<>> /\ work = NoWork
================================================================================
