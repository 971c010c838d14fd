----------------------------- MODULE MessageParser -----------------------------
(***************************************************************************)
(* What the daemon does with a message of the control socket: ipcCallback    *)
(* and extractSeparateCommands of src/src/daemon/companion.cpp. A message     *)
(* holds command lines, a command line holds words, and a command becomes     *)
(* events for the engine, or a message of its own that is read at once.       *)
(*                                                                         *)
(* What the engine does with an event is in Companion; here it is noted for   *)
(* which display it is processed.                                           *)
(***************************************************************************)
EXTENDS Words

CONSTANT Streaming   \* remote_streaming_host_support_

VARIABLES
    commands,    \* the command lines that are left
    dispatched   \* what the sessions were given, a sequence of [ask, display]

parser == <<commands, dispatched>>

ParserInit == commands = <<>> /\ dispatched = <<>>

-----------------------------------------------------------------------------
(* From a message to words.                                                 *)

\* A blank before a hyphen ends a command line, also in quotes.
extractSeparateCommands(text) ==
    LET starts == {i \in Where(text, {Blank}) : i < Len(text) /\ text[i + 1] = Dash}
        next(i) == FirstOf(WhereNot(text, {Blank, Dash}), i, text)
        lines[i \in 1 .. Len(text) + 1] ==
          IF i > Len(text) THEN <<>>
          ELSE LET end == FirstOf(starts, i, text)
               IN  <<SubSeq(text, i, end - 1)>> \o lines[next(end)]
    IN  lines[FirstOf(WhereNot(text, {Dash}), 1, text)]

CommandLines(message) ==
    LET text == From(message, FirstOf(WhereNot(message, {Blank}), 1, message))
    IN  IF text # <<>> /\ text[1] = Dash THEN extractSeparateCommands(text) ELSE <<>>

\* \" is out of the way while the line is split.
WordsOf(line) ==
    LET words == stringsplit(line)
    IN  [i \in DOMAIN words |-> replaceAll(words[i], Escaped, Quote)]

-----------------------------------------------------------------------------
(* Commands. Each operator gives the events of its commands, none for others.  *)

Event(ask, to) == [ask |-> ask, to |-> to]

Is(words, names) == Len(words[1]) = 1 /\ words[1][1] \in names

Simple(ask) == Ask(ask, <<>>)

EventsIf(condition, event) == IF condition THEN <<event>> ELSE <<>>

\* Reports of the helpers; the kind is the third word.
DaemonCommand(words) ==
    LET kind == words[3][1]
    IN  IF ~Is(words, {"daemon"}) \/ Len(words) < 3 \/ words[3] = <<>> THEN <<>>
        ELSE EventsIf(kind \in {"remote_connect", "remote_disconnect", "userbusy", "useridle"},
                      Event(Simple(kind), <<>>))
               \o EventsIf(kind = "topology" /\ Len(words) > 3
                             /\ words[4] \in {<<"invalid">>, <<"state">>},
                           Event(Ask("topology", Devices(words, 3)), <<>>))

\* poweron and screenon are one event.
Forced(name) == IF name = "screenon" THEN "poweron" ELSE name

PowerCommand(words) ==
    EventsIf(Is(words, {"poweron", "poweroff", "screenon", "screenoff", "autoenable",
                        "autodisable"}),
             Event(Simple(Forced(words[1][1])), Devices(words, 1)))
      \o EventsIf(Is(words, {"streaming_connect", "streaming_disconnect"}) /\ Streaming,
                  Event(Simple(IF words[1][1] = "streaming_connect" THEN "remote_connect"
                                                                    ELSE "remote_disconnect"),
                        <<>>))

\* The input is part of the command or an argument of its own.
HdmiCommand(words) ==
    LET joined == Len(words[1]) > 1
        input == IF joined THEN <<words[1][2]>>
                 ELSE IF Len(words) > 1 THEN SubSeq(words[2], 1, 1) ELSE <<>>
    IN  EventsIf(/\ words[1] # <<>>
                 /\ words[1][1] = "sethdmi"
                 /\ validateArgument(input, {<<"1">>, <<"2">>, <<"3">>, <<"4">>}) # <<>>,
                 Event(HdmiApp(input), Devices(words, IF joined THEN 1 ELSE 2)))

\* Mutant: the level is taken as it is.
SoundCommandUnlimited(words) ==
    EventsIf(Is(words, {"volume"}) /\ Len(words) > 1,
             Event(Ask("setVolume", <<words[2]>>), Devices(words, 2)))
      \o EventsIf(Is(words, {"mute"}), Event(Ask("setMute", <<<<"true">>>>), Devices(words, 1)))
      \o EventsIf(Is(words, {"unmute"}), Event(Simple("setMute"), Devices(words, 1)))

SoundCommand(words) ==
    EventsIf(Is(words, {"volume"}) /\ Len(words) > 1,
             Event(Ask("setVolume", <<Level(words[2], 0, 100)>>), Devices(words, 2)))
      \o EventsIf(Is(words, {"mute"}), Event(Ask("setMute", <<<<"true">>>>), Devices(words, 1)))
      \o EventsIf(Is(words, {"unmute"}), Event(Simple("setMute"), Devices(words, 1)))

Enabled(name) == IF name \in {"servicemenu_tpc_enable", "servicemenu_gsr_enable"}
                 THEN <<"true">> ELSE <<"false">>

PanelCommand(words) ==
    EventsIf(Is(words, {"servicemenu_tpc_enable", "servicemenu_tpc_disable"}),
             Event(Ask("setTemporalPeakControl", <<Enabled(words[1][1])>>), Devices(words, 1)))
      \o EventsIf(Is(words, {"servicemenu_gsr_enable", "servicemenu_gsr_disable"}),
                  Event(Ask("setGlobalStressReduction", <<Enabled(words[1][1])>>),
                        Devices(words, 1)))

ButtonCommand(words) ==
    EventsIf(Is(words, {"button"}) /\ Len(words) > 1
               /\ validateArgument(words[2], Buttons) # <<>>,
             Event(Ask("button", <<words[2]>>), Devices(words, 2)))

SettingsCategory(name) ==
    IF name = "settings_picture" THEN <<"picture">>
    ELSE IF name = "settings_other" THEN <<"other">> ELSE <<"option">>

\* A payload that cannot be parsed is left out of the request, which is made all the same.
SettingsCommand(words) ==
    EventsIf(Is(words, {"settings_picture", "settings_other", "settings_options"})
               /\ Len(words) > 1,
             Event(SetSettings(SettingsCategory(words[1][1]),
                               IF IsJson(words[2]) THEN Dumped(words[2]) ELSE <<>>),
                   Devices(words, 2)))

RequestCommand(words) ==
    EventsIf(Is(words, {"request"}) /\ Len(words) > 1,
             Event(Ask("ssap", <<words[2]>>), Devices(words, 2)))
      \o EventsIf(Is(words, {"request_with_param"}) /\ Len(words) > 2 /\ IsJson(words[3]),
                  Event(Ask("ssap", <<words[2], Dumped(words[3])>>), Devices(words, 3)))

AppCommand(words) ==
    EventsIf(Is(words, {"start_app"}) /\ Len(words) > 1,
             Event(Launch(words[2]), Devices(words, 2)))
      \o EventsIf(Is(words, {"start_app_with_param"}) /\ Len(words) > 2 /\ IsJson(words[3]),
                  Event(LaunchWith(words[2], Dumped(words[3])), Devices(words, 3)))
      \o EventsIf(Is(words, {"close_app"}) /\ Len(words) > 1,
                  Event(Ask("close", <<words[2]>>), Devices(words, 2)))

Preset(word) ==
    IF word \in {<<"0">>, <<"flat">>} THEN <<"flat">>
    ELSE IF word \in {<<"1">>, <<"2">>, <<"3">>} THEN <<"curvature">> \o word ELSE <<>>

CurveCommand(words) ==
    EventsIf(Is(words, {"set_curve_preset"}) /\ Len(words) > 1 /\ Preset(words[2]) # <<>>,
             Event(Ask("changeCurve", <<Preset(words[2])>>), Devices(words, 2)))
      \o EventsIf(Is(words, {"adjust_curve_preset"}) /\ Len(words) > 2
                    /\ Preset(words[2]) \notin {<<>>, <<"flat">>},
                  Event(Ask("updateCurvature", <<Preset(words[2]), Level(words[3], 0, 100)>>),
                        Devices(words, 3)))

InputTypeCommand(words) ==
    EventsIf(Is(words, {"set_input_type"}) /\ Len(words) > 3,
             Event(SetDeviceInfo(words[2], words[3], words[4]), Devices(words, 4)))

TableCommand(words) ==
    LET name == words[1][1]
        argument == IF HasRange(name) THEN Level(words[2], Min_(name), Max_(name))
                                      ELSE validateArgument(words[2], Argument(name))
    IN  EventsIf(Is(words, ApiCommands) /\ Len(words) > 1 /\ argument # <<>>,
                 Event(IF Len(Setting(name)) > 1
                       THEN SetSettings(Category(name), Setting(name) \o argument)
                       ELSE SetSetting(Category(name), Setting(name), argument),
                       Devices(words, 2)))

EventsOf(words) ==
    DaemonCommand(words) \o PowerCommand(words) \o HdmiCommand(words) \o SoundCommand(words)
      \o PanelCommand(words) \o ButtonCommand(words) \o SettingsCommand(words)
      \o RequestCommand(words) \o AppCommand(words) \o CurveCommand(words)
      \o InputTypeCommand(words) \o TableCommand(words)

-----------------------------------------------------------------------------
(* Commands that are written as other commands, and read again.              *)

\* The devices are appended without their quotes.
WithDevices(text, devices) ==
    text \o FlattenSeq([i \in DOMAIN devices |-> <<Blank>> \o devices[i]])

AppMessage(app, key, value) ==
    <<Dash, "start_app_with_param", Blank, app, Blank, Quote, "{", Escaped, key, Escaped, ":",
      Blank, Escaped, value, Escaped, "}", Quote>>

MenuMessages(words) ==
    LET devices == Devices(words, 1)
        legacy(value) == <<Dash, "settings_other", Blank, Quote, "{", Escaped, "svcMenuFlag",
                           Escaped, ":", value, "}", Quote>>
        message == [
          freesyncinfo |-> AppMessage("com.webos.app.tvhotkey", "activateType", "freesync-info"),
          servicemenu |-> AppMessage("com.webos.app.factorywin", "irKey", "inStart"),
          servicemenu_legacy_enable |-> legacy("false"),
          servicemenu_legacy_disable |-> legacy("true")]
    IN  IF Is(words, DOMAIN message) THEN <<WithDevices(message[words[1][1]], devices)>> ELSE <<>>

\* Flat is a preset; any other curvature is given to two presets, and both are chosen.
CurvatureMessages(words) ==
    LET devices == Devices(words, 2)
        level == Level(words[2], 0, 100)
        adjust(preset) == <<Dash, "adjust_curve_preset", Blank, preset, Blank>> \o level
        choose(preset) == <<Dash, "set_curve_preset", Blank, preset>>
        messages == IF words[2] = <<"flat">> \/ level = <<"0">> THEN <<choose("flat")>>
                    ELSE <<adjust("2"), adjust("3"), choose("3"), choose("2")>>
    IN  IF ~Is(words, {"set_curvature"}) \/ Len(words) < 2 THEN <<>>
        ELSE [i \in DOMAIN messages |-> WithDevices(messages[i], devices)]

-----------------------------------------------------------------------------
(* The daemon.                                                              *)

\* dispatchEvent: every display, or the displays that a word of the event names, for each word.
For(event) ==
    LET request(d) == [ask |-> event.ask, display |-> d]
        given(d) == IF event.to = <<>> THEN <<request(d)>>
                    ELSE FlattenSeq([i \in DOMAIN event.to |->
                           IF Called(d, event.to[i]) THEN <<request(d)>> ELSE <<>>])
    IN  FlattenSeq([d \in Displays |-> given(d)])

Dispatched(events) == FlattenSeq([i \in DOMAIN events |-> For(events[i])])

Receive(message) ==
    /\ commands = <<>>
    /\ commands' = CommandLines(message)
    /\ UNCHANGED dispatched

ReadCommand ==
    /\ commands # <<>>
    /\ LET words == WordsOf(Head(commands))
           messages == MenuMessages(words) \o CurvatureMessages(words)
       IN  IF words = <<>> THEN commands' = Tail(commands) /\ UNCHANGED dispatched
           ELSE /\ commands' = FlattenSeq([i \in DOMAIN messages |-> CommandLines(messages[i])])
                                 \o Tail(commands)
                /\ dispatched' = dispatched \o Dispatched(EventsOf(words))
================================================================================
