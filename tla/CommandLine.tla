------------------------------ MODULE CommandLine ------------------------------
(***************************************************************************)
(* The two command line interfaces side by side. A user has some commands in *)
(* mind and writes them down as src/Docs/Commandline.md says, for the daemon *)
(* as a message, for the command line program as arguments. What the         *)
(* displays are asked is compared with what the user had in mind.            *)
(***************************************************************************)
EXTENDS MessageParser, Console

CONSTANT Intents   \* sequences of commands: [name, args, to, quoted], words in quotes

\* The commands, and how many arguments each takes.
Arity ==
    [poweron |-> 0, screenon |-> 0, poweroff |-> 0, autodisable |-> 0, unmute |-> 0,
     servicemenu |-> 0, servicemenu_tpc_enable |-> 0, servicemenu_legacy_enable |-> 0,
     output |-> 1, volume |-> 1, colortemperature |-> 1, gamemode_hdmi1 |-> 1, sethdmi |-> 1,
     button |-> 1, settings_picture |-> 1, request |-> 1, start_app |-> 1, set_curvature |-> 1,
     get_system_settings |-> 2, set_input_type |-> 3]

\* A word as it is meant: escapes come in only when it is written (Written).
Word == {word \in Seq(STRING) : word # <<>> /\ Escaped \notin ToSet(word)}

Command == [name : DOMAIN Arity, args : Seq(Word), to : Seq(Word), quoted : BOOLEAN]

\* Each command has the arguments it takes.
ASSUME IntentsAssumption ==
    \A line \in Intents :
      /\ line \in Seq(Command)
      /\ \A i \in DOMAIN line : Len(line[i].args) = Arity[line[i].name]

VARIABLES
    intent,    \* the commands
    written    \* the program they are written for, and whether it was started

vars == <<parser, console, intent, written>>

-----------------------------------------------------------------------------
(* What the user means.                                                     *)

Inputs == {<<"1">>, <<"2">>, <<"3">>, <<"4">>}

Means(c) ==
    LET first == c.args[1]
        number(min, max) == to_string(Within(atoi(first), min, max))
        curve(preset) == Ask("updateCurvature", <<<<"curvature", preset>>, number(0, 100)>>)
        choice(preset) == Ask("changeCurve", <<<<"curvature", preset>>>>)
    IN  CASE c.name \in {"poweron", "screenon"} -> <<Ask("poweron", <<>>)>>
          [] c.name \in {"poweroff", "autodisable"} -> <<Ask(c.name, <<>>)>>
          [] c.name = "output" -> <<>>
          [] c.name = "unmute" -> <<Ask("setMute", <<>>)>>
          [] c.name = "volume" -> <<Ask("setVolume", <<number(0, 100)>>)>>
          [] c.name = "colortemperature" ->
               <<SetSetting(<<"picture">>, <<"colortemperature">>, number(-50, 50))>>
          [] c.name = "gamemode_hdmi1" ->
               IF first \in Argument(c.name)
               THEN <<SetSettings(<<"other">>, <<"gameMode", "hdmi1">> \o first)>> ELSE <<>>
          [] c.name = "sethdmi" ->
               IF first \in Inputs THEN <<HdmiApp(first)>> ELSE <<>>
          [] c.name = "button" -> IF first \in Buttons THEN <<Ask("button", <<first>>)>> ELSE <<>>
          [] c.name = "settings_picture" ->
               IF IsJson(first) THEN <<SetSettings(<<"picture">>, Dumped(first))>> ELSE <<>>
          [] c.name = "request" -> <<Ask("ssap", <<first>>)>>
          [] c.name = "get_system_settings" ->
               IF IsJson(c.args[2])
               THEN <<Ask("getSystemSettings", <<first, Dumped(c.args[2])>>)>> ELSE <<>>
          [] c.name = "start_app" -> <<Launch(first)>>
          [] c.name = "set_input_type" -> <<SetDeviceInfo(first, c.args[2], c.args[3])>>
          [] c.name = "servicemenu" ->
               <<LaunchWith(<<"com.webos.app.factorywin">>,
                            Dumped(<<"{", Quote, "irKey", Quote, ":", Quote, "inStart", Quote, "}">>))>>
          [] c.name = "servicemenu_tpc_enable" ->
               <<Ask("setTemporalPeakControl", <<<<"true">>>>)>>
          [] c.name = "servicemenu_legacy_enable" ->
               <<SetSettings(<<"other">>,
                             Dumped(<<"{", Quote, "svcMenuFlag", Quote, ":", "false", "}">>))>>
          [] c.name = "set_curvature" ->
               IF first = <<"flat">> \/ atoi(first) <= 0 THEN <<Ask("changeCurve", <<<<"flat">>>>)>>
               ELSE <<curve("2"), curve("3"), choice("3"), choice("2")>>

Meant(c) == {d \in Displays : c.to = <<>> \/ \E i \in DOMAIN c.to : Called(d, c.to[i])}

\* Every ask of every command for each display that is meant, in this order.
Intended(commands_) ==
    LET each(c) == FlattenSeq([i \in DOMAIN Means(c) |->
                     FlattenSeq([d \in Displays |->
                       IF d \in Meant(c) THEN <<[ask |-> Means(c)[i], display |-> d]>> ELSE <<>>])])
    IN  FlattenSeq([i \in DOMAIN commands_ |-> each(commands_[i])])

Texts(c) == <<<<Dash, c.name>>>> \o c.args \o c.to

\* The control characters, and the quotes of JSON, are escaped.
InQuotes(c, i) ==
    LET text == (c.args \o c.to)[i]
    IN  c.quoted \/ text[1] = Dash \/ ToSet(text) \cap {Blank, Quote} # {}

Message(line) ==
    LET word(c, i) == LET text == replaceAll((c.args \o c.to)[i], Quote, Escaped)
                      IN  <<Blank>> \o (IF InQuotes(c, i) THEN <<Quote>> \o text \o <<Quote>>
                                                          ELSE text)
        command(c) == <<Dash, c.name>>
                        \o FlattenSeq([i \in DOMAIN (c.args \o c.to) |-> word(c, i)])
    IN  FlattenSeq([i \in DOMAIN line |-> IF i = 1 THEN command(line[i])
                                          ELSE <<Blank>> \o command(line[i])])

Argv(line) == FlattenSeq([i \in DOMAIN line |-> Texts(line[i])])

-----------------------------------------------------------------------------
(* The behaviours.                                                          *)

Init ==
    /\ intent \in Intents
    /\ written \in {"message", "arguments"}
    /\ ParserInit
    /\ IF written = "message" THEN Start(<<>>) /\ silent = {} ELSE Start(Argv(intent))

Sent ==
    /\ written = "message"
    /\ written' = "received"
    /\ Receive(Message(intent))
    /\ UNCHANGED <<console, intent>>

Daemon == ReadCommand /\ UNCHANGED <<console, intent, written>>

CommandLineProgram == ConsoleNext /\ UNCHANGED <<parser, intent, written>>

Next == Sent \/ Daemon \/ CommandLineProgram

Spec == Init /\ [][Next]_vars

\* The program and its thread run, time passes, and a display that is not silent answers.
LiveSpec == Spec /\ WF_vars(CommandLineProgram)

-----------------------------------------------------------------------------
(* Properties.                                                              *)

DaemonIsDone == written = "received" /\ commands = <<>>

ConsoleIsDone == written = "arguments" /\ Ended

\* Commands that the daemon writes anew as messages.
Rewrites == {"servicemenu", "servicemenu_legacy_enable", "set_curvature"}

OnlyOfDaemon == {"autodisable"}

OnlyOfConsole == {"get_system_settings"}

\* Both programs look at the first character of an input.
InputIsRead(c) ==
    c.name = "sethdmi" /\ SubSeq(c.args[1], 1, 1) \in Inputs => c.args[1] \in Inputs

TwoSymbols(text, first, second) ==
    \E i \in 1 .. Len(text) - 1 : text[i] = first /\ text[i + 1] = second

\* What a message cannot say: a blank before a hyphen, whatever the quotes; one character in
\* quotes; for a command that is written anew, a name that needs quotes; a display by both
\* its names, without asking it twice; a payload that is none; an input that begins like one.
DaemonUnderstands(c) ==
    LET words == c.args \o c.to
    IN  /\ c.name \notin OnlyOfConsole
        /\ \A i \in DOMAIN words :
             /\ ~TwoSymbols(words[i], Blank, Dash)
             /\ ~(InQuotes(c, i) /\ Len(words[i]) = 1 /\ words[i][1] \in Characters)
        /\ c.name \in Rewrites =>
             \A i \in DOMAIN c.to : Blank \notin ToSet(c.to[i]) /\ c.to[i][1] \notin {Dash, Quote}
        /\ \A d \in Displays, i, j \in DOMAIN c.to :
             Called(d, c.to[i]) /\ Called(d, c.to[j]) => i = j
        /\ c.name = "settings_picture" => IsJson(c.args[1])
        /\ InputIsRead(c)

\* What arguments cannot say: one that begins with a hyphen, and an input that begins like one.
ConsoleUnderstands(c) ==
    /\ c.name \notin OnlyOfDaemon
    /\ \A i \in DOMAIN (c.args \o c.to) : (c.args \o c.to)[i][1] # Dash
    /\ InputIsRead(c)

All(line, Holds(_)) == \A i \in DOMAIN line : Holds(line[i])

\* A message asks the displays for what was written in it, exactly when it says nothing the
\* parser cannot read.
DaemonReadsAsWritten ==
    DaemonIsDone => (dispatched = Intended(intent) <=> All(intent, DaemonUnderstands))

OfPaired(asks) ==
    FlattenSeq([i \in DOMAIN asks |-> IF asks[i].display \in Paired THEN <<asks[i]>> ELSE <<>>])

\* No fault, and no power-on that ran out of time.
NothingFailed ==
    faults = 0 /\ \A i \in DOMAIN printed, d \in Paired : "error" \notin printed[i].answers[d]

\* When nothing fails, the displays have done what the arguments say, exactly when these say
\* nothing that arguments cannot say.
ConsoleReadsAsWritten ==
    ConsoleIsDone /\ NothingFailed
      => (heard = OfPaired(Intended(intent)) <=> All(intent, ConsoleUnderstands))

\* How many of these asks are met, in their order, by those.
Met(asks, meant) ==
    LET met[i \in 0 .. Len(meant)] ==
          IF i = 0 THEN 0
          ELSE LET n == met[i - 1]
               IN  IF n < Len(asks) /\ asks[n + 1] = meant[i] THEN n + 1 ELSE n
    IN  met[Len(meant)]

\* Whatever fails, the displays do nothing that was not meant, and do it in the order of the
\* arguments.
HeardInOrder ==
    written = "arguments" /\ All(intent, ConsoleUnderstands)
      => Met(heard, Intended(intent)) = Len(heard)

Confirmed(result) ==
    result.says = "answers" /\ \A d \in Displays : result.answers[d] \subseteq {"payload"}

\* Where every result is an answer of the displays, all was done that was meant. What is set
\* through an alert has no such answer.
NoErrorMeansDone ==
    ConsoleIsDone /\ All(intent, ConsoleUnderstands) /\ All(printed, Confirmed)
      => heard = Intended(intent)

\* The thread that wakes a display lasts as long as the program may try once more to power
\* it on, if it is the first that the program powers on. (Not for a display without a MAC
\* address, or with a broadcast address that cannot be made up: nothing wakes it.)
WakesWhileTrying ==
    work # NoWork /\ Trying /\ trying.elapsed < TimeUp /\ work.display \in Wakeable /\ ~terminate
      => wol[work.display].at \in {"born", "run"}

\* The program ends, and prints a result, unless a display keeps it waiting.
ConsoleEnds ==
    written = "arguments" /\ silent = {} ~> Ended
================================================================================
