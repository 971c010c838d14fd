--------------------------------- MODULE Words ---------------------------------
(***************************************************************************)
(* Words of a command and what they ask for: the string functions of        *)
(* src/src/common/tools.cpp, the commands of lg_api_commands.h, and the      *)
(* requests of event.cpp, which the daemon and the command line program      *)
(* share.                                                                   *)
(*                                                                         *)
(* A text is a sequence of symbols. Blank, Dash, Quote and Escaped, the     *)
(* sequence \" of a message, are what the readers look at; of the other     *)
(* symbols it matters which are one character and which are digits. Letters  *)
(* are in lower case: the readers compare without case.                     *)
(***************************************************************************)
EXTENDS Integers, Sequences, SequencesExt

CONSTANT Names   \* the names of the configured displays, a sequence of words

Blank == " "
Dash == "-"
Quote == "\""
Escaped == "\\\""

Digits == <<"0", "1", "2", "3", "4", "5", "6", "7", "8", "9">>

Characters == {Blank, Dash, Quote, "x", "y", "{", "}"} \cup ToSet(Digits)

ASSUME NamesAssumption == Names \in Seq(Seq(STRING))

Displays == DOMAIN Names

-----------------------------------------------------------------------------
(* Strings.                                                                 *)

\* The first of these positions from i on, and one past the text if there is none.
FirstOf(positions, i, text) ==
    LET later == {j \in positions : j >= i}
    IN  IF later = {} THEN Len(text) + 1 ELSE CHOOSE j \in later : \A k \in later : j <= k

Where(text, symbols) == {i \in DOMAIN text : text[i] \in symbols}

WhereNot(text, symbols) == DOMAIN text \ Where(text, symbols)

From(text, i) == SubSeq(text, i, Len(text))

\* index - 2 > 0 of unsigned numbers: one character is dropped, none is kept.
QuotedWord(inside) ==
    IF Len(inside) = 1 /\ inside[1] \in Characters THEN <<>> ELSE <<inside>>

\* The words of a text, between blanks or in quotes; a quote counts where a word begins.
stringsplit(text) ==
    LET After(i) == FirstOf(WhereNot(text, {Blank}), i, text)
        words[i \in 1 .. Len(text) + 2] ==
          IF i > Len(text) THEN <<>>
          ELSE IF text[i] = Quote
               THEN LET end == FirstOf(Where(text, {Quote}), i + 1, text)
                    IN  IF end > Len(text) THEN <<From(text, i)>>
                        ELSE QuotedWord(SubSeq(text, i + 1, end - 1)) \o words[After(end + 1)]
               ELSE LET end == FirstOf(Where(text, {Blank}), i, text)
                    IN  <<SubSeq(text, i, end - 1)>> \o words[After(end + 1)]
    IN  IF After(1) > Len(text) /\ text # <<>> THEN <<<<>>>> ELSE words[After(1)]

replaceAll(text, from, to) == [i \in DOMAIN text |-> IF text[i] = from THEN to ELSE text[i]]

\* The argument, if it is in the list.
validateArgument(argument, list) == IF argument \in list THEN argument ELSE <<>>

-----------------------------------------------------------------------------
(* Numbers.                                                                 *)

atoi(word) ==
    LET minus == word # <<>> /\ word[1] = Dash
        digits == IF minus THEN Tail(word) ELSE word
        end == FirstOf(WhereNot(digits, ToSet(Digits)), 1, digits) - 1
        value[i \in 0 .. end] ==
          IF i = 0 THEN 0
          ELSE 10 * value[i - 1] + (CHOOSE d \in 0 .. 9 : Digits[d + 1] = digits[i])
    IN  IF minus THEN -value[end] ELSE value[end]

\* to_string, of a number of at most three digits.
to_string(n) ==
    LET m == IF n < 0 THEN -n ELSE n
    IN  (IF n < 0 THEN <<Dash>> ELSE <<>>)
          \o (IF m >= 100 THEN <<Digits[(m \div 100) + 1]>> ELSE <<>>)
          \o (IF m >= 10 THEN <<Digits[((m \div 10) % 10) + 1]>> ELSE <<>>)
          \o <<Digits[(m % 10) + 1]>>

Within(n, min, max) == IF n < min THEN min ELSE IF n > max THEN max ELSE n

\* The number of a word as the commands take it: brought into its range.
Level(word, min, max) == to_string(Within(atoi(word), min, max))

-----------------------------------------------------------------------------
(* Requests. [on, with]: what the display is asked, and the arguments that    *)
(* the payload carries.                                                     *)

Ask(on, with) == [on |-> on, with |-> with]

\* External: nlohmann::json accepts a text that is closed.
IsJson(word) == word # <<>> /\ word[1] \in {"{", "["} /\ Last(word) \in {"}", "]"}

\* Parsed and written again: without the blanks, of which the strings of it have none.
Dumped(word) ==
    FlattenSeq([i \in DOMAIN word |-> IF word[i] = Blank THEN <<>> ELSE <<word[i]>>])

Launch(id) == Ask("launch", <<id>>)

LaunchWith(id, params) == Ask("launch", <<id, params>>)

HdmiApp(input) == Launch(<<"com.webos.app.hdmi">> \o input)

\* Settings are set through an alert that is closed at once.
SetSetting(category, setting, value) == Ask("setSystemSettings", <<category, setting, value>>)

SetSettings(category, payload) == Ask("setSystemSettings", <<category, payload>>)

SetDeviceInfo(input, icon, label) == Ask("setDeviceInfo", <<input, icon \o <<".png">>, label>>)

ThroughAlert ==
    {"setSystemSettings", "setDeviceInfo", "changeCurve", "updateCurvature",
     "setTemporalPeakControl", "setGlobalStressReduction"}

-----------------------------------------------------------------------------
(* Commands that set one setting. Each of the 74 of the file has a range or a  *)
(* list, and sets it for the display or for one of its inputs. Three stand for *)
(* them.                                                                    *)

ApiCommands == {"backlight", "colortemperature", "gamemode_hdmi1"}

Category(command) == IF command = "gamemode_hdmi1" THEN <<"other">> ELSE <<"picture">>

HasRange(command) == command \in {"backlight", "colortemperature"}

Min_(command) == IF command = "colortemperature" THEN -50 ELSE 0

Max_(command) == IF command = "colortemperature" THEN 50 ELSE 100

Argument(command) == IF HasRange(command) THEN {} ELSE {<<"off">>, <<"on">>}

Setting(command) == IF command = "gamemode_hdmi1" THEN <<"gameMode", "hdmi1">> ELSE <<command>>

Buttons == {<<"mute">>, <<"volumeup">>}

-----------------------------------------------------------------------------
(* Displays.                                                                *)

\* Device1, Device2 ...
Id(d) == <<"device">> \o to_string(d)

Called(d, word) == word = Id(d) \/ word = Names[d]

\* _Devices of the one, grabDevices of the other: the words behind the arguments.
Devices(words, offset) == From(words, offset + 1)
================================================================================
