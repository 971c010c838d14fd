---------------------------- MODULE MCCommandLine ----------------------------
(***************************************************************************)
(* A small instance of CommandLine for TLC: three displays, with a name of   *)
(* one character, with a blank in the name, and with a hyphen behind it.     *)
(***************************************************************************)
EXTENDS CommandLine

ThreeNames == <<<<"x">>, <<"bed", Blank, "room">>, <<"tv", Blank, Dash, "2">>>>

C(name, args, to) == {[name |-> name, args |-> args, to |-> to, quoted |-> q] : q \in BOOLEAN}

Json == <<"{", Quote, "contrast", Quote, ":", "1", "}">>

Anybody == {<<>>, <<<<"x">>>>, <<<<"bed", Blank, "room">>>>, <<Id(2)>>,
            <<<<"tv", Blank, Dash, "2">>>>, <<<<Dash, "x">>>>}

BothNames == <<Id(2), <<"bed", Blank, "room">>>>

\* Every command with a few arguments, for one display or for all.
Single ==
    UNION {C(c[1], c[2], to) : to \in {<<>>, <<Id(2)>>}, c \in
      {<<"screenon", <<>>>>, <<"unmute", <<>>>>, <<"autodisable", <<>>>>,
       <<"volume", <<<<"7">>>>>>, <<"volume", <<<<"1", "0", "1">>>>>>, <<"volume", <<<<Dash, "5">>>>>>,
       <<"colortemperature", <<<<Dash, "6", "0">>>>>>, <<"gamemode_hdmi1", <<<<"on">>>>>>,
       <<"gamemode_hdmi1", <<<<"high">>>>>>, <<"sethdmi", <<<<"2">>>>>>, <<"sethdmi", <<<<"six">>>>>>,
       <<"sethdmi", <<<<"2", "0">>>>>>, <<"sethdmi", <<<<"4">>>>>>,
       <<"button", <<<<"mute">>>>>>, <<"button", <<<<"nonsense">>>>>>,
       <<"settings_picture", <<Json>>>>, <<"settings_picture", <<<<"{", "contrast">>>>>>,
       <<"request", <<<<"system/turnOff">>>>>>, <<"start_app", <<<<"netflix">>>>>>,
       <<"set_input_type", <<<<"HDMI_1">>, <<"pc">>, <<"my", Blank, "pc">>>>>>,
       <<"servicemenu", <<>>>>, <<"servicemenu_tpc_enable", <<>>>>,
       <<"servicemenu_legacy_enable", <<>>>>, <<"get_system_settings", <<<<"picture">>, Json>>>>,
       <<"set_curvature", <<<<"5", "0">>>>>>, <<"set_curvature", <<<<"flat">>>>>>}}

\* A command of the parser and one that is written anew, for every kind of display name. Both
\* names of a display are left to the first: a name that is lost is not asked twice.
ForAnybody ==
    C("poweroff", <<>>, BothNames)
      \cup UNION {C(name, <<>>, to) : name \in {"poweroff", "servicemenu"}, to \in Anybody}

Unquoted(name, args, to) == [name |-> name, args |-> args, to |-> to, quoted |-> FALSE]

Longer ==
    {<<Unquoted("poweron", <<>>, to), c>> :
       to \in {<<>>, <<Id(2)>>}, c \in {Unquoted("start_app", <<<<"netflix">>>>, <<>>),
                                        Unquoted("poweron", <<>>, <<Id(1)>>)}}
      \cup {<<c, Unquoted("volume", <<<<"5">>>>, <<>>), Unquoted("button", <<<<"mute">>>>, <<Id(2)>>)>> :
              c \in C("output", <<<<"friendly">>>>, <<>>)}

SomeIntents == {<<c>> : c \in Single \cup ForAnybody} \cup Longer
==============================================================================
