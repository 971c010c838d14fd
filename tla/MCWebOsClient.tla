---------------------------- MODULE MCWebOsClient ----------------------------
(***************************************************************************)
(* Small instances of WebOsClient for TLC.                                 *)
(***************************************************************************)
EXTENDS WebOsClient

\* A display as the program configures it by default, with the key of an earlier
\* pairing.
Plain == [enabled |-> TRUE, persistence |-> "OFF", mute |-> FALSE, checkHdmi |-> FALSE,
          ssl |-> FALSE, paired |-> TRUE]

PlainDevice == {Plain}

\* One display for every setting the session asks about.
EveryDevice ==
    {Plain, [Plain EXCEPT !.enabled = FALSE],
     [Plain EXCEPT !.persistence = "ON", !.ssl = TRUE, !.paired = FALSE],
     [Plain EXCEPT !.persistence = "KEEPALIVE", !.mute = TRUE, !.checkHdmi = TRUE]}

Unforced(types) == {[type |-> t, forced |-> FALSE] : t \in types}

PowerCommands == Unforced({"POWER_ON", "POWER_OFF"})

\* What the user and the system ask for.
PlainCommands ==
    PowerCommands \cup Unforced({"REQUEST", "REQUEST_DELAYED", "BUTTON"})

\* Everything the public API offers.
EveryCommand ==
    Unforced({"POWER_ON", "POWER_OFF", "BLANK_SCREEN", "REQUEST", "REQUEST_DELAYED",
              "BUTTON", "CLOSE"})
      \cup {[type |-> "POWER_OFF", forced |-> TRUE], [type |-> "BLANK_SCREEN", forced |-> TRUE]}
==============================================================================
