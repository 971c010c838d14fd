------------------------------ MODULE MCCompanion ------------------------------
(***************************************************************************)
(* Small instances of Companion for TLC.                                   *)
(***************************************************************************)
EXTENDS Companion

Plain == [enabled |-> Device, topology |-> FALSE, keepOnBoot |-> FALSE, userIdle |-> TRUE,
          preferPowerOff |-> FALSE]

\* With the topology kept, forgotten and not used; remote displays blanked or off.
EverySetting ==
    {Plain, [Plain EXCEPT !.topology = TRUE, !.keepOnBoot = TRUE],
     [Plain EXCEPT !.topology = TRUE, !.preferPowerOff = TRUE, !.userIdle = FALSE]}

Callers == {"bus", "socket"}
==============================================================================
