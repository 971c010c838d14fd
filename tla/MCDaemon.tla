------------------------------- MODULE MCDaemon -------------------------------
(***************************************************************************)
(* Small instances of Daemon for TLC.                                      *)
(***************************************************************************)
EXTENDS Daemon

Plain == [enabled |-> Device, topology |-> FALSE, keepOnBoot |-> FALSE, userIdle |-> FALSE,
          preferPowerOff |-> FALSE]

PlainSettings == {Plain}

IdleSettings == {[Plain EXCEPT !.userIdle = TRUE]}

OneResume == {"resume1"}

WithOneResume == {"bus", "main", "socket"} \cup OneResume

TwoResumes == {"resume1", "resume2"}

WithTwoResumes == {"bus", "main", "socket"} \cup TwoResumes
==============================================================================
