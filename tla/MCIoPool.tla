------------------------------- MODULE MCIoPool -------------------------------
(***************************************************************************)
(* Small instances of IoPool for TLC.                                      *)
(***************************************************************************)
EXTENDS IoPool

CONSTANTS bus, socket   \* the callers: the bus monitor and the control socket

TwoCallers == {bus, socket}
==============================================================================
