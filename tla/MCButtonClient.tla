---------------------------- MODULE MCButtonClient ----------------------------
(* Small instances of ButtonClient.                                          *)
EXTENDS ButtonClient

EveryDevice == [ssl : BOOLEAN, keepAlive : BOOLEAN]
================================================================================
