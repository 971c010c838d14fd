----------------------------- MODULE MCIdleHelper -----------------------------
(* Small instances of IdleHelper.                                            *)
EXTENDS IdleHelper

AllClients == {"monitor", "main", "guest"}

AllMessages == {"useridle", "userbusy"}
================================================================================
