---------------------------- MODULE MCWatchdog ----------------------------
(* Watchdog for TLC: it has no parameters.                                   *)
EXTENDS Watchdog
===========================================================================
