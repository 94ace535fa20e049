----------------------------- MODULE MCWatchdog -----------------------------
(* Sets of commands for the configurations of Watchdog. *)
EXTENDS WatchdogProperties

DaemonOnly == {"daemon"}
DaemonAndRestart == {"daemon", "restart"}
DaemonAndOnce == {"daemon", "once", "once-allow"}
=============================================================================
