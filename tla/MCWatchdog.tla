----------------------------- MODULE MCWatchdog -----------------------------
(* Instances of Watchdog; the configurations give every constant.          *)
EXTENDS Watchdog
=============================================================================
