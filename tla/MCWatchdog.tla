----------------------------- MODULE MCWatchdog -----------------------------
EXTENDS Watchdog
=============================================================================
