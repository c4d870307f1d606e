---------------------------- MODULE MCRelayQueue ----------------------------
EXTENDS RelayQueue
=============================================================================
