-------------------------- MODULE MCVpnSupervisor --------------------------
EXTENDS VpnSupervisor
=============================================================================
