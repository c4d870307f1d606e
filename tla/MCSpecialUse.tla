---------------------------- MODULE MCSpecialUse ----------------------------
EXTENDS SpecialUse
=============================================================================
