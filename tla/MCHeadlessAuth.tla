--------------------------- MODULE MCHeadlessAuth ---------------------------
EXTENDS HeadlessAuth
=============================================================================
