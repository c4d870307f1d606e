--------------------------- MODULE MCCredentials ---------------------------
EXTENDS Credentials
=============================================================================
