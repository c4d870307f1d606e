----------------------------- MODULE MCMailSync -----------------------------
EXTENDS MailSync
=============================================================================
