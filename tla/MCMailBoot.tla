----------------------------- MODULE MCMailBoot -----------------------------
EXTENDS MailBoot

AllModes == {"auto", "tpm", "autostart", "passphrase"}
=============================================================================
