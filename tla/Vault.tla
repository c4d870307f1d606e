------------------------------- MODULE Vault -------------------------------
(***************************************************************************)
(* What the credential store of a mail user promises: it keeps passwords,  *)
(* takes up a new one only while it is the one the university takes, and   *)
(* may drop any of them at any time.  Logins, workers, files, temporary    *)
(* files and restarts are not visible here; Credentials implements this.   *)
(***************************************************************************)
CONSTANT Password

VARIABLES
    kept,     \* passwords that are stored or on their way into the store
    valid     \* the university's password

Init == kept = {} /\ valid \in Password

(* The university vouches for the password. *)
Vouch == kept' = kept \cup {valid} /\ UNCHANGED valid

(* De-enrolled, overwritten, or lost on the way. *)
Drop == kept' \in SUBSET kept /\ UNCHANGED valid

Change == valid' \in Password /\ UNCHANGED kept

Next == Vouch \/ Drop \/ Change

Spec == Init /\ [][Next]_<<kept, valid>>
=============================================================================
