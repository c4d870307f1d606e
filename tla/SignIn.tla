------------------------------- MODULE SignIn -------------------------------
(***************************************************************************)
(* What a headless sign-in promises to whoever runs it, without its pages: *)
(* the credentials are shown a bounded number of times and never again     *)
(* once they have been refused; nobody is asked to sign in by hand with    *)
(* credentials that were refused; a token is never reported after a        *)
(* refusal, nor a refusal that did not happen.                             *)
(***************************************************************************)
EXTENDS Naturals

CONSTANT Budget   \* how often the credentials may be shown at most

VARIABLES
    phase,     \* trying, asking (a human), or one of the ends
    shown,     \* how often the credentials have been shown
    refused    \* they have been refused

Ends == {"token", "error", "refused"}

Init == phase = "trying" /\ shown = 0 /\ refused = FALSE

Show ==
    /\ phase = "trying" /\ ~refused /\ shown < Budget
    /\ shown' = shown + 1
    /\ refused' \in BOOLEAN
    /\ \/ phase' = "trying" \/ phase' = "error"
       \/ phase' = "token" /\ ~refused'

Ask ==
    /\ phase = "trying" /\ ~refused
    /\ phase' = "asking"
    /\ UNCHANGED <<shown, refused>>

End ==
    /\ phase \in {"trying", "asking"}
    /\ \/ phase' = "error"
       \/ phase' = "token" /\ ~refused
       \/ phase' = "refused" /\ refused
    /\ UNCHANGED <<shown, refused>>

Next == Show \/ Ask \/ End
Spec == Init /\ [][Next]_<<phase, shown, refused>>
=============================================================================
