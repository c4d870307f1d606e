------------------------------ MODULE TokenUse ------------------------------
(***************************************************************************)
(* What the tunnel supervisor promises about its session token, whatever   *)
(* becomes of the tunnel: a tunnel is raised from a token it holds, never  *)
(* from one it knows to be spent or that is too old; and from one that the *)
(* gateway no longer takes without its knowing at most Limit times in a    *)
(* row, unless one of these tunnels has lasted.                            *)
(***************************************************************************)
EXTENDS Naturals

CONSTANT Limit   \* tunnels that may be raised from a dead token

VARIABLES
    token,   \* none, good, dead (the gateway does not take it), or spent (known to be dead)
    old,     \* it is too old for a new tunnel
    up,      \* a tunnel is up
    lasting, \* and has lasted
    tries    \* tunnels raised from it since it died or one of them lasted

vars == <<token, old, up, lasting, tries>>

Init == token = "none" /\ old = FALSE /\ up = FALSE /\ lasting = FALSE /\ tries = 0

Obtain ==
    /\ ~up
    /\ token' = "good" /\ old' = FALSE /\ tries' = 0
    /\ UNCHANGED <<up, lasting>>

Raise ==
    /\ ~up /\ up' = TRUE
    /\ ~old
    /\ \/ token = "good" /\ UNCHANGED tries
       \/ token = "dead" /\ tries < Limit /\ tries' = tries + 1
    /\ UNCHANGED <<token, old, lasting>>

(* Time passes, or the gateway ends the session: the token may die and grow old, the
   tunnel comes to last. *)
Wither ==
    /\ \/ UNCHANGED token
       \/ token = "good" /\ token' = "dead"
    /\ old' \in {old, TRUE}
    /\ \/ UNCHANGED <<lasting, tries>>
       \/ up /\ lasting' = TRUE /\ tries' = 0
    /\ UNCHANGED up

(* The tunnel ends; the supervisor may learn by it that the token is spent. *)
Fall ==
    /\ up /\ up' = FALSE /\ lasting' = FALSE
    /\ token' \in {token, "spent"}
    /\ UNCHANGED <<old, tries>>

Drop ==
    /\ ~up
    /\ token' = "none" /\ tries' = 0
    /\ UNCHANGED <<old, up, lasting>>

(* The container stops. *)
Stop == token' = "none" /\ old' = FALSE /\ up' = FALSE /\ lasting' = FALSE /\ tries' = 0

Next == Obtain \/ Raise \/ Wither \/ Fall \/ Drop \/ Stop
Spec == Init /\ [][Next]_vars
=============================================================================
