------------------------------ MODULE Mailbox ------------------------------
(***************************************************************************)
(* What mirroring a mailbox promises, whatever folders the mail is in:     *)
(* mail only ever enters; a run of the sync copies mail from one side to   *)
(* the other and deletes none; and what leaves the Maildir is kept aside,  *)
(* for good.                                                               *)
(***************************************************************************)
CONSTANT Mail

VARIABLES
    arrived,   \* mail that has entered the system
    there,     \* mail at the university
    here,      \* mail in the Maildir
    aside      \* mail kept among the stale folders

vars == <<arrived, there, here, aside>>

Init == arrived = {} /\ there = {} /\ here = {} /\ aside = {}

(* A message is delivered at the university, or filed by the user's client. *)
Arrive(m) ==
    /\ m \notin arrived /\ arrived' = arrived \cup {m}
    /\ \/ there' = there \cup {m} /\ UNCHANGED here
       \/ here' = here \cup {m} /\ UNCHANGED there
    /\ UNCHANGED aside

Copy ==
    /\ there \subseteq there' /\ there' \subseteq there \cup here
    /\ here \subseteq here' /\ here' \subseteq there \cup here
    /\ UNCHANGED <<arrived, aside>>

(* Of what is set aside, other folders of the Maildir may hold copies. *)
SetAside(lot) ==
    /\ lot \subseteq here /\ aside' = aside \cup lot
    /\ here \ lot \subseteq here' /\ here' \subseteq here
    /\ UNCHANGED <<arrived, there>>

Next == (\E m \in Mail : Arrive(m)) \/ Copy \/ (\E lot \in SUBSET Mail : SetAside(lot))
Spec == Init /\ [][Next]_vars

(* So no mail is ever lost. *)
Kept == arrived \subseteq there \cup here \cup aside
=============================================================================
