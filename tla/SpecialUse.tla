----------------------------- MODULE SpecialUse -----------------------------
(***************************************************************************)
(* The special-use tags: the polling loop of the entrypoint, one run of    *)
(* special_use.py per turn, and Dovecot, which reads the include when it   *)
(* starts and when it is told to reload.  The loop runs under the          *)
(* entrypoint's set -e.  The include outlives a restart of the container.  *)
(***************************************************************************)
EXTENDS Naturals

CONSTANTS
    Roles,        \* what the university may flag
    Roles0,       \* what it flags at the start
    Untagged,     \* no include, or an empty one
    MaxChanges    \* bound: changes of the flags and restarts of the container

VARIABLES
    roles,        \* the university's flags
    enrolled,     \* some user is enrolled
    include,      \* special-use.conf
    loop, rc,     \* the loop's next step; the exit code of special_use.py
    found,        \* what discover() returned
    pending,      \* the loop's variable: written but not yet applied
    dovecot,      \* "down" or "up"
    tags,         \* what Dovecot advertises
    changes

vars == <<roles, enrolled, include, loop, rc, found, pending, dovecot, tags, changes>>

Init ==
    /\ roles = Roles0 /\ enrolled = FALSE
    /\ include = Untagged /\ tags = Untagged /\ found = Untagged
    /\ loop = "run" /\ rc = 0 /\ pending = FALSE
    /\ dovecot = "down" /\ changes = 0

-----------------------------------------------------------------------------
(* special_use.py. *)

Turn(from, to) == loop = from /\ loop' = to /\ UNCHANGED <<roles, enrolled, dovecot, tags, changes>>
ExitWith(code) == rc' = code /\ UNCHANGED <<found, pending>>

(* No enrolled user, or the university cannot be asked. *)
NotDiscovered ==
    /\ Turn("run", "exited") /\ ExitWith(1)
    /\ UNCHANGED include

UpToDate ==
    /\ enrolled /\ include = roles
    /\ Turn("run", "exited") /\ ExitWith(0)
    /\ UNCHANGED include

(* open(OUT, "w") truncates; the text is written when the file is closed. *)
Differs ==
    /\ enrolled /\ include # roles
    /\ Turn("run", "write")
    /\ found' = roles /\ include' = Untagged
    /\ UNCHANGED <<rc, pending>>
Tagged ==
    /\ Turn("write", "exited") /\ ExitWith(10)
    /\ include' = found

(* The loop.  A command that fails ends the subshell before rc=$? is reached. *)
ErrExit ==
    /\ rc # 0
    /\ Turn("exited", "gone")
    /\ UNCHANGED <<include, rc, found, pending>>

Case ==
    /\ rc = 0
    /\ pending' = (pending \/ rc = 10)
    /\ Turn("exited", IF pending' THEN "reload" ELSE "run")
    /\ UNCHANGED <<include, rc, found>>

Reload ==
    /\ loop = "reload" /\ loop' = "run"
    /\ IF dovecot = "up" THEN tags' = include /\ pending' = FALSE ELSE UNCHANGED <<tags, pending>>
    /\ UNCHANGED <<roles, enrolled, include, rc, found, dovecot, changes>>

LoopStep == NotDiscovered \/ UpToDate \/ Differs \/ Tagged \/ ErrExit \/ Case \/ Reload

-----------------------------------------------------------------------------
(* The rest of the container, the users, the university. *)

DovecotStarts ==
    /\ dovecot = "down" /\ dovecot' = "up" /\ tags' = include
    /\ UNCHANGED <<roles, enrolled, include, loop, rc, found, pending, changes>>

Enroll ==
    /\ dovecot = "up" /\ enrolled' = TRUE
    /\ UNCHANGED <<roles, include, loop, rc, found, pending, dovecot, tags, changes>>

Restart ==
    /\ changes < MaxChanges /\ changes' = changes + 1
    /\ loop' = "run" /\ rc' = 0 /\ found' = Untagged /\ pending' = FALSE
    /\ dovecot' = "down" /\ tags' = Untagged
    /\ UNCHANGED <<roles, enrolled, include>>

NewRoles ==
    /\ changes < MaxChanges /\ changes' = changes + 1
    /\ roles' \in Roles
    /\ UNCHANGED <<enrolled, include, loop, rc, found, pending, dovecot, tags>>

Next == LoopStep \/ DovecotStarts \/ Enroll \/ Restart \/ NewRoles

(* The loop turns, Dovecot starts, and the university answers now and then. *)
Fairness ==
    /\ WF_vars(LoopStep) /\ WF_vars(DovecotStarts)
    /\ SF_vars(UpToDate) /\ SF_vars(Differs)
FairSpec == Init /\ [][Next]_vars /\ Fairness

-----------------------------------------------------------------------------
(* Once a user is enrolled the tags reach Dovecot, however long the discovery
   failed before and whether or not Dovecot was up when they were written ("a
   change discovered before then must not be dropped", entrypoint.sh). *)
TagsApplied == enrolled ~> tags = roles
=============================================================================
