------------------------------ MODULE MailSync ------------------------------
(***************************************************************************)
(* The mirror of one user's mailbox: the two threads of mail/idle.py (the  *)
(* IDLE watcher, restarted by the manager loop, and the periodic sync),    *)
(* the lock between them, mail/sync.py's sync_user with the check for      *)
(* stale folders, and the pass that subscribes the folders once, against   *)
(* the university, which renames folders, and the user's client, which     *)
(* makes folders and files mail in them.                                   *)
(*                                                                         *)
(* mbsync is external: a run that succeeds mirrors every box of its        *)
(* channel both ways and makes missing folders locally; one that fails has *)
(* mirrored some of them; a local folder the university does not expose    *)
(* makes the run fail.  A run is one step.  Expunged mail, flags and the   *)
(* failure of a local file operation are left out, and so is the content   *)
(* of the credential store (module Credentials): a password is stored or   *)
(* not, and the university still takes it or not.                          *)
(***************************************************************************)
EXTENDS Naturals

CONSTANTS
    Folder, INBOX,   \* mailbox names
    Plain,           \* those whose names are ASCII: imaplib encodes no others
    Exposed0,        \* the folders the university exposes at the start
    Mail,            \* messages, each of which enters the system once
    MaxChanges,      \* bound: renames, password changes, folders made by the client
    MaxCrashes       \* bound: deaths of the daemon

ASSUME BoxAssumption == INBOX \notin Folder /\ Exposed0 \subseteq Folder /\ Plain \subseteq Folder
ASSUME ChangeAssumption == MaxChanges \in Nat /\ MaxCrashes \in Nat

VARIABLES
    far, exposed,        \* university: mail per box, folders it exposes
    near, made, stale,   \* Maildir: mail per box, its folders; mail in stale-folders
    enrolled, valid,     \* a password is stored; the university takes it
    pc, lock,            \* per thread: its step; the user's lock
    pushed,              \* the watcher syncs the INBOX only
    names,               \* per thread: far_names of its last LIST
    news,                \* a line about new mail waits on the watcher's connection
    offers,              \* the server offers IDLE
    arrived, retired, changes, crashes,   \* environment: used up messages, names, bounds
    marked,              \* the marker of subscribe_once exists
    todo,                \* folders that its pass has still to subscribe
    given,               \* history: folders subscribed by a pass under way or completed
    steady,              \* history: folders mirrored and exposed ever since
    refused,             \* history, per thread: its last LIST was answered NO
    owed                 \* history: new mail was signalled, no INBOX sync has begun since

university == <<far, exposed, valid, offers, arrived, retired, changes>>
maildir == <<near, made, stale, steady>>
work == <<pushed, names, refused>>
connection == <<news, owed>>
visible == <<marked, todo, given>>
vars == <<university, maildir, enrolled, pc, lock, work, connection, visible, crashes>>

Box == Folder \cup {INBOX}
Thread == {"watcher", "periodic"}
SyncSteps == {"lock", "list", "move", "all"}
WatchSteps ==
    {"dead", "connect", "asleep", "subscribe", "subscribing", "idleStart", "idling", "backoff"}

TypeOK ==
    /\ far \in [Box -> SUBSET Mail] /\ near \in [Box -> SUBSET Mail]
    /\ exposed \subseteq Folder /\ made \subseteq Folder
    /\ \A f \in Folder : (f \notin exposed => far[f] = {}) /\ (f \notin made => near[f] = {})
    /\ stale \subseteq arrived /\ arrived \subseteq Mail
    /\ enrolled \in BOOLEAN /\ valid \in BOOLEAN
    /\ pc["watcher"] \in SyncSteps \cup WatchSteps /\ pc["periodic"] \in SyncSteps \cup {"sleep"}
    /\ \A t \in Thread : pc[t] \in SyncSteps \ {"lock"} <=> lock = t
    /\ pushed \in BOOLEAN /\ names \in [Thread -> SUBSET Folder]
    /\ refused \in [Thread -> BOOLEAN]
    /\ news \in BOOLEAN /\ owed \in BOOLEAN /\ offers \in BOOLEAN
    /\ retired \subseteq Folder /\ steady \subseteq exposed
    /\ marked \in BOOLEAN /\ todo \subseteq Folder /\ given \subseteq Folder
    /\ changes \in 0 .. MaxChanges /\ crashes \in 0 .. MaxCrashes

Init ==
    /\ far = [b \in Box |-> {}] /\ exposed = Exposed0
    /\ near = [b \in Box |-> {}] /\ made = {} /\ stale = {}
    /\ enrolled = TRUE /\ valid = TRUE
    /\ pc = [t \in Thread |-> IF t = "watcher" THEN "dead" ELSE "sleep"]
    /\ lock = "none" /\ pushed = FALSE
    /\ names = [t \in Thread |-> {}]
    /\ news = FALSE /\ owed = FALSE /\ offers \in BOOLEAN
    /\ arrived = {} /\ retired = Exposed0 /\ changes = 0 /\ crashes = 0
    /\ steady = {} /\ refused = [t \in Thread |-> FALSE]
    /\ marked = FALSE /\ todo = {} /\ given = {}

-----------------------------------------------------------------------------
(* sync_user under the user's lock, in either thread. *)

Goto(t, step) == pc' = [pc EXCEPT ![t] = step]
SyncFrame == UNCHANGED <<exposed, valid, offers, arrived, retired, changes, crashes, visible>>
NoMail == UNCHANGED <<far, maildir>>

(* Mutant of TakeLock: push and periodic run do not exclude each other. *)
TakeLockBusy(t) == pc[t] = "lock"

(* A thread that waits for the lock gets it, and runs mbsync for the INBOX: one
   step, since until the run nobody else does anything that depends on the lock. *)
TakeLock(t) == pc[t] = "lock" /\ lock = "none"

(* What the thread does when sync_all_folders or sync_inbox returns. *)
After(t) ==
    IF t = "periodic" THEN "sleep" ELSE IF pushed THEN "idleStart" ELSE "subscribe"

Over(t) == Goto(t, After(t)) /\ pushed' = (pushed /\ t # "watcher")

(* Mutant of Finish: the lock is not a with block, and a return leaves it held. *)
FinishLocked(t) == Over(t) /\ lock' = IF enrolled THEN "none" ELSE lock
Finish(t) == Over(t) /\ lock' = "none"

(* A successful run for the boxes done, both ways. *)
Mirror(done) ==
    /\ far' = [b \in Box |-> IF b \in done THEN far[b] \cup near[b] ELSE far[b]]
    /\ near' = [b \in Box |-> IF b \in done THEN far[b] \cup near[b] ELSE near[b]]
    /\ made' = made \cup (done \ {INBOX})
    /\ steady' = steady \cup (done \ {INBOX})
    /\ UNCHANGED stale

AfterInbox(t) ==
    /\ IF pushed /\ t = "watcher"
       THEN Finish(t)
       ELSE Goto(t, "list") /\ lock' = t /\ UNCHANGED pushed
    /\ owed' = FALSE
    /\ SyncFrame /\ UNCHANGED <<names, refused, news>>

InboxOk(t) ==
    /\ TakeLock(t)
    /\ enrolled /\ valid
    /\ Mirror({INBOX})
    /\ AfterInbox(t) /\ UNCHANGED enrolled

(* No stored password, tunnel down, timeout. *)
InboxFails(t) ==
    /\ TakeLock(t)
    /\ NoMail /\ AfterInbox(t) /\ UNCHANGED enrolled

(* mbsync reports a refused login (a wrong password, or a false alarm): deauth. *)
InboxRefused(t) ==
    /\ TakeLock(t)
    /\ enrolled /\ enrolled' = FALSE
    /\ NoMail /\ AfterInbox(t)

ListFrame == NoMail /\ SyncFrame /\ UNCHANGED <<enrolled, connection>>

(* The stored password is gone: the full run ends before it starts. *)
NoPassword(t) ==
    /\ pc[t] = "list" /\ ~enrolled
    /\ Finish(t)
    /\ ListFrame /\ UNCHANGED <<names, refused>>

ListOk(t) ==
    /\ pc[t] = "list" /\ enrolled
    /\ valid
    /\ names' = [names EXCEPT ![t] = exposed] /\ refused' = [refused EXCEPT ![t] = FALSE]
    /\ Goto(t, "move")
    /\ ListFrame /\ UNCHANGED <<lock, pushed>>

(* LIST is answered NO: imaplib returns that, far_side_folders takes it for an
   answer without folders. *)
ListNo(t) ==
    /\ pc[t] = "list" /\ enrolled
    /\ valid
    /\ names' = [names EXCEPT ![t] = {}] /\ refused' = [refused EXCEPT ![t] = TRUE]
    /\ Goto(t, "move")
    /\ ListFrame /\ UNCHANGED <<lock, pushed>>

(* Connection or login fails: this round goes without the check. *)
ListFails(t) ==
    /\ pc[t] = "list" /\ enrolled
    /\ Goto(t, "all")
    /\ ListFrame /\ UNCHANGED <<lock, pushed, names, refused>>

Forget(t) == names' = [names EXCEPT ![t] = {}] /\ refused' = [refused EXCEPT ![t] = FALSE]

(* Mutants of Move: the stale folders are left where they are, or are deleted. *)
MoveNothing(t) ==
    /\ pc[t] = "move"
    /\ Forget(t) /\ Goto(t, "all")
    /\ ListFrame /\ UNCHANGED <<lock, pushed>>
MoveToNowhere(t) ==
    /\ pc[t] = "move"
    /\ made' = made \cap names[t] /\ steady' = steady \cap names[t]
    /\ near' = [b \in Box |-> IF b \in made \ names[t] THEN {} ELSE near[b]]
    /\ UNCHANGED stale
    /\ Forget(t) /\ Goto(t, "all")
    /\ SyncFrame /\ UNCHANGED <<far, enrolled, lock, pushed, connection>>

(* quarantine_stale_folders: every local folder that was not listed. *)
Move(t) ==
    /\ pc[t] = "move"
    /\ made' = made \cap names[t] /\ steady' = steady \cap names[t]
    /\ near' = [b \in Box |-> IF b \in made \ names[t] THEN {} ELSE near[b]]
    /\ stale' = stale \cup UNION {near[f] : f \in made \ names[t]}
    /\ Forget(t) /\ Goto(t, "all")
    /\ SyncFrame /\ UNCHANGED <<far, enrolled, lock, pushed, connection>>

AllFrame(t) == Finish(t) /\ SyncFrame /\ UNCHANGED <<names, refused, connection>>

(* With the password read before the list, stored still or not. *)
AllOk(t) ==
    /\ pc[t] = "all"
    /\ valid /\ made \subseteq exposed
    /\ Mirror(exposed \cup {INBOX})
    /\ AllFrame(t) /\ UNCHANGED enrolled

(* The run fails, or a local folder has no far side: some boxes are done. *)
AllBroken(t) ==
    /\ pc[t] = "all"
    /\ \/ valid /\ \E done \in SUBSET (exposed \cup {INBOX}) : Mirror(done)
       \/ NoMail
    /\ AllFrame(t) /\ UNCHANGED enrolled

AllRefused(t) ==
    /\ pc[t] = "all"
    /\ enrolled /\ enrolled' = FALSE
    /\ NoMail /\ AllFrame(t)

SyncStep(t) ==
    \/ InboxOk(t) \/ InboxFails(t) \/ InboxRefused(t)
    \/ NoPassword(t) \/ ListOk(t) \/ ListNo(t) \/ ListFails(t) \/ Move(t)
    \/ AllOk(t) \/ AllBroken(t) \/ AllRefused(t)

-----------------------------------------------------------------------------
(* periodic, the manager loop and watch_user. *)

ThreadFrame == UNCHANGED <<university, maildir, lock, names, refused, crashes>>

Periodic ==
    /\ pc["periodic"] = "sleep" /\ enrolled
    /\ Goto("periodic", "lock")
    /\ ThreadFrame /\ UNCHANGED <<enrolled, pushed, connection, visible>>

(* main: a watcher that is not alive is started again for an enrolled user. *)
Respawn ==
    /\ pc["watcher"] = "dead" /\ enrolled
    /\ Goto("watcher", "connect")
    /\ ThreadFrame /\ UNCHANGED <<enrolled, pushed, connection, visible>>

Watch(from, to) ==
    pc["watcher"] = from /\ Goto("watcher", to) /\ ThreadFrame /\ UNCHANGED visible

(* Login and select; a server without IDLE puts the thread to sleep for good. *)
Connect ==
    /\ enrolled /\ valid
    /\ Watch("connect", IF offers THEN "lock" ELSE "asleep")
    /\ pushed' = FALSE /\ news' = FALSE /\ owed' = FALSE
    /\ UNCHANGED <<enrolled>>

ConnectFails ==
    /\ Watch("connect", "backoff")
    /\ UNCHANGED <<enrolled, pushed, connection>>

(* The login is refused: the watcher runs deauth and ends. *)
ConnectRefused ==
    /\ enrolled /\ enrolled' = FALSE
    /\ Watch("connect", "dead")
    /\ UNCHANGED <<pushed, connection>>

(* subscribe_once, after the first sync of a watch, with the password read for it
   (taken to be the latest, as long as nobody changes it in between). *)
Pass(from, to) ==
    /\ pc["watcher"] = from /\ Goto("watcher", to)
    /\ ThreadFrame /\ UNCHANGED <<pushed, connection>>

(* Mutant of BeginPass: the marker is not looked at. *)
BeginPassAlways ==
    /\ (enrolled \/ valid) /\ enrolled' = TRUE
    /\ Pass("subscribe", "subscribing")
    /\ todo' \in {made, {}}
    /\ UNCHANGED <<marked, given>>

(* The login to the local Dovecot enrols a user who was dropped meanwhile.  Every
   folder is to be subscribed, unless the user has subscribed some himself (what he
   has is not followed), or LIST is answered NO. *)
BeginPass ==
    /\ ~marked
    /\ (enrolled \/ valid) /\ enrolled' = TRUE
    /\ Pass("subscribe", "subscribing")
    /\ todo' \in {made, {}}
    /\ UNCHANGED <<marked, given>>

(* The marker is there; or the connection, the login or a listing fails. *)
SkipPass == Pass("subscribe", "idleStart") /\ UNCHANGED <<enrolled, visible>>

(* Taken by Dovecot or not: a refusal, a lost connection and a name that imaplib
   does not encode are passed over alike. *)
Subscribe(f) ==
    /\ f \in todo /\ todo' = todo \ {f}
    /\ Pass("subscribing", "subscribing")
    /\ given' \in {given, given \cup ({f} \cap Plain)}
    /\ UNCHANGED <<enrolled, marked>>

(* The marker is written, or cannot be: then the pass does not count. *)
EndPass ==
    /\ todo = {}
    /\ Pass("subscribing", "idleStart")
    /\ \/ marked' = TRUE /\ UNCHANGED given
       \/ marked' = FALSE /\ given' = {}
    /\ UNCHANGED <<enrolled, todo>>

(* _idle_wait: what the server says before its continuation is thrown away. *)
IdleStart ==
    /\ Watch("idleStart", "idling")
    /\ news' \in {FALSE, news}
    /\ UNCHANGED <<enrolled, pushed, owed>>

Signalled ==
    /\ news /\ news' = FALSE
    /\ Watch("idling", "lock")
    /\ pushed' = TRUE
    /\ UNCHANGED <<enrolled, owed>>

(* The connection ends; or IDLE_REFRESH seconds pass: after a time-out the
   connection's file object raises on the next read, so the watch ends too. *)
WatchEnds ==
    /\ \/ Watch("idleStart", "backoff")
       \/ Watch("idling", "backoff")
    /\ news' = FALSE /\ owed' = FALSE
    /\ UNCHANGED <<enrolled, pushed>>

BackoffOver ==
    /\ Watch("backoff", "connect")
    /\ UNCHANGED <<enrolled, pushed, connection>>

WatchStep ==
    \/ Respawn \/ Connect \/ ConnectFails \/ ConnectRefused
    \/ BeginPass \/ SkipPass \/ (\E f \in Folder : Subscribe(f)) \/ EndPass
    \/ IdleStart \/ Signalled \/ BackoffOver

(* The daemon dies; the supervising loop of the entrypoint starts it again. *)
Crash ==
    /\ crashes < MaxCrashes /\ crashes' = crashes + 1
    /\ pc' = [t \in Thread |-> IF t = "watcher" THEN "dead" ELSE "sleep"]
    /\ lock' = "none" /\ news' = FALSE /\ owed' = FALSE
    /\ names' = [t \in Thread |-> {}] /\ refused' = [t \in Thread |-> FALSE]
    /\ pushed' = FALSE
    /\ todo' = {} /\ given' = IF marked THEN given ELSE {}
    /\ UNCHANGED <<university, maildir, enrolled, marked>>

-----------------------------------------------------------------------------
(* The university and the user's client. *)

Watching ==
    pc["watcher"] \in SyncSteps \cup {"subscribe", "subscribing", "idleStart", "idling"}
DaemonFrame == UNCHANGED <<pc, lock, work, crashes, visible>>
Change == changes < MaxChanges /\ changes' = changes + 1

Deliver(m, b) ==
    /\ m \in Mail \ arrived /\ arrived' = arrived \cup {m}
    /\ b \in exposed \cup {INBOX}
    /\ far' = [far EXCEPT ![b] = @ \cup {m}]
    /\ IF b = INBOX /\ Watching THEN news' = TRUE /\ owed' = TRUE ELSE UNCHANGED connection
    /\ UNCHANGED <<exposed, valid, offers, retired, changes, maildir, enrolled>>
    /\ DaemonFrame

(* A folder gets another name, one that was not in use before. *)
Rename(f, g) ==
    /\ Change
    /\ f \in exposed /\ g \in Folder \ retired
    /\ exposed' = (exposed \ {f}) \cup {g} /\ retired' = retired \cup {g}
    /\ far' = [far EXCEPT ![g] = far[f], ![f] = {}]
    /\ steady' = steady \ {f}
    /\ UNCHANGED <<valid, offers, arrived, near, made, stale, enrolled, connection>>
    /\ DaemonFrame

ChangePassword ==
    /\ Change
    /\ valid' = FALSE
    /\ UNCHANGED <<far, exposed, offers, arrived, retired, maildir, enrolled, connection>>
    /\ DaemonFrame

(* The user logs in again after a deauth: authcheck stores a password that the
   university takes. *)
Reenroll ==
    /\ ~enrolled /\ enrolled' = TRUE
    /\ valid' = TRUE
    /\ UNCHANGED <<far, exposed, offers, arrived, retired, changes, maildir, connection>>
    /\ DaemonFrame

ClientFrame ==
    /\ UNCHANGED <<far, exposed, valid, offers, retired, enrolled, connection>>
    /\ DaemonFrame

MakeFolder(f) ==
    /\ Change
    /\ f \in Folder \ made /\ made' = made \cup {f}
    /\ UNCHANGED <<near, stale, steady, arrived>> /\ ClientFrame

(* A copy of sent mail, filed in a local folder. *)
File(m, f) ==
    /\ m \in Mail \ arrived /\ arrived' = arrived \cup {m}
    /\ f \in made
    /\ near' = [near EXCEPT ![f] = @ \cup {m}]
    /\ UNCHANGED <<made, stale, steady, changes>> /\ ClientFrame

Environment ==
    \/ \E m \in Mail, b \in Box : Deliver(m, b)
    \/ \E f, g \in Folder : Rename(f, g)
    \/ ChangePassword \/ Reenroll
    \/ \E f \in Folder : MakeFolder(f)
    \/ \E m \in Mail, f \in Folder : File(m, f)

Next ==
    \/ \E t \in Thread : SyncStep(t)
    \/ Periodic \/ WatchStep \/ WatchEnds \/ Crash
    \/ Environment

Spec == Init /\ [][Next]_vars

(* The threads run; what can succeed does so sooner or later: neither the tunnel
   nor the university fails for ever, and a password that is no longer taken is
   refused.  The lock goes to a waiting thread in the end. *)
Fairness ==
    /\ WF_vars(Periodic \/ SyncStep("periodic")) /\ WF_vars(WatchStep \/ SyncStep("watcher"))
    /\ \A t \in Thread : SF_vars(InboxOk(t) \/ InboxFails(t) \/ InboxRefused(t))
    /\ SF_vars(ListOk("periodic")) /\ SF_vars(AllOk("periodic"))
    /\ SF_vars(Connect) /\ SF_vars(IdleStart)
    /\ SF_vars(~valid /\ (AllRefused("periodic") \/ ConnectRefused))
FairSpec == Spec /\ Fairness

-----------------------------------------------------------------------------
(* Properties. *)

(* A folder that was mirrored and that the university has exposed ever since is
   not taken for stale, although the list of folders is fetched long before it
   is acted on and another thread may be mirroring new folders; unless LIST was
   answered NO (quarantine_stale_folders, _user_lock). *)
LiveFolderStays ==
    [][\A t \in Thread : Move(t) /\ ~refused[t] => steady \subseteq made']_vars

(* The mirror keeps Mailbox's promise: through renames, moved folders, failed runs
   and crashes no run deletes mail on either side, and what leaves the Maildir is in
   stale-folders from then on ("The mail itself is kept (moved, not deleted)").  No
   mail is lost, that is (NothingLost). *)
MB == INSTANCE Mailbox WITH
    there <- UNION {far[b] : b \in Box}, here <- UNION {near[b] : b \in Box}, aside <- stale
MailRespected == MB!Spec
NothingLost == MB!Kept

(* A folder that the daemon has subscribed once is the user's to hide: no later
   watch, after a reconnect, a crash or a new enrolment, subscribes it again ("so a
   reconnect never re-subscribes anything").  A pass whose marker was never written
   does not count: the next one begins anew. *)
SubscribedOnce == [][\A f \in given : ~Subscribe(f)]_vars

(* An enrolled user's Maildir comes to hold all the mail there is at the university,
   in every folder, although a local folder without a far side makes every full run
   fail until it is moved away ("so this one dead folder can no longer block INBOX
   or any other folder"). *)
MailArrives ==
    enrolled ~> (~enrolled \/ \A b \in Box : far[b] \subseteq near[b])

(* An enrolled user is watched: after a refusal and a new enrolment, a crash or a
   lost connection the watcher comes back to IDLE. *)
WatcherBack ==
    (enrolled /\ offers) ~> (pc["watcher"] = "idling" \/ ~enrolled)

(* "The moment the university signals new mail it triggers an immediate mbsync of
   the INBOX": while the watcher idles, a signal that no sync has followed yet is
   still to be read. *)
SignalNotMissed == pc["watcher"] = "idling" /\ owed => news
=============================================================================
