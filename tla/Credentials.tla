---------------------------- MODULE Credentials ----------------------------
(***************************************************************************)
(* The credential store of one mail user, /mail/.creds/<email>/, and every *)
(* process that touches it: the logins (mail/authcheck.py, one process per *)
(* IMAP or SMTP login, many at once, no lock between them) and the workers *)
(* that act for the user with the stored university password and drop it   *)
(* when the university refuses it (sync.sync_user, idle.watch_user and     *)
(* relaysend.main).  The university, which may change the password at any  *)
(* time or be out of reach, is the environment.                            *)
(*                                                                         *)
(* A step is one operation on one file: the check, the rename or the       *)
(* removal.  The open-write-close of a temporary file is a single step.    *)
(* A file holds the password it was made from; hashing and encryption are  *)
(* taken as injective and are left out.                                    *)
(***************************************************************************)
EXTENDS Naturals

CONSTANTS
    Login,       \* concurrent authcheck.py processes
    Worker,      \* sync run, IDLE watcher, relay: all use the stored password
    Password,    \* passwords a client may type
    FirstPw,     \* the university password at the start
    Nothing,     \* no file, no password
    MaxEvents    \* bound: password changes and container restarts together

ASSUME PasswordAssumption == FirstPw \in Password /\ Nothing \notin Password
ASSUME BoundAssumption == MaxEvents \in Nat

VARIABLES
    passhash, upass,    \* the two credential files
    lastUni,            \* last_uni exists and is younger than UNI_COOLDOWN
    tmpHash, tmpUpass,  \* passhash.tmp and upass.enc.tmp, shared by all logins
    tmpMark,            \* last_uni.tmp exists
    owned,              \* which of upass.enc and its .tmp the mail user may read
    pc, pw,             \* per login: the step it is at and the password it was given
    wpc, held,          \* per worker: its step and the password it read
    uniPw,              \* the university's password for the user
    events,             \* how many of MaxEvents have happened
    everValid,          \* history: passwords the university has had
    checked             \* history: logins that asked the university since the
                        \* cooldown window was last opened

files == <<passhash, upass, lastUni, tmpHash, tmpUpass, tmpMark, owned>>
logins == <<pc, pw, checked>>
workers == <<wpc, held>>
university == <<uniPw, everValid, events>>
vars == <<files, logins, workers, university>>

Stored == Password \cup {Nothing}
OwnedFiles == {"upass", "tmp"}
LoginSteps == {"idle", "enrolled", "local", "cooldown", "markWrite", "markReplace",
               "verify", "hashWrite", "hashReplace", "upassWrite", "upassReplace", "own"}
WorkerSteps == {"idle", "use", "dropHash", "dropUpass", "dropMark"}

(* The steps of enroll(): reached only after the university said yes. *)
EnrollSteps == {"hashWrite", "hashReplace", "upassWrite", "upassReplace", "own"}

TypeOK ==
    /\ passhash \in Stored /\ upass \in Stored
    /\ tmpHash \in Stored /\ tmpUpass \in Stored
    /\ lastUni \in BOOLEAN /\ tmpMark \in BOOLEAN
    /\ owned \in SUBSET OwnedFiles
    /\ pc \in [Login -> LoginSteps] /\ pw \in [Login -> Stored]
    /\ \A l \in Login : pc[l] # "idle" => pw[l] \in Password
    /\ wpc \in [Worker -> WorkerSteps] /\ held \in [Worker -> Stored]
    /\ uniPw \in Password
    /\ events \in 0 .. MaxEvents
    /\ everValid \in SUBSET Password
    /\ checked \in SUBSET Login

Init ==
    /\ passhash = Nothing /\ upass = Nothing
    /\ tmpHash = Nothing /\ tmpUpass = Nothing
    /\ lastUni = FALSE /\ tmpMark = FALSE
    /\ owned = {}
    /\ pc = [l \in Login |-> "idle"] /\ pw = [l \in Login |-> Nothing]
    /\ wpc = [w \in Worker |-> "idle"] /\ held = [w \in Worker |-> Nothing]
    /\ uniPw = FirstPw
    /\ events = 0
    /\ everValid = {FirstPw} /\ checked = {}

-----------------------------------------------------------------------------
(* One login: authenticate() and what it calls. *)

Goto(l, step) == pc' = [pc EXCEPT ![l] = step]

(* The process ends: exit 0 (reply program), 1 (refused), 111 or a traceback. *)
Exit(l) == Goto(l, "idle") /\ pw' = [pw EXCEPT ![l] = Nothing]
Accept(l) == Exit(l) /\ UNCHANGED checked
Refuse(l) == Exit(l) /\ UNCHANGED checked
Proceed(l, step) == Goto(l, step) /\ UNCHANGED <<pw, checked>>
LoginFrame == UNCHANGED <<workers, university>>

(* Mutant of Start: main() forgets to refuse an empty password. *)
StartUnchecked(l, p) ==
    /\ pc[l] = "idle"
    /\ Goto(l, "enrolled") /\ pw' = [pw EXCEPT ![l] = Nothing]
    /\ UNCHANGED <<files, checked>> /\ LoginFrame

(* A client opens a login with some password; many logins may be open. *)
Start(l, p) ==
    /\ pc[l] = "idle"
    /\ Goto(l, "enrolled") /\ pw' = [pw EXCEPT ![l] = p]
    /\ UNCHANGED <<files, checked>> /\ LoginFrame

IsEnrolled(l) ==
    /\ pc[l] = "enrolled"
    /\ Proceed(l, IF passhash # Nothing THEN "local" ELSE "cooldown")
    /\ UNCHANGED files /\ LoginFrame

(* Mutant of VerifyLocal: a mismatch is final, the university is not asked. *)
VerifyLocalFinal(l) ==
    /\ pc[l] = "local"
    /\ IF passhash = pw[l] THEN Accept(l) ELSE Refuse(l)
    /\ UNCHANGED files /\ LoginFrame

(* The file is opened again: it may be another one by now, or be gone. *)
VerifyLocal(l) ==
    /\ pc[l] = "local"
    /\ IF passhash = pw[l] THEN Accept(l) ELSE Proceed(l, "cooldown")
    /\ UNCHANGED files /\ LoginFrame

(* Mutant of CooldownCheck: the age of the marker is not looked at. *)
CooldownIgnored(l) ==
    /\ pc[l] = "cooldown"
    /\ Proceed(l, "markWrite")
    /\ UNCHANGED files /\ LoginFrame

(* cooldown_ok reads the marker, then writes it. *)
CooldownCheck(l) ==
    /\ pc[l] = "cooldown"
    /\ IF lastUni THEN Refuse(l) ELSE Proceed(l, "markWrite")
    /\ UNCHANGED files /\ LoginFrame

MarkWrite(l) ==
    /\ pc[l] = "markWrite"
    /\ tmpMark' = TRUE
    /\ Proceed(l, "markReplace")
    /\ UNCHANGED <<passhash, upass, lastUni, tmpHash, tmpUpass, owned>> /\ LoginFrame

(* If another login already renamed the shared .tmp, chmod/replace raises and
   the login dies. *)
MarkReplace(l) ==
    /\ pc[l] = "markReplace"
    /\ IF tmpMark
       THEN /\ tmpMark' = FALSE /\ lastUni' = TRUE
            /\ Goto(l, "verify")
            /\ checked' = IF lastUni THEN checked ELSE {}
            /\ UNCHANGED pw
       ELSE Refuse(l) /\ UNCHANGED <<tmpMark, lastUni>>
    /\ UNCHANGED <<passhash, upass, tmpHash, tmpUpass, owned>> /\ LoginFrame

(* The university accepts its current password only. *)
VerifyYes(l) ==
    /\ pc[l] = "verify"
    /\ pw[l] = uniPw
    /\ Goto(l, "hashWrite")
    /\ checked' = checked \cup {l}
    /\ UNCHANGED <<files, pw>> /\ LoginFrame

(* Mutant of VerifyNo: an IMAP error is taken for a yes. *)
VerifyLax(l) ==
    /\ pc[l] = "verify"
    /\ Goto(l, "hashWrite")
    /\ checked' = checked \cup {l}
    /\ UNCHANGED <<files, pw>> /\ LoginFrame

(* Refused (any IMAP error, even for the right password), or out of reach. *)
VerifyNo(l) ==
    /\ pc[l] = "verify"
    /\ Exit(l)
    /\ checked' = checked \cup {l}
    /\ UNCHANGED files /\ LoginFrame

HashWrite(l) ==
    /\ pc[l] = "hashWrite"
    /\ tmpHash' = pw[l]
    /\ Proceed(l, "hashReplace")
    /\ UNCHANGED <<passhash, upass, lastUni, tmpUpass, tmpMark, owned>> /\ LoginFrame

HashReplace(l) ==
    /\ pc[l] = "hashReplace"
    /\ IF tmpHash # Nothing
       THEN passhash' = tmpHash /\ tmpHash' = Nothing /\ Proceed(l, "upassWrite")
       ELSE Refuse(l) /\ UNCHANGED <<passhash, tmpHash>>
    /\ UNCHANGED <<upass, lastUni, tmpUpass, tmpMark, owned>> /\ LoginFrame

(* Opening a left-over .tmp keeps its owner. *)
UpassWrite(l) ==
    /\ pc[l] = "upassWrite"
    /\ tmpUpass' = pw[l]
    /\ owned' = IF tmpUpass = Nothing THEN owned \ {"tmp"} ELSE owned
    /\ Proceed(l, "upassReplace")
    /\ UNCHANGED <<passhash, upass, lastUni, tmpHash, tmpMark>> /\ LoginFrame

UpassReplace(l) ==
    /\ pc[l] = "upassReplace"
    /\ IF tmpUpass # Nothing
       THEN /\ upass' = tmpUpass /\ tmpUpass' = Nothing
            /\ owned' = IF "tmp" \in owned THEN {"upass"} ELSE {}
            /\ Proceed(l, "own")
       ELSE Refuse(l) /\ UNCHANGED <<upass, tmpUpass, owned>>
    /\ UNCHANGED <<passhash, lastUni, tmpHash, tmpMark>> /\ LoginFrame

(* The files, until now root's, are handed to the mail user; the login succeeds. *)
Own(l) ==
    /\ pc[l] = "own"
    /\ owned' = {f \in OwnedFiles : \/ f = "upass" /\ upass # Nothing
                                    \/ f = "tmp" /\ tmpUpass # Nothing}
    /\ Accept(l)
    /\ UNCHANGED <<passhash, upass, lastUni, tmpHash, tmpUpass, tmpMark>> /\ LoginFrame

LoginStep(l) ==
    \/ IsEnrolled(l) \/ VerifyLocal(l) \/ CooldownCheck(l)
    \/ MarkWrite(l) \/ MarkReplace(l) \/ VerifyNo(l) \/ VerifyYes(l)
    \/ HashWrite(l) \/ HashReplace(l) \/ UpassWrite(l) \/ UpassReplace(l) \/ Own(l)

-----------------------------------------------------------------------------
(* The workers.  The three programs differ in what they do for the user; of the
   credentials each reads upass.enc, uses it some time later, and calls deauth()
   if the university refuses it.  deauth() removes one file after the other. *)

WGoto(w, step) == wpc' = [wpc EXCEPT ![w] = step]
WorkerFrame == UNCHANGED <<logins, university, tmpHash, tmpUpass, tmpMark>>

ReadStored(w) ==
    /\ wpc[w] = "idle"
    /\ upass # Nothing /\ "upass" \in owned
    /\ held' = [held EXCEPT ![w] = upass]
    /\ WGoto(w, "use")
    /\ UNCHANGED <<passhash, upass, lastUni, owned>> /\ WorkerFrame

(* Accepted, or no verdict (tunnel down, timeout): nothing is dropped. *)
UseOver(w) ==
    /\ wpc[w] = "use"
    /\ WGoto(w, "idle") /\ held' = [held EXCEPT ![w] = Nothing]
    /\ UNCHANGED <<passhash, upass, lastUni, owned>> /\ WorkerFrame

(* The login was refused: a wrong password, or a false alarm. *)
UseRefused(w) ==
    /\ wpc[w] = "use"
    /\ WGoto(w, "dropHash")
    /\ UNCHANGED <<passhash, upass, lastUni, owned, held>> /\ WorkerFrame

DropHash(w) ==
    /\ wpc[w] = "dropHash"
    /\ passhash' = Nothing
    /\ WGoto(w, "dropUpass")
    /\ UNCHANGED <<upass, lastUni, owned, held>> /\ WorkerFrame

(* Mutant of DropUpass: deauth forgets the encrypted password. *)
KeepUpass(w) ==
    /\ wpc[w] = "dropUpass"
    /\ WGoto(w, "dropMark")
    /\ UNCHANGED <<passhash, upass, owned, lastUni, held>> /\ WorkerFrame

DropUpass(w) ==
    /\ wpc[w] = "dropUpass"
    /\ upass' = Nothing /\ owned' = owned \ {"upass"}
    /\ WGoto(w, "dropMark")
    /\ UNCHANGED <<passhash, lastUni, held>> /\ WorkerFrame

DropMark(w) ==
    /\ wpc[w] = "dropMark"
    /\ lastUni' = FALSE
    /\ WGoto(w, "idle") /\ held' = [held EXCEPT ![w] = Nothing]
    /\ UNCHANGED <<passhash, upass, owned>> /\ WorkerFrame

WorkerStep(w) ==
    \/ ReadStored(w) \/ UseOver(w) \/ UseRefused(w)
    \/ DropHash(w) \/ DropUpass(w) \/ DropMark(w)

-----------------------------------------------------------------------------
(* The environment. *)

(* UNI_COOLDOWN seconds have passed since the marker was written. *)
CooldownOver ==
    /\ lastUni
    /\ lastUni' = FALSE
    /\ UNCHANGED <<passhash, upass, tmpHash, tmpUpass, tmpMark, owned>>
    /\ UNCHANGED <<logins, workers, university>>

ChangePassword(p) ==
    /\ events < MaxEvents
    /\ p # uniPw
    /\ uniPw' = p /\ events' = events + 1
    /\ everValid' = everValid \cup {p}
    /\ UNCHANGED <<files, logins, workers>>

(* The container stops: every process dies where it stands, the files stay. *)
Restart ==
    /\ events < MaxEvents
    /\ events' = events + 1
    /\ pc' = [l \in Login |-> "idle"] /\ pw' = [l \in Login |-> Nothing]
    /\ wpc' = [w \in Worker |-> "idle"] /\ held' = [w \in Worker |-> Nothing]
    /\ UNCHANGED <<files, checked, uniPw, everValid>>

Next ==
    \/ \E l \in Login : LoginStep(l) \/ \E p \in Password : Start(l, p)
    \/ \E w \in Worker : WorkerStep(w)
    \/ CooldownOver
    \/ \E p \in Password : ChangePassword(p)
    \/ Restart

(* A process that runs is scheduled; a worker that holds a refused password is
   refused sooner or later; a verification that can succeed is not refused for
   ever; a patient client keeps typing the password the university has. *)
Fairness ==
    /\ \A l \in Login :
        /\ WF_vars(LoginStep(l))
        /\ SF_vars(VerifyYes(l))
        /\ SF_vars(Start(l, uniPw))
    /\ \A w \in Worker :
        /\ WF_vars(WorkerStep(w))
        /\ SF_vars(UseRefused(w) /\ held[w] # uniPw)
    /\ WF_vars(CooldownOver)

Spec == Init /\ [][Next]_vars
FairSpec == Spec /\ Fairness

-----------------------------------------------------------------------------
(* Properties. *)

(* Only a password the university itself once accepted is ever stored or opens
   the mailbox, whatever the interleaving of logins, deauth and restarts with
   the shared temporary files (authcheck.py: "only the university can vouch"). *)
Passes(l) == \/ pc[l] = "local" /\ passhash = pw[l]
             \/ pc[l] = "own"
VouchedOnly ==
    /\ {passhash, upass} \subseteq everValid \cup {Nothing}
    /\ \A l \in Login : Passes(l) => pw[l] \in everValid

(* The cooldown limits a flood: between two openings of the cooldown window a
   login process asks the university at most once, although the marker is read
   and written in separate steps and by many logins (cooldown_ok). *)
Asks(l) == VerifyYes(l) \/ VerifyNo(l)
OncePerWindow == [][\A l \in Login : Asks(l) => l \notin checked]_vars

(* A stored password that the university no longer takes is dropped or replaced:
   the workers do not present it for ever (deauth in all three of them). *)
StaleSecretDropped ==
    (upass # uniPw /\ "upass" \in owned) ~> (upass \in {Nothing, uniPw} \/ "upass" \notin owned)

(* From any state the store can be left in (half-removed files, left-over .tmp
   files, dead processes), clients that type the university's current password
   are let in again and again, once nobody floods the user with wrong ones
   (deauth: "the client simply re-authenticates ... and re-enrolls"). *)
LetIn(l) ==
    \/ VerifyLocal(l) /\ pw[l] = uniPw /\ passhash = uniPw
    \/ Own(l) /\ pw[l] = uniPw
GoodPasswordGetsIn ==
    <>[](\A l \in Login : pw[l] \in {uniPw, Nothing})
        => []<><<\E l \in Login : LetIn(l)>>_vars

(* The store implements the vault: seen from outside, six files and any number of
   processes are one set of passwords, into which a password comes in one step, and
   only while it is the university's own (authcheck.py: "only the university can
   vouch"); a login that died, a left-over .tmp file or a deauth only ever takes
   passwords away. *)
Kept == ({passhash, upass, tmpHash, tmpUpass} \cup {pw[l] : l \in {m \in Login : pc[m] \in EnrollSteps}})
            \ {Nothing}
Promised == INSTANCE Vault WITH kept <- Kept, valid <- uniPw
VaultRespected == Promised!Spec

(* An enrolled user is served: a user whose password passes locally has the
   readable encrypted password the sync and the relay need, at the latest after
   some more logins (authcheck.py: "store a password hash ... and the university
   password encrypted ..., so the sync engine can act for the user later"). *)
EnrolledIsServed ==
    (passhash = uniPw) ~> (passhash # uniPw \/ (upass # Nothing /\ "upass" \in owned))
=============================================================================
