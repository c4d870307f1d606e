----------------------------- MODULE RelayQueue -----------------------------
(***************************************************************************)
(* The send path: Postfix's queue and one mail/relaysend.py process per    *)
(* delivery attempt, composed with the credential store.  A relaysend      *)
(* process is a worker of Credentials: it reads the stored password, uses  *)
(* it, and runs deauth() when the university refuses it.  Its exit code    *)
(* tells Postfix to forget the message (EX_OK), to bounce it               *)
(* (EX_NOPERM, EX_UNAVAILABLE) or to keep it (EX_TEMPFAIL).                *)
(*                                                                         *)
(* Postfix is external: it keeps a deferred message, runs it again some    *)
(* time later, and puts an interrupted delivery back when it is restarted. *)
(* Its queue lifetime (days) and the loss of the queue when the container  *)
(* is recreated are left out.                                              *)
(***************************************************************************)
EXTENDS Credentials

CONSTANTS
    Msg,        \* messages; each is the worker that delivers it
    Rcpt,       \* recipients of a message
    MaxDoubts   \* bound: attempts of a message that end in doubt

ASSUME MsgAssumption == Msg \subseteq Worker
ASSUME DoubtAssumption == MaxDoubts \in Nat

VARIABLES
    queue,      \* per message: where Postfix has it
    stage,      \* per message: how far its relaysend process is with the server
    copies,     \* per message and recipient: copies the university accepted
    doubts,     \* history, per message: attempts that accepted the message but
                \* were reported as temporary failures
    session     \* an authenticated submission session is open

relayVars == <<queue, stage, copies, doubts, session>>
sendVars == <<vars, relayVars>>

Places == {"new", "queued", "active", "sent", "bounced"}
Stages == {"none", "login", "envelope", "data", "quit"}

RelayTypeOK ==
    /\ queue \in [Msg -> Places]
    /\ stage \in [Msg -> Stages]
    /\ copies \in [Msg -> [Rcpt -> 0 .. MaxDoubts + 1]]
    /\ doubts \in [Msg -> 0 .. MaxDoubts]
    /\ session \in BOOLEAN

RelayInit ==
    /\ Init
    /\ queue = [m \in Msg |-> "new"]
    /\ stage = [m \in Msg |-> "none"]
    /\ copies = [m \in Msg |-> [r \in Rcpt |-> 0]]
    /\ doubts = [m \in Msg |-> 0]
    /\ session = FALSE

-----------------------------------------------------------------------------
(* Postfix. *)

Put(m, place) == queue' = [queue EXCEPT ![m] = place]
At(m, s) == stage' = [stage EXCEPT ![m] = s]

(* The client hands over a message in an authenticated session. *)
Submit(m) ==
    /\ session /\ queue[m] = "new"
    /\ Put(m, "queued")
    /\ UNCHANGED <<vars, stage, copies, doubts, session>>

-----------------------------------------------------------------------------
(* One relaysend process. *)

(* Its exit codes, as Postfix takes them. *)
ExitOk(m) == Put(m, "sent") /\ At(m, "none")
ExitBounce(m) == Put(m, "bounced") /\ At(m, "none")
ExitTempfail(m) == Put(m, "queued") /\ At(m, "none")

Readable == upass # Nothing /\ "upass" \in owned

Attempt(m) ==
    /\ queue[m] = "queued"
    /\ ReadStored(m)
    /\ Put(m, "active") /\ At(m, "login")
    /\ UNCHANGED <<copies, doubts, session>>

(* No stored password, or one the mail user may not read: EX_NOPERM. *)
NotEnrolled(m) ==
    /\ queue[m] = "queued"
    /\ ~Readable
    /\ ExitBounce(m)
    /\ UNCHANGED <<vars, copies, doubts, session>>

LoginOk(m) ==
    /\ stage[m] = "login"
    /\ held[m] = uniPw
    /\ At(m, "envelope")
    /\ UNCHANGED <<vars, queue, copies, doubts, session>>

(* SMTPAuthenticationError: a wrong password, or a temporary 454. *)
LoginRefused(m) ==
    /\ stage[m] = "login"
    /\ UseRefused(m)
    /\ At(m, "none")
    /\ UNCHANGED <<queue, copies, doubts, session>>

(* Mutant of Deauth: the relay drops upass.enc itself and leaves the hash. *)
DropOwnSecret(m) ==
    /\ wpc[m] = "dropHash"
    /\ upass' = Nothing /\ owned' = owned \ {"upass"}
    /\ WGoto(m, "idle") /\ held' = [held EXCEPT ![m] = Nothing]
    /\ ExitTempfail(m)
    /\ UNCHANGED <<passhash, lastUni>> /\ WorkerFrame
    /\ UNCHANGED <<copies, doubts, session>>

(* deauth() of this process; EX_TEMPFAIL after its last removal. *)
Deauth(m) ==
    /\ queue[m] = "active"
    /\ \/ (DropHash(m) \/ DropUpass(m)) /\ UNCHANGED <<queue, stage>>
       \/ DropMark(m) /\ ExitTempfail(m)
    /\ UNCHANGED <<copies, doubts, session>>

(* Connection lost, server busy, MAIL or DATA refused: nothing was accepted. *)
Transient(m) ==
    /\ stage[m] \in {"login", "envelope", "data"}
    /\ UseOver(m)
    /\ ExitTempfail(m)
    /\ UNCHANGED <<copies, doubts, session>>

(* Mutants of AllRefused: SMTPRecipientsRefused is caught by the handler of its
   base class, which defers; or it is swallowed. *)
AllRefusedDeferred(m) ==
    /\ stage[m] = "envelope"
    /\ UseOver(m)
    /\ ExitTempfail(m)
    /\ UNCHANGED <<copies, doubts, session>>
AllRefusedIgnored(m) ==
    /\ stage[m] = "envelope"
    /\ UseOver(m)
    /\ ExitOk(m)
    /\ UNCHANGED <<copies, doubts, session>>

(* sendmail() raises only if every recipient is refused. *)
AllRefused(m) ==
    /\ stage[m] = "envelope"
    /\ UseOver(m)
    /\ ExitBounce(m)
    /\ UNCHANGED <<copies, doubts, session>>

SomeAccepted(m) ==
    /\ stage[m] = "envelope"
    /\ At(m, "data")
    /\ UNCHANGED <<vars, queue, copies, doubts, session>>

(* The server takes the message for the recipients it accepted; what it said of
   the others is the return value of sendmail(), which is not looked at. *)
Deliver(m) ==
    /\ stage[m] = "data"
    /\ \E to \in (SUBSET Rcpt) \ {{}} :
           copies' = [copies EXCEPT ![m] = [r \in Rcpt |->
                        IF r \in to THEN copies[m][r] + 1 ELSE copies[m][r]]]
    /\ At(m, "quit")
    /\ UNCHANGED <<vars, queue, doubts, session>>

(* Mutant of QuitOk: success falls through to the handler of lost connections. *)
QuitOkDeferred(m) ==
    /\ stage[m] = "quit"
    /\ UseOver(m)
    /\ ExitTempfail(m)
    /\ UNCHANGED <<copies, doubts, session>>

QuitOk(m) ==
    /\ stage[m] = "quit"
    /\ UseOver(m)
    /\ ExitOk(m)
    /\ UNCHANGED <<copies, doubts, session>>

(* The connection breaks before the answer to DATA or QUIT is read. *)
QuitLost(m) ==
    /\ stage[m] = "quit"
    /\ doubts[m] < MaxDoubts
    /\ UseOver(m)
    /\ ExitTempfail(m)
    /\ doubts' = [doubts EXCEPT ![m] = @ + 1]
    /\ UNCHANGED <<copies, session>>

Relay(m) ==
    \/ Attempt(m) \/ NotEnrolled(m) \/ LoginOk(m) \/ LoginRefused(m) \/ Deauth(m)
    \/ Transient(m) \/ AllRefused(m) \/ SomeAccepted(m) \/ Deliver(m)
    \/ QuitOk(m) \/ QuitLost(m)

-----------------------------------------------------------------------------
(* The rest of the credential store's life. *)

(* A login that passes may be the AUTH of a submission session. *)
Logins ==
    /\ \E l \in Login :
        \/ \E p \in Password : Start(l, p) /\ UNCHANGED session
        \/ LoginStep(l) /\ session' = (session \/ Passes(l))
    /\ UNCHANGED <<queue, stage, copies, doubts>>

Others ==
    /\ \/ \E w \in Worker \ Msg : WorkerStep(w)
       \/ CooldownOver
       \/ \E p \in Password : ChangePassword(p)
    /\ UNCHANGED relayVars

(* Interrupted deliveries go back into the queue; one that was past DATA is one
   more in doubt. *)
InDoubt(m) == stage[m] = "quit"
MailRestart ==
    /\ Restart
    /\ \A m \in Msg : InDoubt(m) => doubts[m] < MaxDoubts
    /\ queue' = [m \in Msg |-> IF queue[m] = "active" THEN "queued" ELSE queue[m]]
    /\ stage' = [m \in Msg |-> "none"]
    /\ doubts' = [m \in Msg |-> IF InDoubt(m) THEN doubts[m] + 1 ELSE doubts[m]]
    /\ session' = FALSE
    /\ UNCHANGED copies

RelayNext ==
    \/ \E m \in Msg : Submit(m) \/ Relay(m)
    \/ Logins \/ Others \/ MailRestart

(* Postfix keeps retrying a deferred message, and the tunnel and the university
   are not always in the way: an attempt that waits for the verdict on its
   login, for the verdict on its recipients, or to finish, gets there sooner or
   later.  The other workers keep running. *)
Verdict(m) == \/ LoginOk(m)
              \/ LoginRefused(m) /\ held[m] # uniPw
RelayFairness ==
    /\ \A m \in Msg :
        /\ WF_sendVars(Relay(m))
        /\ SF_sendVars(Verdict(m))
        /\ SF_sendVars(SomeAccepted(m) \/ AllRefused(m))
        /\ SF_sendVars(Deliver(m))
        /\ SF_sendVars(QuitOk(m))
    /\ \A w \in Worker \ Msg : WF_sendVars(WorkerStep(w) /\ UNCHANGED relayVars)

RelaySpec == RelayInit /\ [][RelayNext]_sendVars
RelayFairSpec == RelaySpec /\ RelayFairness

-----------------------------------------------------------------------------
(* Properties. *)

(* The send path uses the credential store as Credentials describes it: every
   step is a step of that specification or leaves the store alone. *)
StoreRespected == Init /\ [][Next]_vars

(* A recipient gets a second copy only when an earlier attempt was accepted by
   the university and then reported to Postfix as a temporary failure; and no
   message is reported as sent that reached nobody (exit codes of relaysend). *)
CopiesExplained ==
    \A m \in Msg :
        /\ \A r \in Rcpt :
            copies[m][r] <= doubts[m] + (IF queue[m] = "sent" \/ InDoubt(m) THEN 1 ELSE 0)
        /\ queue[m] = "sent" => \E r \in Rcpt : copies[m][r] > 0

(* No message is stuck: what was queued is sent or bounced in the end. *)
EveryMessageSettles ==
    \A m \in Msg : queue[m] = "queued" ~> queue[m] \in {"sent", "bounced"}

(* Only the university turns a message down.  In particular a message whose
   sender's login was refused waits for the user to enroll again (relaysend.py:
   "defer this message so Postfix retries once the user has re-enrolled"). *)
OnlyUniversityBounces ==
    [][\A m \in Msg : queue'[m] = "bounced" => queue[m] = "bounced" \/ stage[m] = "envelope"]_sendVars
=============================================================================
