---------------------------- MODULE RelayProofs ----------------------------
(***************************************************************************)
(* Theorems about the send path, for every number of messages, recipients, *)
(* logins and workers: it implements Credentials, the copies a recipient   *)
(* gets are accounted for, an attempt takes four steps at most, and a      *)
(* settled message stays so.                                               *)
(***************************************************************************)
EXTENDS RelayQueue, CredentialsProofs

(* Every step of the send path is one of the credential store, or none. *)
LEMMA RelayStep == [RelayNext]_sendVars => [Next]_vars
<1> SUFFICES ASSUME [RelayNext]_sendVars PROVE [Next]_vars
  OBVIOUS
<1>1. ASSUME NEW m \in Msg, Submit(m) \/ Relay(m) PROVE [Next]_vars
  <2>1. m \in Worker
    BY MsgAssumption
  <2>2. CASE \/ Submit(m) \/ NotEnrolled(m) \/ LoginOk(m) \/ SomeAccepted(m) \/ Deliver(m)
    BY <2>2 DEF Submit, NotEnrolled, LoginOk, SomeAccepted, Deliver
  <2>3. CASE Attempt(m) \/ LoginRefused(m) \/ Deauth(m) \/ Transient(m)
             \/ AllRefused(m) \/ QuitOk(m) \/ QuitLost(m)
    <3>1. WorkerStep(m)
      BY <2>3 DEF Attempt, LoginRefused, Deauth, Transient, AllRefused, QuitOk, QuitLost,
                  WorkerStep
    <3> QED BY <2>1, <3>1 DEF Next
  <2> QED BY <1>1, <2>2, <2>3 DEF Relay
<1>2. CASE Logins
  BY <1>2 DEF Logins, Next
<1>3. CASE Others
  BY <1>3 DEF Others, Next
<1>4. CASE MailRestart
  BY <1>4 DEF MailRestart, Next
<1>5. CASE UNCHANGED sendVars
  BY <1>5 DEF sendVars
<1> QED BY <1>1, <1>2, <1>3, <1>4, <1>5 DEF RelayNext

(* The send path treats the credential store as Credentials describes it:
   relaysend.py touches it through authcheck's functions only. *)
THEOREM RelayImplementsStore == RelaySpec => StoreRespected
<1>1. RelayInit => Init
  BY DEF RelayInit
<1> QED BY <1>1, RelayStep, PTL DEF RelaySpec, StoreRespected

(* So what holds of the store holds of it while messages are sent: only passwords
   the university once accepted are stored or let in. *)
THEOREM RelayVouched == RelaySpec => []VouchedOnly
<1>1. StoreRespected => Spec
  BY DEF StoreRespected, Spec
<1> QED BY <1>1, RelayImplementsStore, OnlyVouched, PTL

LEMMA RelayStoreType == RelaySpec => []TypeOK
<1>1. StoreRespected => Spec
  BY DEF StoreRespected, Spec
<1> QED BY <1>1, RelayImplementsStore, TypeCorrect, PTL

-----------------------------------------------------------------------------
(* Delivery attempts and copies. *)

(* The inductive invariant: the types without the bounds on the counters, the
   agreement of process and worker, and who has a copy in each stage. *)
RelayShape ==
    /\ queue \in [Msg -> Places]
    /\ stage \in [Msg -> Stages]
    /\ copies \in [Msg -> [Rcpt -> Nat]]
    /\ doubts \in [Msg -> 0 .. MaxDoubts]
    /\ session \in BOOLEAN

Accounted(m) ==
    /\ \A r \in Rcpt :
        copies[m][r] <= doubts[m] + (IF queue[m] = "sent" \/ stage[m] = "quit" THEN 1 ELSE 0)
    /\ queue[m] = "sent" \/ stage[m] = "quit" => \E r \in Rcpt : copies[m][r] > 0

(* The process at work on a message and its place among the workers of the store:
   bookkeeping of the composition, on which the accounts rest. *)
Paired(m) ==
    /\ stage[m] # "none" <=> wpc[m] = "use"
    /\ queue[m] = "active" <=> wpc[m] # "idle"

RelayInv == RelayShape /\ \A m \in Msg : Paired(m) /\ Accounted(m)

LEMMA RelayInvInit == RelayInit => RelayInv
<1> SUFFICES ASSUME RelayInit PROVE RelayInv
  OBVIOUS
<1>1. RelayShape
  <2>1. [r \in Rcpt |-> 0] \in [Rcpt -> Nat]
    OBVIOUS
  <2>2. copies \in [Msg -> [Rcpt -> Nat]]
    BY <2>1, Zenon DEF RelayInit
  <2>3. /\ queue \in [Msg -> Places] /\ stage \in [Msg -> Stages]
        /\ doubts \in [Msg -> 0 .. MaxDoubts] /\ session \in BOOLEAN
    <3>1. 0 \in 0 .. MaxDoubts
      BY DoubtAssumption
    <3> QED BY <3>1 DEF RelayInit, Places, Stages
  <2> QED BY <2>2, <2>3, Zenon DEF RelayShape
<1>2. ASSUME NEW m \in Msg PROVE Paired(m) /\ Accounted(m)
  <2>1. queue[m] = "new" /\ stage[m] = "none" /\ doubts[m] = 0
    BY DEF RelayInit
  <2>2. \A r \in Rcpt : copies[m][r] = 0
    BY DEF RelayInit
  <2>3. wpc[m] = "idle"
    BY MsgAssumption DEF RelayInit, Init
  <2> QED BY <2>1, <2>2, <2>3 DEF Paired, Accounted
<1> QED BY <1>1, <1>2 DEF RelayInv

(* A step of one message's process leaves the other messages alone. *)
Only(m) ==
    \A n \in Msg \ {m} :
        /\ queue'[n] = queue[n] /\ stage'[n] = stage[n] /\ wpc'[n] = wpc[n]
        /\ copies'[n] = copies[n] /\ doubts'[n] = doubts[n]

LEMMA OthersKept ==
    ASSUME RelayInv, NEW m \in Msg, Only(m), RelayShape', Paired(m)', Accounted(m)'
    PROVE  RelayInv'
<1>1. ASSUME NEW n \in Msg \ {m} PROVE Paired(n)' /\ Accounted(n)'
  <2>1. /\ queue'[n] = queue[n] /\ stage'[n] = stage[n] /\ wpc'[n] = wpc[n]
        /\ copies'[n] = copies[n] /\ doubts'[n] = doubts[n]
    BY DEF Only
  <2>2. Paired(n) /\ Accounted(n)
    BY DEF RelayInv
  <2> QED BY <2>1, <2>2, Zenon DEF Paired, Accounted
<1> QED BY <1>1 DEF RelayInv

(* One step of Postfix or of a relaysend process. *)
LEMMA RelayInvStep ==
    ASSUME TypeOK, RelayInv, NEW m \in Msg, Submit(m) \/ Relay(m)
    PROVE  RelayInv'
<1>w. m \in Worker
  BY MsgAssumption
<1>t. /\ queue \in [Msg -> Places] /\ stage \in [Msg -> Stages]
      /\ wpc \in [Worker -> WorkerSteps]
      /\ copies \in [Msg -> [Rcpt -> Nat]] /\ doubts \in [Msg -> 0 .. MaxDoubts]
      /\ session \in BOOLEAN
      /\ Msg \subseteq Worker
  BY MsgAssumption DEF RelayInv, RelayShape, TypeOK
<1>p. Paired(m) /\ Accounted(m)
  BY DEF RelayInv
<1> USE DEF Places, Stages, RelayShape, Put, At, WGoto
<1>1. CASE Submit(m)
  <2>1. Only(m) /\ RelayShape'
    BY <1>1, <1>t DEF Submit, Only, vars, workers
  <2>2. Paired(m)' /\ Accounted(m)'
    BY <1>1, <1>t, <1>p DEF Submit, Paired, Accounted, vars, workers
  <2> QED BY <2>1, <2>2, OthersKept
<1>2. CASE Attempt(m)
  <2>1. Only(m) /\ RelayShape'
    BY <1>2, <1>t DEF Attempt, ReadStored, Only
  <2>2. Paired(m)' /\ Accounted(m)'
    BY <1>2, <1>t, <1>w, <1>p DEF Attempt, ReadStored, Paired, Accounted
  <2> QED BY <2>1, <2>2, OthersKept
<1>3. CASE NotEnrolled(m)
  <2>1. Only(m) /\ RelayShape'
    BY <1>3, <1>t DEF NotEnrolled, ExitBounce, Only, vars, workers
  <2>2. Paired(m)' /\ Accounted(m)'
    BY <1>3, <1>t, <1>p DEF NotEnrolled, ExitBounce, Paired, Accounted, vars, workers
  <2> QED BY <2>1, <2>2, OthersKept
<1>4. CASE LoginOk(m) \/ SomeAccepted(m)
  <2>1. Only(m) /\ RelayShape'
    BY <1>4, <1>t DEF LoginOk, SomeAccepted, Only, vars, workers
  <2>2. Paired(m)' /\ Accounted(m)'
    BY <1>4, <1>t, <1>p DEF LoginOk, SomeAccepted, Paired, Accounted, vars, workers
  <2> QED BY <2>1, <2>2, OthersKept
<1>5. CASE LoginRefused(m)
  <2>1. Only(m) /\ RelayShape'
    BY <1>5, <1>t DEF LoginRefused, UseRefused, Only
  <2>2. Paired(m)' /\ Accounted(m)'
    BY <1>5, <1>t, <1>w, <1>p DEF LoginRefused, UseRefused, Paired, Accounted
  <2> QED BY <2>1, <2>2, OthersKept
<1>6. CASE Deauth(m)
  <2>1. Only(m) /\ RelayShape'
    BY <1>6, <1>t DEF Deauth, DropHash, DropUpass, DropMark, ExitTempfail, Only
  <2>2. Paired(m)' /\ Accounted(m)'
    BY <1>6, <1>t, <1>w, <1>p
       DEF Deauth, DropHash, DropUpass, DropMark, ExitTempfail, Paired, Accounted
  <2> QED BY <2>1, <2>2, OthersKept
<1>7. CASE Transient(m) \/ AllRefused(m) \/ QuitOk(m)
  <2>1. Only(m) /\ RelayShape'
    BY <1>7, <1>t
       DEF Transient, AllRefused, QuitOk, UseOver, ExitTempfail, ExitBounce, ExitOk, Only
  <2>2. Paired(m)' /\ Accounted(m)'
    BY <1>7, <1>t, <1>w, <1>p
       DEF Transient, AllRefused, QuitOk, UseOver, ExitTempfail, ExitBounce, ExitOk,
           Paired, Accounted
  <2> QED BY <2>1, <2>2, OthersKept
<1>8. CASE Deliver(m)
  <2>1. PICK to \in (SUBSET Rcpt) \ {{}} :
            copies' = [copies EXCEPT ![m] = [r \in Rcpt |->
                        IF r \in to THEN copies[m][r] + 1 ELSE copies[m][r]]]
    BY <1>8 DEF Deliver
  <2>2. Only(m) /\ RelayShape'
    BY <1>8, <1>t, <2>1 DEF Deliver, Only, vars, workers
  <2>3. Paired(m)'
    BY <1>8, <1>t, <1>p DEF Deliver, Paired, vars, workers
  <2>4. Accounted(m)'
    <3>1. /\ stage[m] = "data" /\ queue[m] # "sent"
          /\ stage'[m] = "quit" /\ queue' = queue /\ doubts' = doubts
      BY <1>8, <1>t, <1>p DEF Deliver, Paired
    <3>2. copies'[m] = [r \in Rcpt |->
                          IF r \in to THEN copies[m][r] + 1 ELSE copies[m][r]]
      BY <2>1, <1>t
    <3>3. \A r \in Rcpt : copies[m][r] \in Nat /\ copies[m][r] <= doubts[m]
      BY <3>1, <1>t, <1>p DEF Accounted
    <3>4. \A r \in Rcpt : copies'[m][r] <= doubts[m] + 1
      <4>1. ASSUME NEW r \in Rcpt PROVE copies'[m][r] <= doubts[m] + 1
        <5>1. copies'[m][r] = IF r \in to THEN copies[m][r] + 1 ELSE copies[m][r]
          BY <3>2
        <5>2. doubts[m] \in Nat
          BY <1>t, DoubtAssumption
        <5> QED BY <3>3, <5>1, <5>2
      <4> QED BY <4>1
    <3>5. PICK r \in to : r \in Rcpt
      BY <2>1
    <3>6. copies'[m][r] > 0
      <4>1. r \in to /\ r \in Rcpt
        BY <3>5
      <4>2. copies'[m][r] = copies[m][r] + 1
        BY <3>2, <4>1
      <4> QED BY <3>3, <4>1, <4>2
    <3>7. doubts'[m] + (IF queue'[m] = "sent" \/ stage'[m] = "quit" THEN 1 ELSE 0)
            = doubts[m] + 1
      BY <3>1, <1>t, DoubtAssumption
    <3>8. \E q \in Rcpt : copies'[m][q] > 0
      BY <3>5, <3>6
    <3> QED BY <3>4, <3>7, <3>8, Zenon DEF Accounted
  <2> QED BY <2>2, <2>3, <2>4, OthersKept
<1>9. CASE QuitLost(m)
  <2>1. Only(m) /\ RelayShape'
    BY <1>9, <1>t, DoubtAssumption DEF QuitLost, UseOver, ExitTempfail, Only
  <2>2. Paired(m)'
    BY <1>9, <1>t, <1>w DEF QuitLost, UseOver, ExitTempfail, Paired
  <2>3. Accounted(m)'
    BY <1>9, <1>t, <1>p, DoubtAssumption DEF QuitLost, ExitTempfail, Paired, Accounted
  <2> QED BY <2>1, <2>2, <2>3, OthersKept
<1> QED BY <1>1, <1>2, <1>3, <1>4, <1>5, <1>6, <1>7, <1>8, <1>9 DEF Relay

(* Logins, the other workers and the university leave the messages and their
   processes alone. *)
LEMMA BesideTheQueue ==
    ASSUME TypeOK, Logins \/ Others
    PROVE  /\ UNCHANGED <<queue, stage, copies, doubts>>
           /\ \A m \in Msg : wpc'[m] = wpc[m]
<1>1. UNCHANGED <<queue, stage, copies, doubts>>
  BY DEF Logins, Others, relayVars
<1>2. CASE Logins
  BY <1>1, <1>2
     DEF Logins, Start, LoginStep, IsEnrolled, VerifyLocal, CooldownCheck, MarkWrite,
         MarkReplace, VerifyNo, VerifyYes, HashWrite, HashReplace, UpassWrite,
         UpassReplace, Own, LoginFrame, workers
<1>3. CASE Others
  <2>1. ASSUME NEW w \in Worker \ Msg, WorkerStep(w), NEW m \in Msg PROVE wpc'[m] = wpc[m]
    BY <2>1, MsgAssumption
       DEF WorkerStep, ReadStored, UseOver, UseRefused, DropHash, DropUpass, DropMark, WGoto,
           TypeOK
  <2>2. CooldownOver \/ (\E p \in Password : ChangePassword(p)) => wpc' = wpc
    BY DEF CooldownOver, ChangePassword, workers
  <2> QED BY <1>1, <1>3, <2>1, <2>2 DEF Others
<1> QED BY <1>2, <1>3

(* The other steps: logins, other workers, the university, restarts. *)
LEMMA RelayInvNext == TypeOK /\ RelayInv /\ [RelayNext]_sendVars => RelayInv'
<1> SUFFICES ASSUME TypeOK, RelayInv, [RelayNext]_sendVars PROVE RelayInv'
  OBVIOUS
<1>1. CASE \E m \in Msg : Submit(m) \/ Relay(m)
  BY <1>1, RelayInvStep
<1>2. CASE /\ UNCHANGED <<queue, stage, copies, doubts>>
           /\ session' \in BOOLEAN
           /\ \A m \in Msg : wpc'[m] = wpc[m]
  BY <1>2 DEF RelayInv, RelayShape, Paired, Accounted
<1>3. CASE Logins \/ Others
  <2>1. session' \in BOOLEAN
    BY <1>3 DEF Logins, Others, relayVars, RelayInv, RelayShape
  <2> QED BY <1>2, <1>3, <2>1, BesideTheQueue
<1>5. CASE MailRestart
  <2>1. RelayShape'
    <3>1. /\ queue \in [Msg -> Places] /\ copies \in [Msg -> [Rcpt -> Nat]]
          /\ doubts \in [Msg -> 0 .. MaxDoubts]
      BY DEF RelayInv, RelayShape
    <3>2. queue' \in [Msg -> Places] /\ stage' \in [Msg -> Stages]
      BY <1>5, <3>1 DEF MailRestart, Places, Stages
    <3>3. doubts' \in [Msg -> 0 .. MaxDoubts]
      BY <1>5, <3>1, DoubtAssumption DEF MailRestart, InDoubt
    <3>4. copies' = copies /\ session' \in BOOLEAN
      BY <1>5 DEF MailRestart
    <3> QED BY <3>1, <3>2, <3>3, <3>4, Zenon DEF RelayShape
  <2>2. ASSUME NEW m \in Msg PROVE Paired(m)' /\ Accounted(m)'
    <3>1. /\ queue'[m] = IF queue[m] = "active" THEN "queued" ELSE queue[m]
          /\ stage'[m] = "none" /\ copies' = copies
          /\ doubts'[m] = IF stage[m] = "quit" THEN doubts[m] + 1 ELSE doubts[m]
      BY <1>5 DEF MailRestart, InDoubt
    <3>2. wpc'[m] = "idle"
      BY <1>5, MsgAssumption DEF MailRestart, Restart
    <3>3. /\ doubts[m] \in Nat /\ \A r \in Rcpt : copies[m][r] \in Nat
          /\ Paired(m) /\ Accounted(m)
      BY DoubtAssumption DEF RelayInv, RelayShape
    <3>4. queue[m] = "sent" => stage[m] # "quit" 
      BY <3>3 DEF Paired
    <3>5. Paired(m)'
      BY <3>1, <3>2 DEF Paired
    <3>6. Accounted(m)'
      BY <3>1, <3>3, <3>4 DEF Accounted
    <3> QED BY <3>5, <3>6
  <2> QED BY <2>1, <2>2 DEF RelayInv
<1>6. CASE UNCHANGED sendVars
  BY <1>2, <1>6 DEF sendVars, vars, workers, relayVars, RelayInv, RelayShape
<1> QED BY <1>1, <1>3, <1>5, <1>6 DEF RelayNext

LEMMA RelayInvHolds == RelaySpec => []RelayInv
<1> QED BY RelayInvInit, RelayInvNext, RelayStoreType, PTL DEF RelaySpec

(* The queue, the stage of each process and the counters keep their types; the
   bound on the copies is not in the actions, it follows from the account. *)
THEOREM RelayTyped == RelaySpec => []RelayTypeOK
<1>1. RelayInv => RelayTypeOK
  <2> SUFFICES ASSUME RelayInv PROVE RelayTypeOK
    OBVIOUS
  <2>1. ASSUME NEW m \in Msg, NEW r \in Rcpt PROVE copies[m][r] \in 0 .. MaxDoubts + 1
    <3>1. /\ copies[m][r] \in Nat /\ doubts[m] \in 0 .. MaxDoubts
          /\ copies[m][r] <= doubts[m] + (IF queue[m] = "sent" \/ stage[m] = "quit" THEN 1 ELSE 0)
      BY DEF RelayInv, RelayShape, Accounted
    <3> QED BY <3>1, DoubtAssumption
  <2> QED BY <2>1 DEF RelayInv, RelayShape, RelayTypeOK
<1> QED BY <1>1, RelayInvHolds, PTL

(* A second copy has an attempt in doubt behind it, and "sent" reached somebody:
   what the exit codes of relaysend.py promise to Postfix. *)
THEOREM CopiesAccounted == RelaySpec => []CopiesExplained
<1>1. RelayInv => CopiesExplained
  BY DEF RelayInv, Accounted, CopiesExplained, InDoubt
<1> QED BY <1>1, RelayInvHolds, PTL

-----------------------------------------------------------------------------
(* One attempt after the other. *)

(* The steps an attempt has still to take at most: login, recipients, DATA, QUIT;
   or, once the login is refused, the three removals of deauth(). *)
AttemptLeft(m) ==
    IF stage[m] = "login" THEN 4
    ELSE IF stage[m] = "envelope" \/ wpc[m] = "dropHash" THEN 3
    ELSE IF stage[m] = "data" \/ wpc[m] = "dropUpass" THEN 2
    ELSE IF stage[m] = "quit" \/ wpc[m] = "dropMark" THEN 1
    ELSE 0

AttemptProgress(m) ==
    /\ AttemptLeft(m) \in 0 .. 4
    /\ queue[m] = "active" <=> AttemptLeft(m) > 0
    /\ AttemptLeft(m)' <= AttemptLeft(m) \/ Attempt(m)
    /\ Relay(m) /\ queue[m] = "active" => AttemptLeft(m)' < AttemptLeft(m)

SettledOnce(m) ==
    /\ queue[m] \in {"sent", "bounced"} => queue'[m] = queue[m] /\ copies'[m] = copies[m]
    /\ queue'[m] = "sent" => queue[m] = "sent" \/ stage[m] = "quit"
    /\ queue'[m] = "bounced" =>
            \/ queue[m] = "bounced" \/ stage[m] = "envelope"
            \/ queue[m] = "queued" /\ ~Readable

LEMMA OnlyOne ==
    ASSUME TypeOK, RelayInv, NEW m \in Msg, Submit(m) \/ Relay(m)
    PROVE  Only(m)
<1>t. /\ queue \in [Msg -> Places] /\ stage \in [Msg -> Stages]
      /\ wpc \in [Worker -> WorkerSteps]
      /\ copies \in [Msg -> [Rcpt -> Nat]] /\ doubts \in [Msg -> 0 .. MaxDoubts]
      /\ Msg \subseteq Worker
  BY MsgAssumption DEF RelayInv, RelayShape, TypeOK
<1> USE <1>t DEF Only, Put, At, WGoto, vars, workers
<1>1. CASE Submit(m) \/ NotEnrolled(m) \/ LoginOk(m) \/ SomeAccepted(m) \/ Deliver(m)
  BY <1>1 DEF Submit, NotEnrolled, ExitBounce, LoginOk, SomeAccepted, Deliver
<1>2. CASE Attempt(m) \/ LoginRefused(m) \/ Deauth(m)
  BY <1>2 DEF Attempt, ReadStored, LoginRefused, UseRefused, Deauth, DropHash, DropUpass,
              DropMark, ExitTempfail
<1>3. CASE Transient(m) \/ AllRefused(m) \/ QuitOk(m) \/ QuitLost(m)
  BY <1>3 DEF Transient, AllRefused, QuitOk, QuitLost, UseOver, ExitTempfail, ExitBounce,
              ExitOk
<1> QED BY <1>1, <1>2, <1>3 DEF Relay

(* Where a message and its process are, and where one of its own steps takes them. *)
Whereabouts(m) ==
    /\ queue[m] \in Places /\ stage[m] \in Stages /\ wpc[m] \in WorkerSteps
    /\ Paired(m)

LEMMA Located == ASSUME TypeOK, RelayInv, NEW m \in Msg PROVE Whereabouts(m)
BY MsgAssumption DEF TypeOK, RelayInv, RelayShape, Whereabouts

LEMMA RankBounds ==
    ASSUME NEW m \in Msg, Whereabouts(m)
    PROVE  AttemptLeft(m) \in 0 .. 4 /\ (queue[m] = "active" <=> AttemptLeft(m) > 0)
BY DEF Whereabouts, Paired, AttemptLeft, Stages, WorkerSteps

(* An attempt's own step brings it nearer to its end, and only the end of an attempt
   settles the message. *)
LEMMA OwnStep ==
    ASSUME TypeOK, RelayInv, TypeOK', RelayInv', NEW m \in Msg, Submit(m) \/ Relay(m)
    PROVE  AttemptProgress(m) /\ SettledOnce(m)
<1>t. /\ queue \in [Msg -> Places] /\ stage \in [Msg -> Stages]
      /\ wpc \in [Worker -> WorkerSteps] /\ Msg \subseteq Worker
  BY MsgAssumption DEF RelayInv, RelayShape, TypeOK
<1>p. Whereabouts(m) /\ Whereabouts(m)'
  BY Located, MsgAssumption DEF TypeOK, RelayInv, RelayShape, Whereabouts
<1>b. AttemptLeft(m) \in 0 .. 4 /\ (queue[m] = "active" <=> AttemptLeft(m) > 0)
  BY <1>p, RankBounds
<1>c. AttemptLeft(m)' \in 0 .. 4
  BY DEF AttemptLeft
<1> USE DEF Put, At, WGoto, Whereabouts, Paired
<1>1. CASE Submit(m)
  <2>1. queue[m] = "new" /\ queue'[m] = "queued" /\ UNCHANGED <<stage, wpc, copies>>
    BY <1>1, <1>t DEF Submit, vars, workers
  <2>2. AttemptLeft(m)' = AttemptLeft(m) /\ ~Relay(m)
    BY <2>1, <1>p DEF AttemptLeft, Relay, Attempt, NotEnrolled, LoginOk, LoginRefused, UseRefused, Deauth,
       Transient, AllRefused, SomeAccepted, Deliver, QuitOk, QuitLost
  <2> QED BY <1>b, <2>1, <2>2 DEF AttemptProgress, SettledOnce
<1>2. CASE Attempt(m)
  <2>1. queue[m] = "queued" /\ queue'[m] = "active" /\ UNCHANGED copies
    BY <1>2, <1>t DEF Attempt
  <2> QED BY <1>2, <1>b, <2>1 DEF AttemptProgress, SettledOnce
<1>3. CASE NotEnrolled(m)
  <2>1. /\ queue[m] = "queued" /\ queue'[m] = "bounced" /\ ~Readable
        /\ stage[m] = "none" /\ stage'[m] = "none" /\ UNCHANGED <<wpc, copies>>
    BY <1>3, <1>t, <1>p DEF NotEnrolled, ExitBounce, vars, workers
  <2>2. AttemptLeft(m)' = AttemptLeft(m)
    BY <2>1 DEF AttemptLeft
  <2> QED BY <1>b, <2>1, <2>2 DEF AttemptProgress, SettledOnce
<1>4. CASE LoginOk(m) \/ SomeAccepted(m) \/ Deliver(m)
  <2>1. /\ queue' = queue /\ queue[m] = "active" /\ wpc' = wpc /\ wpc[m] = "use"
        /\ \/ stage[m] = "login" /\ stage'[m] = "envelope"
           \/ stage[m] = "envelope" /\ stage'[m] = "data"
           \/ stage[m] = "data" /\ stage'[m] = "quit"
    BY <1>4, <1>t, <1>p DEF LoginOk, SomeAccepted, Deliver, vars, workers
  <2>2. AttemptLeft(m)' < AttemptLeft(m)
    BY <2>1 DEF AttemptLeft
  <2> QED BY <1>b, <1>c, <2>1, <2>2 DEF AttemptProgress, SettledOnce
<1>5. CASE \/ LoginRefused(m)
           \/ (Deauth(m) /\ ~DropMark(m))
  <2>1. /\ queue' = queue /\ queue[m] = "active" /\ stage'[m] = "none"
        /\ \/ stage[m] = "login" /\ wpc'[m] = "dropHash"
           \/ stage[m] = "none" /\ wpc[m] = "dropHash" /\ wpc'[m] = "dropUpass"
           \/ stage[m] = "none" /\ wpc[m] = "dropUpass" /\ wpc'[m] = "dropMark"
    BY <1>5, <1>t, <1>p DEF LoginRefused, UseRefused, Deauth, DropHash, DropUpass
  <2>2. AttemptLeft(m)' < AttemptLeft(m)
    BY <2>1 DEF AttemptLeft
  <2> QED BY <1>b, <1>c, <2>1, <2>2 DEF AttemptProgress, SettledOnce
<1>6. CASE \/ (Deauth(m) /\ DropMark(m))
           \/ Transient(m) \/ AllRefused(m) \/ QuitOk(m) \/ QuitLost(m)
  <2>1. /\ queue[m] = "active" /\ queue'[m] # "active"
        /\ queue'[m] = "sent" => stage[m] = "quit"
        /\ queue'[m] = "bounced" => stage[m] = "envelope"
    <3>1. CASE Deauth(m) /\ DropMark(m)
      BY <3>1, <1>t, <1>p DEF Deauth, DropHash, DropUpass, DropMark, ExitTempfail
    <3>2. CASE Transient(m) \/ AllRefused(m) \/ QuitOk(m) \/ QuitLost(m)
      BY <3>2, <1>t, <1>p
         DEF Transient, AllRefused, QuitOk, QuitLost, ExitTempfail, ExitBounce, ExitOk
    <3> QED BY <1>6, <3>1, <3>2
  <2>2. AttemptLeft(m)' = 0
    BY <1>p, <2>1 DEF AttemptLeft
  <2> QED BY <1>b, <2>1, <2>2 DEF AttemptProgress, SettledOnce
<1> QED BY <1>1, <1>2, <1>3, <1>4, <1>5, <1>6 DEF Relay

(* What other messages' processes, logins, workers and a restart do to an attempt:
   nothing, or they end it without settling the message. *)
LEMMA OtherStep ==
    ASSUME TypeOK, RelayInv, NEW m \in Msg, ~Relay(m), ~Submit(m), [RelayNext]_sendVars
    PROVE  AttemptProgress(m) /\ SettledOnce(m)
<1>b. AttemptLeft(m) \in 0 .. 4 /\ (queue[m] = "active" <=> AttemptLeft(m) > 0)
  BY Located, RankBounds
<1>1. CASE /\ queue'[m] = queue[m] /\ stage'[m] = stage[m] /\ wpc'[m] = wpc[m]
           /\ copies'[m] = copies[m]
  <2>1. AttemptLeft(m)' = AttemptLeft(m)
    BY <1>1 DEF AttemptLeft
  <2> QED BY <1>1, <1>b, <2>1 DEF AttemptProgress, SettledOnce
<1>2. CASE \E n \in Msg : Submit(n) \/ Relay(n)
  <2>1. PICK n \in Msg : Submit(n) \/ Relay(n)
    BY <1>2
  <2>2. n # m /\ Only(n)
    BY <2>1, OnlyOne
  <2> QED BY <1>1, <2>2 DEF Only
<1>3. CASE Logins \/ Others
  BY <1>1, <1>3, BesideTheQueue
<1>4. CASE MailRestart
  <2>1. /\ stage'[m] = "none" /\ wpc'[m] = "idle" /\ copies' = copies
        /\ queue'[m] = IF queue[m] = "active" THEN "queued" ELSE queue[m]
    BY <1>4, MsgAssumption DEF MailRestart, Restart
  <2>2. AttemptLeft(m)' = 0
    BY <2>1 DEF AttemptLeft
  <2> QED BY <1>b, <2>1, <2>2 DEF AttemptProgress, SettledOnce
<1>5. CASE UNCHANGED sendVars
  BY <1>1, <1>5 DEF sendVars, vars, workers, relayVars
<1> QED BY <1>2, <1>3, <1>4, <1>5 DEF RelayNext

LEMMA AttemptStep ==
    ASSUME TypeOK, RelayInv, [RelayNext]_sendVars, NEW m \in Msg
    PROVE  AttemptProgress(m) /\ SettledOnce(m)
<1>1. TypeOK' /\ RelayInv'
  BY RelayStep, NextType, RelayInvNext
<1> QED BY <1>1, OwnStep, OtherStep

(* No attempt hangs on its own account: relaysend.py takes at most four steps for a
   message, login, recipients, DATA and QUIT or the refusal and deauth(), and each of
   them brings the process nearer to its exit code; other messages, logins, workers
   and restarts add none.  This is the safety half of EveryMessageSettles. *)
THEOREM AttemptsRunOut == RelaySpec => [][\A m \in Msg : AttemptProgress(m)]_sendVars
<1>1. TypeOK /\ RelayInv /\ [RelayNext]_sendVars => [\A m \in Msg : AttemptProgress(m)]_sendVars
  BY AttemptStep
<1> QED BY <1>1, RelayStoreType, RelayInvHolds, PTL DEF RelaySpec

(* A message is settled once: after "sent" or "bounced" no process delivers another
   copy of it and its verdict stays.  It is bounced only by the university, in answer
   to its recipients, or because at that moment no password of the sender can be
   read: never by the attempt whose login was refused, which defers.  (That a later
   attempt then finds the user gone is what refutes OnlyUniversityBounces.) *)
THEOREM SettledForGood == RelaySpec => [][\A m \in Msg : SettledOnce(m)]_sendVars
<1>1. TypeOK /\ RelayInv /\ [RelayNext]_sendVars => [\A m \in Msg : SettledOnce(m)]_sendVars
  BY AttemptStep
<1> QED BY <1>1, RelayStoreType, RelayInvHolds, PTL DEF RelaySpec
=============================================================================
