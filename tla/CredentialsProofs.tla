------------------------- MODULE CredentialsProofs -------------------------
(***************************************************************************)
(* Theorems about Credentials, for every number of logins, workers and     *)
(* passwords and every bound: the types, that only vouched-for passwords   *)
(* are stored or let in, and that the cooldown limits every login.         *)
(***************************************************************************)
EXTENDS Credentials, TLAPS

-----------------------------------------------------------------------------
(* Types. *)

LEMMA InitType == Init => TypeOK
  <1> SUFFICES ASSUME Init PROVE TypeOK
    OBVIOUS
  <1>1. lastUni \in BOOLEAN /\ tmpMark \in BOOLEAN
    BY DEF Init
  <1>2. pc \in [Login -> LoginSteps] /\ wpc \in [Worker -> WorkerSteps]
    BY DEF Init, LoginSteps, WorkerSteps
  <1>3. \A l \in Login : pc[l] # "idle" => pw[l] \in Password
    BY DEF Init
  <1>4. events \in 0 .. MaxEvents
    BY BoundAssumption DEF Init
  <1>5. pw \in [Login -> Stored] /\ held \in [Worker -> Stored]
    BY DEF Init, Stored
  <1>6. uniPw \in Password /\ everValid \in SUBSET Password
    BY PasswordAssumption DEF Init
  <1> QED
    BY <1>1, <1>2, <1>3, <1>4, <1>5, <1>6 DEF Init, TypeOK, Stored, OwnedFiles

LEMMA LoginType == ASSUME TypeOK, NEW l \in Login, LoginStep(l) PROVE TypeOK'
  <1> USE DEF TypeOK, Stored, OwnedFiles, LoginSteps, Goto, Exit, Accept, Refuse,
              Proceed, LoginFrame, files, logins, workers, university
  <1>1. CASE IsEnrolled(l) BY <1>1 DEF IsEnrolled
  <1>2. CASE VerifyLocal(l) BY <1>2 DEF VerifyLocal
  <1>3. CASE CooldownCheck(l) BY <1>3 DEF CooldownCheck
  <1>4. CASE MarkWrite(l) BY <1>4 DEF MarkWrite
  <1>5. CASE MarkReplace(l) BY <1>5 DEF MarkReplace
  <1>6. CASE VerifyNo(l) BY <1>6 DEF VerifyNo
  <1>7. CASE VerifyYes(l) BY <1>7 DEF VerifyYes
  <1>8. CASE HashWrite(l) BY <1>8 DEF HashWrite
  <1>9. CASE HashReplace(l) BY <1>9 DEF HashReplace
  <1>10. CASE UpassWrite(l) BY <1>10 DEF UpassWrite
  <1>11. CASE UpassReplace(l) BY <1>11 DEF UpassReplace
  <1>12. CASE Own(l) BY <1>12 DEF Own
  <1> QED BY <1>1, <1>2, <1>3, <1>4, <1>5, <1>6, <1>7, <1>8, <1>9, <1>10, <1>11, <1>12
          DEF LoginStep

LEMMA WorkerType == ASSUME TypeOK, NEW w \in Worker, WorkerStep(w) PROVE TypeOK'
  <1> USE DEF TypeOK, Stored, OwnedFiles, WorkerSteps, WGoto, WorkerFrame,
              logins, workers, university
  <1>1. CASE ReadStored(w) BY <1>1 DEF ReadStored
  <1>2. CASE UseOver(w) BY <1>2 DEF UseOver
  <1>3. CASE UseRefused(w) BY <1>3 DEF UseRefused
  <1>4. CASE DropHash(w) BY <1>4 DEF DropHash
  <1>5. CASE DropUpass(w) BY <1>5 DEF DropUpass
  <1>6. CASE DropMark(w) BY <1>6 DEF DropMark
  <1> QED BY <1>1, <1>2, <1>3, <1>4, <1>5, <1>6 DEF WorkerStep

LEMMA NextType == TypeOK /\ [Next]_vars => TypeOK'
  <1> SUFFICES ASSUME TypeOK, [Next]_vars PROVE TypeOK'
    OBVIOUS
  <1> USE DEF files, logins, workers, university
  <1>1. ASSUME NEW l \in Login, LoginStep(l) PROVE TypeOK'
    BY <1>1, LoginType
  <1>2. ASSUME NEW l \in Login, NEW p \in Password, Start(l, p) PROVE TypeOK'
    BY <1>2 DEF TypeOK, Start, Goto, LoginFrame, Stored, LoginSteps
  <1>3. ASSUME NEW w \in Worker, WorkerStep(w) PROVE TypeOK'
    BY <1>3, WorkerType
  <1>4. CASE CooldownOver
    BY <1>4 DEF TypeOK, CooldownOver
  <1>5. ASSUME NEW p \in Password, ChangePassword(p) PROVE TypeOK'
    BY <1>5, BoundAssumption DEF TypeOK, ChangePassword
  <1>6. CASE Restart
    BY <1>6, BoundAssumption DEF TypeOK, Restart, Stored, LoginSteps, WorkerSteps
  <1>7. CASE UNCHANGED vars
    BY <1>7 DEF TypeOK, vars
  <1> QED BY <1>1, <1>2, <1>3, <1>4, <1>5, <1>6, <1>7 DEF Next

(* Every file holds a password or nothing and every process stands at one of
   its steps, in every reachable state. *)
THEOREM TypeCorrect == Spec => []TypeOK
  BY InitType, NextType, PTL DEF Spec

-----------------------------------------------------------------------------
(* Vouched for.  VouchedOnly is not inductive: a temporary file is as good as
   the file it will be renamed to, and a login past verify_uni carries its
   password into both.  So: every password in a file or carried by such a login
   is one the university once had. *)

Vouched == everValid \cup {Nothing}

VouchedInv ==
    /\ TypeOK
    /\ uniPw \in everValid
    /\ passhash \in Vouched /\ upass \in Vouched
    /\ tmpHash \in Vouched /\ tmpUpass \in Vouched
    /\ \A l \in Login : pc[l] \in EnrollSteps => pw[l] \in everValid

LEMMA VouchedInit == Init => VouchedInv
  BY InitType DEF Init, VouchedInv, Vouched, EnrollSteps

LEMMA VouchedLogin ==
  ASSUME VouchedInv, TypeOK', NEW l \in Login, LoginStep(l) PROVE VouchedInv'
  <1> USE DEF VouchedInv, Vouched, EnrollSteps, TypeOK, LoginSteps, Goto, Exit,
              Accept, Refuse, Proceed, LoginFrame, files, workers, university
  <1>1. CASE IsEnrolled(l) BY <1>1 DEF IsEnrolled
  <1>2. CASE VerifyLocal(l) BY <1>2 DEF VerifyLocal
  <1>3. CASE CooldownCheck(l) BY <1>3 DEF CooldownCheck
  <1>4. CASE MarkWrite(l) BY <1>4 DEF MarkWrite
  <1>5. CASE MarkReplace(l) BY <1>5 DEF MarkReplace
  <1>6. CASE VerifyNo(l) BY <1>6 DEF VerifyNo
  <1>7. CASE VerifyYes(l) BY <1>7 DEF VerifyYes
  <1>8. CASE HashWrite(l) BY <1>8 DEF HashWrite
  <1>9. CASE HashReplace(l) BY <1>9 DEF HashReplace
  <1>10. CASE UpassWrite(l) BY <1>10 DEF UpassWrite
  <1>11. CASE UpassReplace(l) BY <1>11 DEF UpassReplace
  <1>12. CASE Own(l) BY <1>12 DEF Own
  <1> QED BY <1>1, <1>2, <1>3, <1>4, <1>5, <1>6, <1>7, <1>8, <1>9, <1>10, <1>11, <1>12
          DEF LoginStep

LEMMA VouchedWorker ==
  ASSUME VouchedInv, TypeOK', NEW w \in Worker, WorkerStep(w) PROVE VouchedInv'
  <1>1. /\ passhash' \in {passhash, Nothing} /\ upass' \in {upass, Nothing}
        /\ UNCHANGED <<tmpHash, tmpUpass, pc, pw, uniPw, everValid>>
    BY DEF WorkerStep, ReadStored, UseOver, UseRefused, DropHash, DropUpass, DropMark,
           WorkerFrame, logins, university
  <1> QED BY <1>1 DEF VouchedInv, Vouched

LEMMA VouchedNext == VouchedInv /\ [Next]_vars => VouchedInv'
  <1> SUFFICES ASSUME VouchedInv, [Next]_vars PROVE VouchedInv'
    OBVIOUS
  <1>0. TypeOK'
    BY NextType DEF VouchedInv
  <1> USE <1>0 DEF VouchedInv, Vouched
  <1>1. ASSUME NEW l \in Login, LoginStep(l) PROVE VouchedInv'
    BY <1>1, VouchedLogin
  <1>2. ASSUME NEW l \in Login, NEW p \in Password, Start(l, p) PROVE VouchedInv'
    BY <1>2 DEF Start, Goto, LoginFrame, files, workers, university, EnrollSteps, TypeOK
  <1>3. ASSUME NEW w \in Worker, WorkerStep(w) PROVE VouchedInv'
    BY <1>3, VouchedWorker
  <1>4. CASE CooldownOver
    BY <1>4 DEF CooldownOver, logins, workers, university
  <1>5. ASSUME NEW p \in Password, ChangePassword(p) PROVE VouchedInv'
    BY <1>5 DEF ChangePassword, files, logins, workers
  <1>6. CASE Restart
    BY <1>6 DEF Restart, files, EnrollSteps, TypeOK
  <1>7. CASE UNCHANGED vars
    BY <1>7 DEF vars, files, logins, workers, university
  <1> QED BY <1>1, <1>2, <1>3, <1>4, <1>5, <1>6, <1>7 DEF Next

LEMMA VouchedImplies == VouchedInv => VouchedOnly
  BY PasswordAssumption DEF VouchedInv, VouchedOnly, Vouched, Passes, EnrollSteps, TypeOK

(* No interleaving of logins, deauth, restarts and password changes stores a
   password, or lets one in, that the university never accepted. *)
THEOREM OnlyVouched == Spec => []VouchedOnly
  BY VouchedInit, VouchedNext, VouchedImplies, PTL DEF Spec

-----------------------------------------------------------------------------
(* The cooldown.  A login that has read an expired marker may still be on its
   way to the university when another one opens the next window: what saves the
   count is that opening a window forgets who asked in the last one. *)

WindowInv ==
    /\ TypeOK
    /\ \A l \in Login :
        /\ pc[l] \in {"markWrite", "markReplace"} => ~lastUni \/ l \notin checked
        /\ pc[l] = "verify" => l \notin checked

LEMMA WindowInit == Init => WindowInv
  BY InitType DEF Init, WindowInv

LEMMA WindowLogin ==
  ASSUME WindowInv, TypeOK', NEW l \in Login, LoginStep(l) PROVE WindowInv'
  <1> USE DEF WindowInv, TypeOK, LoginSteps, Goto, Exit,
              Accept, Refuse, Proceed, LoginFrame, files, workers, university
  <1>1. CASE IsEnrolled(l) BY <1>1 DEF IsEnrolled
  <1>2. CASE VerifyLocal(l) BY <1>2 DEF VerifyLocal
  <1>3. CASE CooldownCheck(l) BY <1>3 DEF CooldownCheck
  <1>4. CASE MarkWrite(l) BY <1>4 DEF MarkWrite
  <1>5. CASE MarkReplace(l) BY <1>5 DEF MarkReplace
  <1>6. CASE VerifyNo(l) BY <1>6 DEF VerifyNo
  <1>7. CASE VerifyYes(l) BY <1>7 DEF VerifyYes
  <1>8. CASE HashWrite(l) BY <1>8 DEF HashWrite
  <1>9. CASE HashReplace(l) BY <1>9 DEF HashReplace
  <1>10. CASE UpassWrite(l) BY <1>10 DEF UpassWrite
  <1>11. CASE UpassReplace(l) BY <1>11 DEF UpassReplace
  <1>12. CASE Own(l) BY <1>12 DEF Own
  <1> QED BY <1>1, <1>2, <1>3, <1>4, <1>5, <1>6, <1>7, <1>8, <1>9, <1>10, <1>11, <1>12
          DEF LoginStep

LEMMA WindowNext == WindowInv /\ [Next]_vars => WindowInv'
  <1> SUFFICES ASSUME WindowInv, [Next]_vars PROVE WindowInv'
    OBVIOUS
  <1>0. TypeOK'
    BY NextType DEF WindowInv
  <1> USE <1>0 DEF WindowInv
  <1>1. ASSUME NEW l \in Login, LoginStep(l) PROVE WindowInv'
    BY <1>1, WindowLogin
  <1>2. ASSUME NEW l \in Login, NEW p \in Password, Start(l, p) PROVE WindowInv'
    BY <1>2 DEF Start, Goto, LoginFrame, files, TypeOK
  <1>3. ASSUME NEW w \in Worker, WorkerStep(w) PROVE WindowInv'
    <2>1. UNCHANGED <<pc, checked>> /\ (lastUni' => lastUni)
      BY <1>3 DEF WorkerStep, ReadStored, UseOver, UseRefused, DropHash, DropUpass,
                  DropMark, WorkerFrame, logins
    <2> QED BY <2>1
  <1>4. CASE CooldownOver
    BY <1>4 DEF CooldownOver, logins
  <1>5. ASSUME NEW p \in Password, ChangePassword(p) PROVE WindowInv'
    BY <1>5 DEF ChangePassword, files, logins
  <1>6. CASE Restart
    BY <1>6 DEF Restart, TypeOK
  <1>7. CASE UNCHANGED vars
    BY <1>7 DEF vars, files, logins
  <1> QED BY <1>1, <1>2, <1>3, <1>4, <1>5, <1>6, <1>7 DEF Next

(* The marker is read and written in separate steps by any number of logins,
   and removed by deauth; still no login asks the university twice in a window. *)
THEOREM CooldownHolds == Spec => OncePerWindow
  <1>1. WindowInv /\ [Next]_vars => [\A l \in Login : Asks(l) => l \notin checked]_vars
    BY DEF WindowInv, Asks, VerifyYes, VerifyNo
  <1> QED BY <1>1, WindowInit, WindowNext, PTL DEF Spec, OncePerWindow
-----------------------------------------------------------------------------
(* The vault. *)

LEMMA VaultInit == Init => Promised!Init
  <1> SUFFICES ASSUME Init PROVE Promised!Init
    OBVIOUS
  <1>1. {m \in Login : pc[m] \in EnrollSteps} = {}
    BY DEF Init, EnrollSteps
  <1>2. Kept = {}
    BY <1>1 DEF Init, Kept
  <1>3. uniPw \in Password
    BY PasswordAssumption DEF Init
  <1> QED BY <1>2, <1>3 DEF Promised!Init

(* Every step of a login but the university's yes only moves passwords that are
   kept already, from the process into a file or from one file to another. *)
LEMMA VaultLogin ==
  ASSUME TypeOK, NEW l \in Login, LoginStep(l) PROVE Promised!Vouch \/ Promised!Drop
  <1> USE DEF TypeOK, LoginSteps, Goto, Exit, Accept, Refuse, Proceed, LoginFrame,
              files, workers, university, Kept, EnrollSteps
  <1>0. SUFFICES (~VerifyYes(l) => Kept' \subseteq Kept /\ uniPw' = uniPw)
                 /\ (VerifyYes(l) => Kept' = Kept \cup {uniPw} /\ uniPw' = uniPw)
    BY <1>0 DEF Promised!Vouch, Promised!Drop
  <1>1. CASE IsEnrolled(l) BY <1>1 DEF IsEnrolled, VerifyYes
  <1>2. CASE VerifyLocal(l) BY <1>2 DEF VerifyLocal, VerifyYes
  <1>3. CASE CooldownCheck(l) BY <1>3 DEF CooldownCheck, VerifyYes
  <1>4. CASE MarkWrite(l) BY <1>4 DEF MarkWrite, VerifyYes
  <1>5. CASE MarkReplace(l) BY <1>5 DEF MarkReplace, VerifyYes
  <1>6. CASE VerifyNo(l) /\ ~VerifyYes(l) BY <1>6 DEF VerifyNo
  <1>7. CASE VerifyYes(l)
    <2>1. /\ pc' = [pc EXCEPT ![l] = "hashWrite"] /\ pw[l] = uniPw
          /\ UNCHANGED <<passhash, upass, tmpHash, tmpUpass, pw, uniPw>>
      BY <1>7 DEF VerifyYes
    <2>2. uniPw # Nothing
      BY PasswordAssumption
    <2>3. {pw'[k] : k \in {m \in Login : pc'[m] \in EnrollSteps}}
            = {pw[k] : k \in {m \in Login : pc[m] \in EnrollSteps}} \cup {uniPw}
      BY <1>7, <2>1 DEF VerifyYes
    <2> QED BY <1>7, <2>1, <2>2, <2>3
  <1>8. CASE HashWrite(l) BY <1>8 DEF HashWrite, VerifyYes
  <1>9. CASE HashReplace(l) BY <1>9 DEF HashReplace, VerifyYes
  <1>10. CASE UpassWrite(l) BY <1>10 DEF UpassWrite, VerifyYes
  <1>11. CASE UpassReplace(l) BY <1>11 DEF UpassReplace, VerifyYes
  <1>12. CASE Own(l) BY <1>12 DEF Own, VerifyYes
  <1> QED BY <1>1, <1>2, <1>3, <1>4, <1>5, <1>6, <1>7, <1>8, <1>9, <1>10, <1>11, <1>12
          DEF LoginStep

LEMMA VaultNext == TypeOK /\ [Next]_vars => [Promised!Next]_<<Kept, uniPw>>
  <1> SUFFICES ASSUME TypeOK, [Next]_vars
               PROVE Promised!Next \/ UNCHANGED <<Kept, uniPw>>
    OBVIOUS
  <1> USE DEF Promised!Next
  <1>1. ASSUME NEW l \in Login, LoginStep(l) PROVE Promised!Next
    BY <1>1, VaultLogin
  <1>2. ASSUME NEW l \in Login, NEW p \in Password, Start(l, p) PROVE UNCHANGED <<Kept, uniPw>>
    <2>1. {m \in Login : pc'[m] \in EnrollSteps} = {m \in Login : pc[m] \in EnrollSteps}
      BY <1>2 DEF Start, Goto, TypeOK, EnrollSteps
    <2>2. \A m \in Login : pc[m] \in EnrollSteps => pw'[m] = pw[m]
      BY <1>2 DEF Start, Goto, TypeOK, EnrollSteps
    <2> QED BY <1>2, <2>1, <2>2 DEF Start, LoginFrame, files, university, Kept
  <1>3. ASSUME NEW w \in Worker, WorkerStep(w) PROVE Promised!Next
    <2>1. /\ passhash' \in {passhash, Nothing} /\ upass' \in {upass, Nothing}
          /\ UNCHANGED <<tmpHash, tmpUpass, pc, pw, uniPw>>
      BY <1>3 DEF WorkerStep, ReadStored, UseOver, UseRefused, DropHash, DropUpass,
                  DropMark, WorkerFrame, logins, university
    <2>2. Promised!Drop
      BY <2>1 DEF Kept, Promised!Drop
    <2> QED BY <2>2
  <1>4. CASE CooldownOver
    BY <1>4 DEF CooldownOver, logins, university, Kept
  <1>5. ASSUME NEW p \in Password, ChangePassword(p) PROVE Promised!Next
    BY <1>5 DEF ChangePassword, files, logins, Kept, Promised!Change
  <1>6. CASE Restart
    <2>1. Promised!Drop
      BY <1>6 DEF Restart, files, Kept, EnrollSteps, Promised!Drop
    <2> QED BY <2>1
  <1>7. CASE UNCHANGED vars
    BY <1>7 DEF vars, files, logins, university, Kept
  <1> QED BY <1>1, <1>2, <1>3, <1>4, <1>5, <1>6, <1>7 DEF Next

(* The six files and the processes that share them implement one set of passwords
   that a password enters in one step, while it is the university's own. *)
THEOREM ImplementsVault == Spec => VaultRespected
  BY InitType, NextType, VaultInit, VaultNext, PTL DEF Spec, VaultRespected, Promised!Spec
=============================================================================
