--------------------------- MODULE MailBootProofs ---------------------------
(***************************************************************************)
(* The key and the store survive any number of kills, at any step of the   *)
(* boot, in every KEY_MODE; and a boot goes through, or has a reason not   *)
(* to.                                                                     *)
(***************************************************************************)
EXTENDS MailBoot, TLAPS

Before == {"off", "resolve", "seal", "sealWrite", "truncate", "write", "publish"}

(* TypeOK without the flags. *)
BootShape ==
    /\ mode \in KeyModes /\ secret \in Secret \cup {Nothing}
    /\ pc \in Steps /\ key \in Keys \cup {Nothing, Empty}
    /\ sealed \in Generated \cup {Nothing, Empty} /\ stored \in Generated \cup {Nothing, Empty}
    /\ live \in Keys \cup {Nothing, Empty}
    /\ key = Nothing <=> pc \in {"off", "resolve"}
    /\ live = Nothing <=> pc \in Before
    /\ conf \in Keys \cup {Nothing}
    /\ pc \in {"seal", "sealWrite", "truncate", "write"} => key \in Generated
    /\ troubles \in 0 .. MaxTroubles /\ kills \in 0 .. MaxKills

(* As long as only kills happen: a key that is being made is stored nowhere, and no
   store can exist; from publish on the key of this boot is the next boot's too; and
   the store is never about to be discarded. *)
Steadfast ==
    /\ conf # Nothing => conf = NextKey
    /\ pc = "seal" => Sealing /\ sealed = Nothing
    /\ pc = "sealWrite" => Sealing /\ sealed = Empty
    /\ pc = "truncate" => Storing /\ stored = Nothing
    /\ pc = "write" => Storing /\ stored = Empty
    /\ pc = "publish" => key = NextKey
    /\ pc \in {"open", "mount", "running"} => live = NextKey /\ live = key
    /\ pc \in {"mount", "running"} => conf # Nothing
    /\ pc \notin {"discard", "reinit", "remount"}

BootInv == BootShape /\ (troubles = 0 => Steadfast)

LEMMA BootInvInit == Init => BootInv
<1> SUFFICES ASSUME Init PROVE BootInv
  OBVIOUS
<1>1. BootShape
  BY BoundAssumption, KeyAssumption DEF Init, BootShape, Before, Steps
<1>2. Steadfast
  BY DEF Init, Steadfast
<1> QED BY <1>1, <1>2 DEF BootInv

LEMMA BootInvNext == BootInv /\ [Next]_vars => BootInv'
<1> SUFFICES ASSUME BootInv, [Next]_vars PROVE BootInv'
  OBVIOUS
<1> USE DEF BootInv
<1>1. BootShape'
  <2> USE DEF BootShape, Before, Steps, Go, Quit, Trouble, Failure, NoTrouble, machine, volumes, Keys
  <2>1. CASE Start \/ Refuse
    BY <2>1 DEF Start, Refuse
  <2>2. CASE Unseal \/ UnsealFails \/ UseSecret \/ UseStored
    BY <2>2, BoundAssumption, KeyAssumption DEF Unseal, UnsealFails, UseSecret, UseStored, Take, Supplied
  <2>3. CASE Generate
    BY <2>3, KeyAssumption DEF Generate, Draw
  <2>4. CASE Seal \/ SealWrite \/ SealFails
    BY <2>4, KeyAssumption DEF Seal, SealWrite, SealFails
  <2>5. CASE Truncate \/ Write \/ Publish
    BY <2>5, KeyAssumption DEF Truncate, Write, Publish
  <2>6. CASE HasStore \/ Mount \/ MountRefused \/ Serve \/ Discard
    BY <2>6 DEF HasStore, Mount, MountRefused, Serve, Discard
  <2>7. CASE NewStore \/ Reinit
    BY <2>7 DEF NewStore, Reinit, InitStore, InitFails, Initialisable
  <2>8. CASE MountFails
    BY <2>8, BoundAssumption DEF MountFails
  <2>9. CASE Kill \/ ChangeSecret \/ ChangeTpm \/ ClearTpm
    BY <2>9, BoundAssumption DEF Kill, ChangeSecret, ChangeTpm, ClearTpm
  <2>10. CASE UNCHANGED vars
    BY <2>10 DEF vars
  <2> QED BY <2>1, <2>2, <2>3, <2>4, <2>5, <2>6, <2>7, <2>8, <2>9, <2>10 DEF Next, Boot
<1>2. ASSUME troubles' = 0 PROVE Steadfast'
  <2>1. troubles = 0 /\ Steadfast
    <3>1. troubles' = troubles \/ (troubles \in Nat /\ troubles' = troubles + 1)
      BY BoundAssumption
         DEF Next, Boot, vars, Start, Refuse, Unseal, UnsealFails, UseSecret, UseStored, Generate,
             Draw, Take, Seal, SealWrite, SealFails, Truncate, Write, Publish, HasStore, NewStore, InitStore,
             InitFails, Mount, MountRefused, MountFails, Discard, Reinit, Serve, Kill, ChangeSecret,
             ChangeTpm, ClearTpm, Trouble, Failure, NoTrouble, BootShape
    <3> QED BY <1>2, <3>1
  <2>2. ~UnsealFails /\ ~MountFails /\ ~ChangeSecret /\ ~ChangeTpm /\ ~ClearTpm
    BY <1>2, <2>1, BoundAssumption
       DEF UnsealFails, MountFails, ChangeSecret, ChangeTpm, ClearTpm, Trouble, Failure
  <2>3. UNCHANGED machine
    BY <2>2 DEF Next, Boot, vars, Start, Refuse, Unseal, UseSecret, UseStored, Generate, Draw, Take,
                Seal, SealWrite, SealFails, Truncate, Write, Publish, HasStore, NewStore, InitStore, InitFails,
                Mount, MountRefused, Discard, Reinit, Serve, Kill, Go, Quit
  <2>4. /\ Chosen' = Chosen /\ (Sealing' <=> Sealing) /\ (Supplied' <=> Supplied)
        /\ (Storing' <=> Storing)
    BY <2>3 DEF machine, Chosen, Sealing, Supplied, Storing
  <2> USE <2>1 DEF Steadfast, Go, Quit
  <2>5. ASSUME UNCHANGED volumes PROVE NextKey' = NextKey
    BY <2>3, <2>4, <2>5 DEF NextKey, machine, volumes
  <2>6. CASE Start \/ Refuse
    BY <2>4, <2>5, <2>6 DEF Start, Refuse, volumes
  <2>7. CASE Unseal \/ UseSecret \/ UseStored
    <3>1. key' = NextKey
      BY <2>7 DEF Unseal, UseSecret, UseStored, Take, NextKey, Sealing, Supplied, Storing
    <3> QED BY <2>5, <2>7, <3>1 DEF Unseal, UseSecret, UseStored, Take, volumes
  <2>8. CASE Generate
    BY <2>4, <2>5, <2>8 DEF Generate, Draw, volumes
  <2>9. CASE Seal \/ SealWrite
    <3>1. Sealing /\ ~Supplied /\ ~Storing /\ sealed \in {Nothing, Empty}
      BY <2>9 DEF Seal, SealWrite, Sealing, Supplied, Storing
    <3>2. conf = Nothing
      BY <3>1, KeyAssumption DEF NextKey, BootShape, Keys
    <3>3. NextKey' = sealed'
      BY <2>4, <3>1 DEF NextKey
    <3> QED BY <2>4, <2>9, <3>1, <3>2, <3>3 DEF Seal, SealWrite
  <2>10. CASE SealFails
    BY <2>5, <2>10 DEF SealFails, volumes
  <2>11. CASE Truncate \/ Write
    <3>1. Storing /\ ~Sealing /\ ~Supplied /\ stored \in {Nothing, Empty}
      BY <2>11 DEF Truncate, Write, Storing, Sealing, Supplied
    <3>2. conf = Nothing
      BY <2>11, <3>1, KeyAssumption DEF NextKey, BootShape, Keys
    <3>3. NextKey' = stored'
      BY <2>4, <3>1 DEF NextKey
    <3> QED BY <2>4, <2>11, <3>1, <3>2, <3>3 DEF Truncate, Write
  <2>12. CASE Publish
    BY <2>5, <2>12 DEF Publish, volumes
  <2>13. CASE HasStore \/ Mount
    BY <2>5, <2>13 DEF HasStore, Mount, volumes
  <2>14. CASE NewStore
    <3>1. CASE InitFails("open")
      BY <2>5, <3>1 DEF InitFails, volumes
    <3>2. CASE InitStore("open", "mount")
      <4>1. NextKey' = NextKey
        BY <2>3, <2>4, <3>2 DEF InitStore, NextKey, machine
      <4>2. conf' = live /\ live # Nothing
        BY <3>2 DEF InitStore, BootShape, Before
      <4> QED BY <3>2, <4>1, <4>2 DEF InitStore
    <3> QED BY <2>14, <3>1, <3>2 DEF NewStore
  <2>15. ~MountRefused /\ ~Discard /\ ~Reinit
    BY DEF MountRefused, Discard, Reinit, InitStore, InitFails
  <2>16. CASE Serve \/ Kill
    <3>1. NextKey' = NextKey
      BY <2>3, <2>4, <2>16 DEF Serve, Kill, NextKey, machine, volumes
    <3> QED BY <2>16, <3>1 DEF Serve, Kill, volumes
  <2>17. CASE UNCHANGED vars
    BY <2>4, <2>5, <2>17 DEF vars, volumes
  <2> QED BY <2>2, <2>6, <2>7, <2>8, <2>9, <2>10, <2>11, <2>12, <2>13, <2>14, <2>15, <2>16, <2>17
          DEF Next, Boot
<1> QED BY <1>1, <1>2

LEMMA BootInvHolds == Spec => []BootInv
BY BootInvInit, BootInvNext, PTL DEF Spec

(* The two flags stay flags. *)
BootFlags == tpm \in BOOLEAN /\ data \in BOOLEAN

LEMMA BootFlagsHold == Spec => []BootFlags
<1>1. Init => BootFlags
  BY Zenon DEF Init, BootFlags
<1>2. ASSUME BootFlags, [Next]_vars PROVE BootFlags'
  <2>1. tpm' = tpm \/ tpm' = ~tpm
    BY <1>2 DEF Next, Boot, vars, Start, Refuse, Unseal, UnsealFails, UseSecret, UseStored,
                Generate, Draw, Take, Seal, SealWrite, SealFails, Truncate, Write, Publish, HasStore,
                NewStore, InitStore, InitFails, Mount, MountRefused, MountFails, Discard, Reinit,
                Serve, Kill, ChangeSecret, ChangeTpm, ClearTpm, Go, Quit, machine
  <2>2. data' = data \/ data' = TRUE \/ data' = FALSE
    BY <1>2 DEF Next, Boot, vars, Start, Refuse, Unseal, UnsealFails, UseSecret, UseStored,
                Generate, Draw, Take, Seal, SealWrite, SealFails, Truncate, Write, Publish, HasStore,
                NewStore, InitStore, InitFails, Mount, MountRefused, MountFails, Discard, Reinit,
                Serve, Kill, ChangeSecret, ChangeTpm, ClearTpm, volumes
  <2> QED BY <1>2, <2>1, <2>2, Zenon DEF BootFlags
<1> QED BY <1>1, <1>2, PTL DEF Spec

(* The shell's variables and the files keep to what resolve_key and the entrypoint
   put there: a boot has a key from resolve on, in /run/mail from publish on. *)
THEOREM BootTyped == Spec => []TypeOK
<1>1. BootInv /\ BootFlags => TypeOK
  BY DEF BootInv, BootShape, Before, BootFlags, TypeOK
<1> QED BY <1>1, BootInvHolds, BootFlagsHold, PTL

(* The next boot finds the key the store was made with, whenever this one is
   killed: resolve_key stores or seals a key before anything is encrypted with it. *)
THEOREM KeyAlwaysSurvives == Spec => []KeySurvives
<1>1. BootInv => KeySurvives
  BY DEF BootInv, Steadfast, KeySurvives
<1> QED BY <1>1, BootInvHolds, PTL

(* Only after the operator, the TPM or FUSE has interfered is a store discarded. *)
THEOREM KillsHarmless == Spec => KillsLoseNothing
<1>1. ASSUME BootInv, [Next]_vars PROVE [data /\ ~data' => troubles > 0]_vars
  <2>1. ASSUME data, ~data', Next PROVE troubles > 0
    <3>1. Discard
      BY <2>1 DEF Next, Boot, Start, Refuse, Unseal, UnsealFails, UseSecret, UseStored, Generate,
                  Draw, Take, Seal, SealWrite, SealFails, Truncate, Write, Publish, HasStore, NewStore,
                  InitStore, InitFails, Mount, MountRefused, MountFails, Reinit, Serve, Kill,
                  ChangeSecret, ChangeTpm, ClearTpm, volumes
    <3>2. troubles # 0
      BY <1>1, <3>1 DEF BootInv, Steadfast, Discard
    <3> QED BY <1>1, <3>2, BoundAssumption DEF BootInv, BootShape
  <2> QED BY <1>1, <2>1
<1> QED BY <1>1, BootInvHolds, PTL DEF Spec, KillsLoseNothing
-----------------------------------------------------------------------------
(* A boot goes through, or says why not. *)

(* How many steps a boot has left at most, wherever it is; the removal of the old
   store has two things to remove. *)
ToRemove == (IF conf # Nothing THEN 1 ELSE 0) + (IF data THEN 1 ELSE 0)
StepsLeft ==
    CASE pc = "resolve" -> 11
      [] pc \in {"seal", "truncate"} -> 10
      [] pc \in {"sealWrite", "write"} -> 9
      [] pc = "publish" -> 8
      [] pc = "open" -> 7
      [] pc = "mount" -> 6
      [] pc = "discard" -> 3 + ToRemove
      [] pc = "reinit" -> 2
      [] pc = "remount" -> 1
      [] OTHER -> 0

Booting == pc \notin {"off", "running"}

LEMMA BootStep == BootInv /\ Booting /\ [Next]_vars => [StepsLeft' < StepsLeft]_vars
<1> SUFFICES ASSUME BootInv, Booting, Next PROVE StepsLeft' < StepsLeft
  OBVIOUS
<1> USE DEF Booting, StepsLeft, Go, Quit
<1>1. CASE Refuse
  BY <1>1 DEF Refuse
<1>2. CASE Unseal \/ UnsealFails \/ UseSecret \/ UseStored
  BY <1>2 DEF Unseal, UnsealFails, UseSecret, UseStored, Take
<1>3. CASE Generate
  BY <1>3 DEF Generate, Draw
<1>4. CASE Seal \/ SealWrite \/ SealFails
  BY <1>4 DEF Seal, SealWrite, SealFails
<1>5. CASE Truncate \/ Write \/ Publish
  BY <1>5 DEF Truncate, Write, Publish
<1>6. CASE HasStore \/ Mount
  BY <1>6 DEF HasStore, Mount
<1>7. CASE NewStore \/ Reinit
  BY <1>7 DEF NewStore, Reinit, InitStore, InitFails
<1>8. ASSUME pc = "mount", pc' = "discard", UNCHANGED volumes PROVE StepsLeft' < StepsLeft
  BY <1>8 DEF ToRemove
<1>9. CASE MountRefused
  BY <1>8, <1>9 DEF MountRefused
<1>10. CASE MountFails
  <2>1. CASE Quit("remount")
    BY <2>1
  <2> QED BY <1>8, <1>10, <2>1 DEF MountFails
<1>11. CASE Discard
  BY <1>11 DEF Discard, ToRemove
<1>12. CASE Kill
  <2>1. pc' = "off" /\ pc \in Steps
    BY <1>12 DEF Kill, BootInv, BootShape
  <2> QED BY <2>1 DEF ToRemove, Steps
<1> QED BY <1>1, <1>2, <1>3, <1>4, <1>5, <1>6, <1>7, <1>9, <1>10, <1>11, <1>12
        DEF Next, Boot, Start, Serve, ChangeSecret, ChangeTpm, ClearTpm

(* Where an empty key comes from, and what the second attempt finds. *)
EmptyTold ==
    /\ pc \notin Before => live = key
    /\ key = Empty => Sealing \/ KeyCut
    /\ pc = "reinit" => conf = Nothing /\ ~data

LEMMA EmptyNext == BootInv /\ EmptyTold /\ [Next]_vars => EmptyTold'
<1> SUFFICES ASSUME BootInv, EmptyTold, [Next]_vars PROVE EmptyTold'
  OBVIOUS
<1>1. BootShape
  BY DEF BootInv
<1>2. ASSUME UNCHANGED machine
      PROVE  Chosen' = Chosen /\ (Sealing' <=> Sealing) /\ (Storing' <=> Storing)
  BY <1>2 DEF machine, Chosen, Sealing, Storing
<1> USE DEF EmptyTold, Before, Go, Quit, KeyCut
<1>3. CASE Start \/ Refuse \/ SealFails
  <2>1. pc' \in Before /\ (key' = key \/ key' = Nothing) /\ pc' # "reinit"
    BY <1>3 DEF Start, Refuse, SealFails
  <2>2. UNCHANGED <<stored, machine>>
    BY <1>3 DEF Start, Refuse, SealFails, volumes
  <2> QED BY <1>2, <2>1, <2>2, KeyAssumption
<1>4. CASE Unseal \/ UnsealFails
  BY <1>2, <1>4 DEF Unseal, UnsealFails, Take
<1>5. CASE UseSecret
  <2>1. key' # Empty /\ pc' = "publish"
    BY <1>1, <1>5, KeyAssumption DEF UseSecret, Supplied, Take, BootShape
  <2> QED BY <2>1
<1>6. CASE UseStored
  BY <1>2, <1>6 DEF UseStored, Take, volumes
<1>7. CASE Generate
  <2>1. key' # Empty /\ pc' \in {"seal", "truncate"}
    BY <1>7, KeyAssumption DEF Generate, Draw
  <2> QED BY <2>1
<1>8. CASE Seal \/ SealWrite \/ Truncate \/ Write
  <2>1. key' # Empty /\ pc' \in Before
    BY <1>1, <1>8, KeyAssumption DEF Seal, SealWrite, Truncate, Write, BootShape
  <2> QED BY <2>1
<1>9. CASE Publish \/ HasStore \/ Mount \/ MountRefused
  BY <1>2, <1>9 DEF Publish, HasStore, Mount, MountRefused, volumes
<1>10. CASE NewStore \/ Reinit
  BY <1>2, <1>10, KeyAssumption DEF NewStore, Reinit, InitStore, InitFails, volumes
<1>11. CASE MountFails
  BY <1>2, <1>11, KeyAssumption DEF MountFails, volumes
<1>12. CASE Discard
  BY <1>2, <1>12 DEF Discard
<1>13. CASE Serve
  BY <1>2, <1>13 DEF Serve
<1>14. CASE Kill \/ ChangeSecret \/ ChangeTpm \/ ClearTpm
  BY <1>1, <1>14, KeyAssumption DEF Kill, ChangeSecret, ChangeTpm, ClearTpm, BootShape
<1>15. CASE UNCHANGED vars
  BY <1>2, <1>15 DEF vars, volumes
<1> QED BY <1>3, <1>4, <1>5, <1>6, <1>7, <1>8, <1>9, <1>10, <1>11, <1>12, <1>13, <1>14, <1>15
        DEF Next, Boot

(* A boot that is given up has a reason: a kill, a TPM that does not seal, a second
   mount that fails, a TPM that did not unseal (SealLost, or one failure), what
   KEY_MODE asks for missing, or one of the two other cuts a kill leaves behind. *)
Excused ==
    \/ kills' # kills
    \/ pc \in {"seal", "remount"}
    \/ Sealing /\ live = Empty
    \/ Unsupplied \/ KeyCut \/ DiscardCut

LEMMA GivenUpStep ==
    ASSUME BootInv, EmptyTold, [Next]_vars, Booting, pc' = "off"
    PROVE  Excused
<1> USE DEF Go, Quit, Booting, Excused
<1>1. BootShape
  BY DEF BootInv
<1>2. ASSUME NEW from \in {"open", "reinit"}, InitFails(from), conf = Nothing PROVE Excused
  <2>1. live = Empty \/ data
    BY <1>2 DEF InitFails, Initialisable
  <2>2. CASE data
    BY <1>2, <2>2 DEF DiscardCut
  <2>3. CASE live = Empty
    BY <1>2, <2>3 DEF EmptyTold, InitFails, Before
  <2> QED BY <2>1, <2>2, <2>3
<1>3. CASE Refuse
  BY <1>3 DEF Refuse
<1>4. CASE SealFails
  <2>1. pc = "seal"
    BY <1>4 DEF SealFails
  <2> QED BY <2>1
<1>5. CASE NewStore
  BY <1>2, <1>5 DEF NewStore, InitStore
<1>6. CASE Reinit
  BY <1>2, <1>6 DEF Reinit, InitStore, InitFails, EmptyTold
<1>7. CASE MountFails
  <2>1. pc = "remount"
    BY <1>7 DEF MountFails
  <2> QED BY <2>1
<1>8. CASE Kill
  BY <1>1, <1>8, BoundAssumption DEF Kill, BootShape
<1>9. ASSUME ~Refuse, ~SealFails, ~NewStore, ~Reinit, ~MountFails, ~Kill PROVE FALSE
  BY <1>9 DEF Next, Boot, vars, Start, Unseal, UnsealFails, UseSecret, UseStored, Take, Generate,
              Draw, Seal, SealWrite, Truncate, Write, Publish, HasStore, Mount, MountRefused,
              Discard, Serve, ChangeSecret, ChangeTpm, ClearTpm
<1> QED BY <1>3, <1>4, <1>5, <1>6, <1>7, <1>8, <1>9

(* "So the stack always starts", as far as safety goes: a boot takes at most 11
   steps, and if it does not end with the store mounted, for one of the reasons of
   Excused.  (That it takes them is fairness: StartsUnlessCut.) *)
THEOREM BootGoesThrough ==
    Spec => /\ [][Booting => StepsLeft' < StepsLeft]_vars
            /\ [][Booting /\ pc' = "off" => Excused]_vars
<1>1. Init => EmptyTold
  BY KeyAssumption DEF Init, EmptyTold, Before
<1>2. BootInv /\ EmptyTold /\ [Next]_vars => [Booting /\ pc' = "off" => Excused]_vars
  BY GivenUpStep
<1>3. BootInv /\ [Next]_vars => [Booting => StepsLeft' < StepsLeft]_vars
  BY BootStep
<1> QED BY <1>1, <1>2, <1>3, EmptyNext, BootInvHolds, PTL DEF Spec
=============================================================================
