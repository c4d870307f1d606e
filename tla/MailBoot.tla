------------------------------ MODULE MailBoot ------------------------------
(***************************************************************************)
(* How the mail container comes up: keys.sh resolves the master key, the   *)
(* entrypoint opens the encrypted store with it, or discards the store and *)
(* makes a new one, and only then is anything served.  Every step may be   *)
(* the last before a kill; an exit under set -e is a start from the top,   *)
(* with /run/mail empty (restart: unless-stopped, tmpfs).                  *)
(*                                                                         *)
(* gocryptfs and the TPM are external: -init wants a password that is not  *)
(* empty and a directory that is; a mount wants the key of gocryptfs.conf  *)
(* and may fail all the same; so may unsealing, and from a seal.priv that  *)
(* was cut off, or whose TPM has been cleared, it yields nothing for ever. *)
(* A key derived from the operator's secret is identified with it.         *)
(***************************************************************************)
EXTENDS Naturals

CONSTANTS
    KeyModes,       \* values of KEY_MODE to consider
    Generated,      \* keys gen_key may return
    Secret,         \* MASTER_KEY or MAIL_PASSPHRASE
    Nothing, Empty, \* no file or no secret; a file from which no key is to be had
    MaxTroubles,    \* bound: changes of the secret or TPM
    MaxKills        \* bound: kills

ASSUME ModeAssumption == KeyModes \subseteq {"auto", "tpm", "autostart", "passphrase"}
ASSUME BoundAssumption == MaxTroubles \in Nat \ {0} /\ MaxKills \in Nat
ASSUME KeyAssumption ==
    /\ Generated \cap Secret = {} /\ Nothing # Empty
    /\ {Nothing, Empty} \cap (Generated \cup Secret) = {}

VARIABLES
    mode, secret, tpm,  \* KEY_MODE; the operator's secret; tpm_available
    pc, key,            \* the next step; the shell variable KEY
    sealed, stored,     \* /keys: seal.priv and master.key
    live,               \* /run/mail/master.key
    conf, data,         \* volume: the key gocryptfs.conf opens with; mail and credentials
    troubles, kills     \* history: what only operator, TPM or FUSE can cause, up to
                        \* MaxTroubles; kills

machine == <<mode, secret, tpm>>
volumes == <<sealed, stored, conf, data>>
vars == <<machine, pc, key, volumes, live, troubles, kills>>

Keys == Generated \cup Secret
Steps == {"off", "resolve", "seal", "sealWrite", "truncate", "write", "publish", "open",
          "mount", "discard", "reinit", "remount", "running"}

TypeOK ==
    /\ mode \in KeyModes /\ secret \in Secret \cup {Nothing} /\ tpm \in BOOLEAN
    /\ pc \in Steps /\ key \in Keys \cup {Nothing, Empty}
    /\ sealed \in Generated \cup {Nothing, Empty} /\ stored \in Generated \cup {Nothing, Empty}
    /\ live \in Keys \cup {Nothing, Empty}
    /\ key = Nothing <=> pc \in {"off", "resolve"}
    /\ live = Nothing <=> pc \in {"off", "resolve", "seal", "sealWrite", "truncate", "write",
                                  "publish"}
    /\ conf \in Keys \cup {Nothing} /\ data \in BOOLEAN
    /\ troubles \in 0 .. MaxTroubles /\ kills \in 0 .. MaxKills

Init ==
    /\ mode \in KeyModes /\ secret \in Secret \cup {Nothing} /\ tpm \in BOOLEAN
    /\ pc = "off" /\ key = Nothing /\ live = Nothing
    /\ sealed = Nothing /\ stored = Nothing /\ conf = Nothing /\ data = FALSE
    /\ troubles = 0 /\ kills = 0

-----------------------------------------------------------------------------
(* resolve_key. *)

Go(from, to) == pc = from /\ pc' = to /\ UNCHANGED <<machine, kills>>
(* Mutant of Quit: the key of the boot that ended is left in /run/mail. *)
QuitKeepsRun(from) == Go(from, "off") /\ key' = Nothing /\ UNCHANGED live
Quit(from) == Go(from, "off") /\ key' = Nothing /\ live' = Nothing
Trouble == troubles < MaxTroubles /\ troubles' = troubles + 1
(* A failure of TPM or FUSE may come any number of times. *)
Failure == Trouble \/ (troubles = MaxTroubles /\ UNCHANGED troubles)
NoTrouble == UNCHANGED troubles

Chosen == IF mode # "auto" THEN mode ELSE IF tpm THEN "tpm" ELSE "autostart"
Sealing == Chosen = "tpm" /\ tpm
Supplied == Chosen \in {"autostart", "passphrase"} /\ secret # Nothing
Storing == Chosen = "autostart" /\ secret = Nothing
Unsupplied == (Chosen = "tpm" /\ ~tpm) \/ (Chosen = "passphrase" /\ secret = Nothing)

Start == Go("off", "resolve") /\ UNCHANGED <<key, live, volumes, troubles>>

(* KEY_MODE=tpm without a TPM, or passphrase without one. *)
Refuse ==
    /\ Unsupplied
    /\ Quit("resolve") /\ UNCHANGED volumes /\ NoTrouble

Take(k) == Go("resolve", "publish") /\ key' = k /\ UNCHANGED <<live, volumes>>
Unseal == Sealing /\ sealed # Nothing /\ Take(sealed) /\ NoTrouble
(* set -e does not hold in $(tpm_unseal): its last command, rm, succeeds. *)
UnsealFails == Sealing /\ sealed \in Generated /\ Take(Empty) /\ Failure
UseSecret == Supplied /\ Take(secret) /\ NoTrouble
UseStored == Storing /\ stored # Nothing /\ Take(stored) /\ NoTrouble

(* A random key is one that is nowhere in use. *)
Draw(to) ==
    /\ key' \in Generated \ {sealed, stored, conf}
    /\ Go("resolve", to)
    /\ UNCHANGED <<live, volumes>> /\ NoTrouble

(* Mutant of Generate: the new key is used before it is stored. *)
GenerateUnstored ==
    \/ Sealing /\ sealed = Nothing /\ Draw("seal")
    \/ Storing /\ stored = Nothing /\ Draw("publish")

Generate ==
    \/ Sealing /\ sealed = Nothing /\ Draw("seal")
    \/ Storing /\ stored = Nothing /\ Draw("truncate")

(* Mutant of Seal: a failure of tpm_seal in the pipe goes unnoticed. *)
SealUnchecked ==
    /\ \/ sealed' = Empty /\ Go("seal", "sealWrite")
       \/ UNCHANGED sealed /\ Go("seal", "publish")
    /\ UNCHANGED <<key, live, stored, conf, data>> /\ NoTrouble

(* tpm2_create: seal.pub, then seal.priv, in place. *)
Seal ==
    /\ sealed' = Empty
    /\ Go("seal", "sealWrite")
    /\ UNCHANGED <<key, live, stored, conf, data>> /\ NoTrouble
SealWrite ==
    /\ sealed' = key
    /\ Go("sealWrite", "publish")
    /\ UNCHANGED <<key, live, stored, conf, data>> /\ NoTrouble

(* The TPM does not create the object; nothing is written. *)
SealFails == Quit("seal") /\ UNCHANGED volumes /\ NoTrouble

(* printf > master.key. *)
Truncate ==
    /\ stored' = Empty
    /\ Go("truncate", "write")
    /\ UNCHANGED <<key, live, sealed, conf, data>> /\ NoTrouble
Write ==
    /\ stored' = key
    /\ Go("write", "publish")
    /\ UNCHANGED <<key, live, sealed, conf, data>> /\ NoTrouble

Publish ==
    /\ live' = key
    /\ Go("publish", "open")
    /\ UNCHANGED <<key, volumes>> /\ NoTrouble

-----------------------------------------------------------------------------
(* The encrypted store. *)

HasStore ==
    /\ conf # Nothing
    /\ Go("open", "mount")
    /\ UNCHANGED <<key, live, volumes>> /\ NoTrouble

Initialisable == live # Empty /\ ~data
InitStore(from, to) ==
    /\ Initialisable /\ conf' = live
    /\ Go(from, to)
    /\ UNCHANGED <<key, live, sealed, stored, data>> /\ NoTrouble
InitFails(from) ==
    /\ ~Initialisable
    /\ Quit(from) /\ UNCHANGED volumes /\ NoTrouble

NewStore == conf = Nothing /\ (InitStore("open", "mount") \/ InitFails("open"))

Mount ==
    /\ conf = live
    /\ \/ Go("mount", "running")
       \/ Go("remount", "running")
    /\ UNCHANGED <<key, live, volumes>> /\ NoTrouble

(* Mutant of MountRefused: a store that does not open stops the boot. *)
MountRefusedQuits ==
    /\ conf # live
    /\ Quit("mount") /\ UNCHANGED volumes /\ NoTrouble

(* The key is another one: the store is discarded ... *)
MountRefused ==
    /\ conf # live
    /\ Go("mount", "discard")
    /\ UNCHANGED <<key, live, volumes>> /\ NoTrouble

(* ... and so it is when the mount fails for any other reason. *)
MountFails ==
    /\ conf = live
    /\ \/ Go("mount", "discard") /\ UNCHANGED <<key, live>>
       \/ Quit("remount")
    /\ UNCHANGED volumes /\ Failure

(* find -delete, in the order of the directory. *)
Discard ==
    /\ pc = "discard"
    /\ \/ conf # Nothing /\ conf' = Nothing /\ UNCHANGED <<pc, data>>
       \/ data /\ data' = FALSE /\ UNCHANGED <<pc, conf>>
       \/ conf = Nothing /\ ~data /\ pc' = "reinit" /\ UNCHANGED <<conf, data>>
    /\ UNCHANGED <<machine, key, live, sealed, stored, kills>> /\ NoTrouble

Reinit == InitStore("reinit", "remount") \/ InitFails("reinit")

(* Users enroll, mail is synced and filed. *)
Serve ==
    /\ pc = "running" /\ data' = TRUE
    /\ UNCHANGED <<machine, pc, key, live, sealed, stored, conf, troubles, kills>>

Boot ==
    \/ Start \/ Refuse \/ Unseal \/ UnsealFails \/ UseSecret \/ UseStored
    \/ Generate \/ Seal \/ SealWrite \/ SealFails \/ Truncate \/ Write \/ Publish
    \/ HasStore \/ NewStore \/ Mount \/ MountRefused \/ MountFails \/ Discard \/ Reinit
    \/ Serve

-----------------------------------------------------------------------------
(* The operator and the machine. *)

Kill ==
    /\ pc # "off" /\ kills < MaxKills
    /\ kills' = kills + 1
    /\ pc' = "off" /\ key' = Nothing /\ live' = Nothing
    /\ UNCHANGED <<machine, volumes, troubles>>

ChangeSecret ==
    /\ pc = "off"
    /\ secret' \in (Secret \cup {Nothing}) \ {secret}
    /\ Trouble
    /\ UNCHANGED <<mode, tpm, pc, key, live, volumes, kills>>

ChangeTpm ==
    /\ pc = "off"
    /\ tpm' = ~tpm
    /\ Trouble
    /\ UNCHANGED <<mode, secret, pc, key, live, volumes, kills>>

(* The TPM is cleared or replaced: what it sealed is of no use any more. *)
ClearTpm ==
    /\ pc = "off" /\ sealed \in Generated
    /\ sealed' = Empty
    /\ Trouble
    /\ UNCHANGED <<machine, pc, key, live, stored, conf, data, kills>>

Next == Boot \/ Kill \/ ChangeSecret \/ ChangeTpm \/ ClearTpm

Spec == Init /\ [][Next]_vars

(* The boot goes on, again and again; sealing, unsealing and mounting, where they can
   succeed, do so some time. *)
Fairness == WF_vars(Boot) /\ SF_vars(Seal) /\ SF_vars(Unseal) /\ SF_vars(Mount)
FairSpec == Spec /\ Fairness

-----------------------------------------------------------------------------
(* Properties. *)

(* The key that opens the store survives: unless the operator, the TPM or FUSE got
   in the way, the next boot resolves the very key the store was made with, at
   whatever step the last one was killed (keys.sh: "stays consistent across
   restarts"). *)
NextKey ==
    CASE Sealing -> sealed
      [] Supplied -> secret
      [] Storing -> stored
      [] OTHER -> Nothing
KeySurvives == conf # Nothing /\ troubles = 0 => conf = NextKey

(* Kills alone never cost the mail or the credentials: the store is discarded only
   after the operator, the TPM or FUSE has interfered ("the encrypted mail store
   will not open with the current key (master key changed?)"). *)
KillsLoseNothing == [][data /\ ~data' => troubles > 0]_vars

(* "So the stack always starts": it does, again and again, however often TPM and FUSE
   fail, unless a kill cut off the write of master.key or of seal.priv or the removal
   of the old store, the TPM that sealed the key has been cleared, or what KEY_MODE
   asks for is not there. *)
KeyCut == Storing /\ stored = Empty
SealLost == Sealing /\ sealed = Empty
DiscardCut == conf = Nothing /\ data
StartsUnlessCut ==
    []<>(pc = "running") \/ <>[](KeyCut \/ SealLost \/ DiscardCut \/ Unsupplied)
=============================================================================
