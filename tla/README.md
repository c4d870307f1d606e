# Formal models of EasyUniMailProxy

TLA+ specifications of the parts of EasyUniMailProxy that have state and run
concurrently, fail half-way or must recover: what they are, what TLC checks about
small instances of them, and what TLAPS proves about them for every size.

Every module is written from the source; a path such as `authcheck.py:120` names
the line a definition stands for (`PROJECT.json`, "map", names them all). To run:

    tlc -workers 2 -config MCCredentials.cfg MCCredentials    # any MC module and .cfg
    tlapm CredentialsProofs.tla                               # any *Proofs module

## 1. Inventory

Three containers. **mail** serves the user's client (Dovecot on 993, Postfix on
587), keeps credentials and mirrored mailboxes on an encrypted store, and runs one
Python program per job. **vpn** holds the tunnel to the university, through which
every connection of mail to the university goes. **watchdog** probes mail.

| component | state it keeps | operations | talks to |
|---|---|---|---|
| Credential store, logins (`mail/authcheck.py`) | per user `passhash`, `upass.enc`, `last_uni`, and their shared `.tmp` files | `authenticate` (`verify_local`, `cooldown_ok`, `verify_uni`, `enroll`), `deauth` | called by Dovecot, one process per login; `deauth` by the three components below |
| Mail sync (`mail/sync.py`) | Maildir, `stale-folders` | `sync_user`, `far_side_folders`, `quarantine_stale_folders`, mbsync | reads `upass.enc`, runs `deauth` on a refused login |
| IDLE push (`mail/idle.py`) | threads, one lock per user, a connection per user | `watch_user`, `_idle_wait`, `periodic`, `main`, `subscribe_once` | calls `sync_user`; `deauth` |
| Submission relay (`mail/relaysend.py`, `mail/entrypoint.sh` 105-147) | Postfix's queue | `main` and its exit codes | Postfix runs one process per message; reads `upass.enc`; `deauth` |
| Watchdog (`watchdog/watchdog.py`) | `Stats`, `state.json`, `daily.json`, `outages.jsonl`, alert state | `main` loop, `Stats.record/account/save/_load`, `notify` | probes mail; ntfy |
| VPN supervisor (`vpn/entrypoint.sh`) | session token, its age, login spacing, refresh timer | `mint_token`, `run_tunnel`, main loop | runs `headless.py` and openconnect |
| Headless sign-in (`vpn/headless.py`) | one HTTP session | the SAML dialogue, one-time codes, form filling | the university's identity provider |
| Special-use tags (`mail/special_use.py`, `entrypoint.sh` 72-103) | `special-use.conf` | a polling loop, a Dovecot reload | reads `upass.enc` |
| Folder lists (`mail/imap_list.py`) | none | parse LIST, modified UTF-7 | used by the sync and the tags |
| Boot (`mail/keys.sh`, `entrypoint.sh` 24-47, `mail/cert.sh`) | master key, gocryptfs store, certificates | `resolve_key`, mount or discard, issue and renew | everything else starts after it |

What interacts: the store is shared by all logins and three kinds of workers
without a lock; the two threads of idle.py share a Maildir and a lock; the relay's
exit codes drive Postfix and its `deauth` drives the store; the VPN's refresh timer
is a subshell that races with the tunnel it kills.

What is hard, component by component, and what makes it correct:

* **Credential store.** Four processes write two files in two steps each, through
  shared temporary names, and any of them may die in between. Correct: nothing is
  stored or let in that the university has not accepted; the cooldown bounds how
  often it is asked; a dead password is dropped; a client with the right password
  always gets in again; and whoever gets in is also served.
* **Relay.** A process may die or lose its answer after the university has taken
  the message, and removes the credentials it needs itself on a retry. Correct: a
  second copy only where the outcome was in doubt, no message reported sent that
  reached nobody, every message settled, and bounced by the university alone.
* **Mail sync and push.** A list of folders is acted on long after it was fetched,
  while the university renames and another thread mirrors; a signal may arrive when
  nobody listens. Correct: no mail lost, no live folder moved away, one dead folder
  does not block the rest, the watcher always comes back, no signal is missed, and
  folders are subscribed for the user once and then left to him.
* **Watchdog.** Killed anywhere between a probe, a push and three file writes.
  Correct: time is counted once and never guessed, each outage has its line, the
  operator hears once of every sustained outage.
* **Boot.** Killed between any two steps that make a key or a store. Correct: the key
  that opens the store can always be found again, nothing is discarded without need,
  and the box starts.
* **Special-use tags.** Written before anybody can load them. Correct: they reach
  Dovecot once a user is enrolled.
* **Headless sign-in.** It follows whatever page it is sent, fills in forms it has not
  seen before, and computes one-time codes for a clock that is not its own. Correct:
  the right credentials get in, every sign-in ends, and credentials that were refused
  are not shown again, by the program or by a human it asks to sign in by hand.
* **VPN supervisor.** A token may die for reasons the script is told in words it may
  not understand, and one-time codes must not repeat. Correct: the tunnel comes back,
  a spent token is not used, a failed login is not repeated with the code it presented,
  renewal beats expiry.

`PROJECT.json`, "hazards", lists these at their lines, with the property that
covers each or the reason why none does yet.

## 2. The modules

| module | models | composed with |
|---|---|---|
| `Credentials` | the store; logins and workers, one file operation a step | implements `Vault` |
| `Vault` | abstract: a set of passwords the university has vouched for | - |
| `RelayQueue` | relaysend.py under Postfix | EXTENDS `Credentials`: a message is one of its workers |
| `MailSync` | sync.py and idle.py for one user, with university and client | implements `Mailbox` |
| `Mailbox` | abstract: mail that enters, is copied or set aside, and is never deleted | - |
| `Watchdog` | watchdog.py | - |
| `HeadlessAuth` | headless.py: one sign-in, page by page, and its callback server | implements `SignIn` |
| `SignIn` | abstract: credentials shown a bounded number of times, never after a refusal | - |
| `VpnSupervisor` | vpn/entrypoint.sh from line 174, with the gateway and the one-time codes | implements `TokenUse` |
| `TokenUse` | abstract: which tokens a tunnel may be raised from, and how often | - |
| `MailBoot` | keys.sh and the opening of the encrypted store | - |
| `SpecialUse` | the special-use loop, special_use.py, Dovecot's reloads | - |

Each has an `MC` module with its configurations; the proofs are in
`CredentialsProofs`, `RelayProofs`, `MailSyncProofs`, `WatchdogProofs`, `VpnProofs`,
`MailBootProofs`, `HeadlessProofs`; `OrderLemmas` holds what two of them need of the
natural numbers.
A definition that only exists to be put in another one's place (a bug one might
have written) is commented "Mutant of": the properties notice every one of them.

### Credentials
`passhash` and `upass` hold the password in the file, or `Nothing`; `tmpHash`,
`tmpUpass`, `tmpMark` are the `.tmp` files all logins share; `owned` says which
files the mail user may read (`enroll` writes as root and then changes the owner,
125). A login walks through `authenticate`, and `_write` is two steps, writing the
temporary file and renaming it: a step that finds the file gone dies, as `os.replace`
does. `lastUni` means "exists and is younger than UNI_COOLDOWN"; `CooldownOver` ages
it. A worker reads the password, uses it, and runs `deauth` in three removals when it
is refused, be it a false alarm. `Restart` kills every process between any two steps.

`Vault` knows none of this: a set of passwords `kept`, which grows only by the one that
is valid at that moment and may lose any. `VaultRespected` maps to it every password in
a file, a temporary file or the hands of a login that has been verified.

### RelayQueue
A message is a worker of `Credentials`; `stage` follows its SMTP dialogue. The exit
codes move it in `queue`: `ExitOk`, `ExitBounce` (EX_NOPERM), `ExitTempfail`. Postfix
is external: a deferred message is attempted again, a permanent failure bounces, and
a message whose process was killed is queued again (`MailRestart`; the queue itself
survives). `sendmail` raises only if all recipients are refused, so `SomeAccepted`
counts as success whoever was left out. `StoreRespected` is `Credentials`' own Init
and Next: the send path is shown to implement the store's specification.

### MailSync
`far` and `near` are the mail per box at the university and in the Maildir, `made`
the local folders, `stale` the mail in stale-folders. Each thread walks through
`sync_all_folders` or `sync_inbox`: lock and INBOX run (one step), LIST (`names`),
quarantine (`Move`), full run. A run of mbsync is one step: it mirrors everything, or
fails having mirrored some boxes, or is refused; a local folder without a far side
makes it fail. LIST may fail, or be answered NO, which `far_side_folders` takes for an
answer without folders (`ListNo`). The watcher connects, syncs, runs the subscription
pass, idles; `IdleStart` may lose what the server said before its continuation; after a
time-out the socket's file object raises on the next read, so a quiet IDLE_REFRESH ends
the watch (`WatchEnds`). The university delivers and renames, the password changes, the
client makes folders and files mail, the daemon crashes.

`subscribe_once` is `BeginPass` (local login, LSUB, LIST), one `Subscribe` per folder,
and `EndPass`, which writes the marker or fails to; a crash may come between any two.
`given` remembers what a pass has subscribed and is emptied when the pass did not get
as far as its marker, which is what "once" can mean in this code. The local login goes
through authcheck.py, so it enrols again a user whom the sync just before has dropped.
What the user himself has subscribed is not followed: LSUB may find something or not.

`Mailbox` forgets folders, threads and runs: mail is at the university, in the Maildir or
set aside. It may arrive, be copied from side to side, or leave the Maildir for
stale-folders, and nothing else happens to it. `MailRespected` maps to it the unions of
all boxes; `NothingLost` is the consequence users care about.

### Watchdog
One action per step of `main`: probe and `record`, alert, the two files of `save`, the
university path, sleep; `Restart` is a kill at any step followed by `_load`. `stats`
is the `Stats` object, `stateFile` and `dailyFile` what is on disk, `lines` the number
of lines of `outages.jsonl`. Samples, error texts and reports are left out. The system
clock may be set back (`SetBack`); then the interval is dropped and the next one
counts the same ticks again, which is why `NotGuessed` allows for `rewound`.

### HeadlessAuth
A step is one request, its answer and the checks made on it. A page is what the code
looks for in it: the kind of its first form or of its text, whether host and target are
on the whitelist, whether it refuses the credentials in known words, whether it sets the
session cookie. `authenticate` tries the external script, then either the scripted
Microsoft flow (`EntraOpen` to `EntraGiveUp`, with WS-Trust as `Realm`, `SoapLogin`,
`PostAssertion`) or the form scraper (`Open`, then per turn `SignedIn`, `FollowHop`,
`SubmitAsIs`, `SubmitFilled`, `CooledDown` or `GiveUp`), and falls back to the callback
server, which a refusal remembered in `rejected` makes give up at once. Every request
may fail, time out or come with an error status. `conf` is the set-up, chosen at the
start: script, flow, whitelist, how codes are made, how far the local clock is off, and
whether the provider is `polite`, a Keycloak in front of a Cisco gateway as at the
university, or may answer anything. Time is in windows of the one-time code; `offset` is
the difference learnt from the last Date header.

`SignIn` is the promise to the supervisor: `shown` counts the requests that carried a
password or a code and stays within a budget; after `refused` nothing is shown, nobody
is asked, and no token is reported.

### VpnSupervisor
Time is in ticks: `tod` the time of day, `phase` the position in the one-time code's
window; ages saturate, so a run covers an unbounded execution. The main loop decides
on a token, logs in (`LoginStart`, `PresentCode`, then success or failure), raises the
tunnel and classifies how it ended; the refresh timer touches its flag and kills
openconnect in two steps. The gateway may drop the tunnel, reject the token in words
the script knows or not, and ends every session at `SessionLife`. Neither a login nor an
attempt at a tunnel has a longest duration, be its token dead or alive: the script waits
for both as long as they take. `spentBy` says who presented the code of this window: a
login that failed, one that succeeded `prompt`ly (soon enough after its start for
MIN_MINT_SPACING to keep the next one apart) or `late`, or one `before` a restart; `reused`
collects by whom codes had been presented that another login presented again.

`TokenUse` is the promise the gateway sees: a tunnel is raised only from a token that is
held, young enough and not known to be spent, and from one that has died without the
script's knowing at most `Limit` times in a row, counted from the last attempt that has
`lasted`. That is what the code gives: an attempt of five seconds and more, however it
ends, sets `short_exits` back and keeps the token (`entrypoint.sh:343-349`), so a gateway
that takes its time to refuse a dead token gets it presented until it is
VPN_TOKEN_MAX_AGE old, or the refresh timer goes off. Under `TokenUsedWell`, the number of
tries is `deadTries` and a token the script was told of is "spent".

### MailBoot
One action per step of `resolve_key` and of the mount, for every KEY_MODE. `key` is the
shell variable, `live` the file in tmpfs, `sealed` and `stored` what /keys holds, `conf`
the key that opens the store, `data` whether anything is in it. Writing `master.key` is
a truncation and a write, and so is that of `seal.priv` (`Seal`, `SealWrite`); `Empty`
stands for any file from which no key is to be had, a seal whose TPM has been cleared
(`ClearTpm`) included. The removal of the old store goes entry by entry. `Quit` is
an exit under `set -e`, `Kill` a kill at any step; the container starts again from the
top. What only the operator, the TPM or FUSE can cause is counted in `troubles`: changes
of secret or TPM up to a bound, failures to unseal or to mount (`Failure`) any number of
times. A full disk, and a TPM that fails after it has begun to write, are left out.

### SpecialUse
`loop` is the next step of the polling loop, `include` the file, `tags` what Dovecot has
loaded. `ErrExit` is `set -e`: the subshell ends at a command that fails, before
`rc=$?`. With that action taken out, the loop the comments describe, the property of
the failing run holds on the same instance.

## 3. The runs

| run | instance | shows |
|---|---|---|
| `credentials` | 2 logins, 1 worker, 2 passwords, 1 password change or restart | `VouchedOnly`, `OncePerWindow`; `StaleSecretDropped`, `GoodPasswordGetsIn`; refines `Vault` (`VaultRespected`) |
| `credentials_served` | 1 login, 1 worker | **fails** `EnrolledIsServed` |
| `relay` | 1 message, 2 recipients, 1 login, 1 other worker, 1 change or restart, 1 attempt in doubt | `CopiesExplained`, `StoreRespected`; `EveryMessageSettles` |
| `relay_bounce` | 1 message, 1 login | **fails** `OnlyUniversityBounces` |
| `mailsync` | 2 threads, INBOX and 2 folder names, 1 message, 1 change, 1 crash, IDLE offered or not | `LiveFolderStays`, `SubscribedOnce`; refines `Mailbox` (`MailRespected`, so `NothingLost`); `MailArrives`, `WatcherBack` |
| `mailsync_push` | the same without changes and crashes | **fails** `SignalNotMissed` |
| `watchdog` | 9 ticks over day boundaries, 2 kills, the clock set back once by 2 ticks | `Conserved`, `NotGuessed`, `DailyWithinLifetime`, `LedgerExplained`, `FailsFollowOutage`, `AlertedUnlessRestarted`, `DownNotRepeated`, `NeverTakenBack` |
| `watchdog_silent` | the same, 1 kill | **fails** `SustainedIsAlerted` |
| `vpn` | unbounded time, 1 reboot | `ExpiresOnlyUnrefreshed`, `CodesSpacedOut`; refines `TokenUse` (`TokenUsedWell`); `TunnelComesBack` |
| `headless` | every set-up and flow, clock right or 3 windows off, 5 turns, 2 challenges, 1 window passes | `GoodSignInSucceeds`; refines `SignIn` (`KeepsPromise`); `SignInEnds` |
| `boot` | all key modes, TPM or not, 2 secrets, 4 keys, 2 kills, 2 changes of the machine, any number of failures of TPM and mount | `KeySurvives`, `KillsLoseNothing`; `StartsUnlessCut` |
| `special_use` | 2 sets of flags, 1 change or restart | **fails** `TagsApplied` |

Each passing run also checks its module's type invariant.

**Bounds, and why they suffice.** Two logins are the smallest number that share a
temporary file, and one more process of either kind adds no new kind of neighbour;
two passwords tell the old from the new. `MaxEvents = 1` gives each run either a
change or a restart, not both; the theorems cover any number. One message suffices
because messages meet only in the store, whose other users `Worker` and `Login`
stand for. Two folder names are a folder and the name it is given; one message is
enough for `MailRespected` and `MailArrives`, which speak of each message alone; `Plain`
leaves one of the two folders a name that imaplib does not encode. The
watchdog's nine ticks hold two outages over two day boundaries with `MAX_DAYS = 2`, so
that days are pruned, and gaps above and below the cap; the run stops when time is
up, hence CHECK_DEADLOCK FALSE. The VPN's constants keep the order of the real ones
(window < spacing, token age < session life = day, two refresh times), and its
ages saturate at the value past which the code does not tell them apart. A spacing one
tick above the window has both kinds of login, prompt and late, and `ShortHold = 2` has
attempts that end at once and ones that last, also from a dead token.

For the sign-in five turns of the scraper are what the university's pages need, and
each kind of page is seen before and after every other in fewer; `PromiseKept` and
`GoodSignsIn` are proved for every number. A skew of three windows is more than
a code is good for. The run ends with the sign-in, hence CHECK_DEADLOCK FALSE.

Four generated keys are one more than can be in use at once. Two changes of the machine
take the key away and bring it back; failures of TPM and mount have no bound.

**Fairness.** A process or thread that can go on goes on (WF of its steps): the
operating system schedules it, and the loops of the entrypoints restart what dies.
What depends on the outside is strong: an attempt repeated for ever succeeds at
some time (login, LIST, a full run, delivery), a password no longer valid is refused
at some time, a lock goes to each waiting thread in the end, a key that was sealed whole
to the TPM at hand is unsealed at some time. No fairness is given to
crashes, drops, renames, false alarms or clients, except that `GoodPasswordGetsIn`
assumes a client that keeps typing the right password, which is what it is about.
`MailArrives` asks it of the periodic thread only, since push covers INBOX alone. The
sign-in has only WF of the program's own steps and of time, which both go on by
themselves; nothing is assumed of the provider, nor of the browser at the callback
server, whose open connection is the one thing `SignInEnds` lets hold it up.

## 4. What does not hold

Five statements of the code's own comments that its behaviour does not keep, each a
run that TLC refutes (`PROJECT.json`, "findings"):

1. `EnrolledIsServed`: a `deauth` that overlaps an `enroll`, or a crash between
   `enroll`'s two files, leaves a user who logs in for ever and is never synced.
2. `OnlyUniversityBounces`: a message deferred after a refused login is bounced by
   the next attempt, because `deauth` has removed what that attempt reads.
3. `SustainedIsAlerted`: a restart in the first failed probes of an outage resumes in
   the state "already alerted", and the outage is never reported.
4. `SignalNotMissed`: what the server announces before IDLE's continuation is dropped.
5. `TagsApplied`: the special-use loop runs under `set -e` and ends at the first exit
   code that is not 0, before it is looked at; so tags are never applied by a reload.

Four more things follow from the code by reading, without a run:

* "Never present a one-time code twice" (`vpn/entrypoint.sh:239`). The spacing of 32 s
  is measured from a login's start, the window of a code from the moment it is
  presented, and line 10 calls a login "a few seconds". A sign-in that succeeded having
  presented its code more than 2 s after its start can be followed, after a short tunnel
  and a refusal, by one that presents the same code; so can one just before a restart,
  which forgets LAST_MINT. `VpnSupervisor` reaches both. What does hold is
  `CodesSpacedOut`: only these two codes are ever presented again, never that of a prompt
  or of a failed login, so that a repeated code costs one login.
* `idle.py:105` hands imaplib a name decoded from modified UTF-7, imaplib encodes
  arguments as ASCII, and the exception is passed over: a folder with an umlaut is not
  subscribed, nor is one that comes into being after the pass. The header (16-17) and
  the README say that every folder is.
* The Microsoft flow takes its code once from the local clock (`headless.py:503`), where
  the docstring (39-40) speaks of the server's; so `GoodSignInSucceeds` claims a skewed
  clock only for the scraper.
* A dead token whose refusals take five seconds and more is not given up after three
  tries, the "safety net" of line 333, but when it is too old (see VpnSupervisor above).

`StartsUnlessCut` holds, and names the exceptions to "so the stack always starts". A
kill in the middle of writing `master.key` or `seal.priv`, or of discarding the old store,
leaves a box that never starts again by itself; so does a TPM that has been cleared, since
`seal.priv` is taken for a sealed key for ever; and the box waits for a TPM or a passphrase
that KEY_MODE asks for and that is not there.

Some properties allow what a reader might wish away, because it is what the code does.
`CopiesExplained` counts a message as sent when one recipient got it (`relaysend.py:53`
drops the list of the others). `KillsLoseNothing` lets a failing TPM or mount cost the
store, which is then discarded without need. `AlertedUnlessRestarted` is silent about an
outage with a restart in it, after which a recovery may also be reported without a DOWN.
`SubscribedOnce` counts completed passes: one that a crash cut off before its marker is
done again in full.

## 5. What is proved

TLAPS proves, for every value of the constants:

* **Credentials**: `TypeCorrect`; `OnlyVouched`, by the invariant `VouchedInv`, that
  every place a password can be on its way into the store (the `.tmp` files, a login
  past its verification) holds only passwords the university once had;
  `CooldownHolds`, by `WindowInv`, that whoever is about to ask has passed the
  marker in this window and has not asked; `ImplementsVault`, by the same invariant:
  each file operation puts a vouched password somewhere or loses one.
* **RelayQueue**: `RelayImplementsStore`, step by step; from it `RelayVouched`, with no
  new induction; `RelayTyped`, `CopiesAccounted` by `RelayInv`: types, `Paired` (who
  holds a password in which stage), and for each stage who may have a copy. The bound
  on copies is not inductive without the agreement of process and worker, because
  `Restart` and `deauth` are steps of the worker. On it rest two results about whole
  attempts: `AttemptsRunOut`, by the count `AttemptLeft` (four steps at most), and
  `SettledForGood`: no copy after the verdict, and no bounce by the attempt whose login
  was refused, which is what is left of `OnlyUniversityBounces`.
* **MailSync**: `SyncTyped` (with mutual exclusion), `MailNeverLost`, `LiveFoldersKept`
  by `SyncInv`: `MailOK`, where mail may be, including that a name free for a rename
  holds none, and `ListCurrent`, that the list of a thread about to move folders
  names every folder mirrored and exposed ever since. The latter needs the lock:
  only its holder mirrors. `SubscribedAtMostOnce` by `PassOK`: outside a pass, something
  counts as subscribed only if the marker is there. `ImplementsMailbox` needs of `MailOK`
  that a rename takes all of a folder's mail to its new name and that an unexposed or
  unmade box is empty; it is proved box by box and then for their unions.
  `MissedOnlyAtIdleStart`, by `Heard`: of all the places between two syncs, a signal gets
  lost only where `SignalNotMissed` finds it.
* **Watchdog**: `LedgerComplete`, `StreaksAgree`, `SustainedAlerted`, `DownOnce`,
  `UptimeConserved`, from `WType` (types, and no probe lies in the future) and one
  invariant each, which also speaks of what is on disk, since a kill at any step makes
  it the state. `NothingGuessed` and `CountedStays` hold with a clock that is set back;
  `WatchdogTyped` includes that neither day rows nor ledger outgrow their limits.
  `RowsWithinLifetime`, without a fold over the rows: by `RowsBehind` they claim, in memory
  and on disk, no more ticks than the lifetime counters, and by `FirstDay` exactly as many
  while the row of the first day is there. That a bounded set of days has a last one is in
  `OrderLemmas`.
* **VpnSupervisor**: `SpentTokenRetired` by `TokenSettled`; `CodesKeptApart` by
  `CodeSpaced`: the code of a prompt login is over before the spacing lets the next one
  start, that of a failed one before its pause is; it needs `LongBackoff`, that
  VPN_MINT_BACKOFF is no shorter than the window (35 s and 30 s), and nothing of how long
  a login takes. `VpnTyped`. `ImplementsTokenUse` puts `TokenSettled` together with
  `TokenHeld`, that what is up was raised from a token held and young enough, and
  `DeadCounted`, that each try from a dead token since one has lasted has been counted as
  a short exit or is the one at hand.
  `RenewedInTime`, under `LongSession`, that a session lasts for a day (`Day <=
  SessionLife`): in a day each refresh time comes once, so `RefreshCounted` balances those
  a session in use has seen pass against the refreshes missed while the tunnel was down.
* **HeadlessAuth**: `SignInTyped`; `PromiseKept`, that it implements `SignIn` whatever the
  provider answers, by bounds on what has been shown at each place and by `Refusals`,
  which says where a refused sign-in can be and that the callback server knows of it;
  `GoodSignsIn`: five turns suffice good credentials, for every skew and delay.
  `StepsRunOut`, by the count `Left`: whatever pages it is sent, a sign-in takes at most
  `8 + MAX_STEPS + ENTRA_STEPS` steps of its own. It is the safety half of `SignInEnds`.
* **MailBoot**: `KeyAlwaysSurvives` and `KillsHarmless` by `BootInv`: as long as only
  kills happen, no store exists while a key is being made, and from `publish` on the
  key of this boot is the one the next boot would resolve. `BootTyped`.
  `BootGoesThrough`, by the count `StepsLeft` and `EmptyTold` (where an empty key may come
  from): a boot takes eleven steps at most, and one that exits has one of the reasons in
  `Excused`: a kill, a TPM that does not seal or unseal, a second mount that fails, and
  the exceptions of `StartsUnlessCut`, of which it is the safety half.

The assumptions are those of the modules, shapes of the constants, and three that belong
to one theorem each: `LongBackoff` and `LongSession`, just named, and `GoodSignsIn`'s, that
the scraper is given five turns (`MAX_STEPS` is 20).

**Only model-checked.** Liveness (`StaleSecretDropped`, `GoodPasswordGetsIn`,
`EveryMessageSettles`, `MailArrives`, `WatcherBack`, `TunnelComesBack`,
`StartsUnlessCut`, `SignInEnds`): fairness and ENABLED are out of the prover's reach.
A count of steps that runs out (`AttemptsRunOut`, `StepsRunOut`, `BootGoesThrough`) says
that nothing goes on for ever by itself; that it goes on at all is the part TLC checks.
Every other property of the passing runs has a theorem.

## 6. What is not modelled, and why

* `imap_list.py`: text parsing without state; names are model values.
* Several users in one `MailSync`: users share only the periodic thread, in which a run
  that hangs (mbsync is given 30 minutes) delays those behind it. Which folders the
  user has subscribed himself is not followed.
* mbsync's own journal, expunges and flags; the TLS and IMAP dialogues themselves;
  hashing and encryption; formats of logs and reports.
* The text of the sign-in's pages: which of several forms, fields and buttons
  `_fill_form` finds is reduced to what comes of it. A time-out ends a request; that of
  `requests` is one per read, and a server that trickles bytes can take longer. What the
  external script does is one step, and a refusal it meets is recorded by nobody, in the
  model as in the code (`headless.py:273-305`): `KeepsPromise` is about the recorded ones.
* The watchdog's `_window(1)`, called "24h", which covers the current UTC day only
  (`watchdog.py:359`), and pushes that get lost (158): a report's wording and a best-effort
  transport.
* `cert.sh` and the renewal loop: chain and key are copied one after the other, and a
  crash or a reload in between pairs the new chain with the old key. The next run or
  boot copies both again; what Dovecot and Postfix make of the pair until then is theirs.
* Postfix's queue lies on no volume (`docker-compose.yml`): a container that is created
  anew loses what it held. `RelayQueue` restarts containers and does not recreate them.
* The restart loops of socat and Postfix, the login-socket permission loop, the iptables
  rules, Dovecot's configuration, image builds and the test suite: no state of their own.

## 7. Plan

Done: `Credentials`, `RelayQueue` on top of it, `Watchdog`, `VpnSupervisor`, `MailSync`,
`MailBoot`, `SpecialUse`, each with its theorems; then `HeadlessAuth` with `SignIn`, the
refinement of `Vault`, the clock that is set back, the subscription pass, and the type
and safety theorems that were open.

Since then the refinements of `TokenUse` and `Mailbox`, the proofs of
`ExpiresOnlyUnrefreshed` and `DailyWithinLifetime`, the counts of steps, and what can be
said where a statement of the code does not hold (`SettledForGood`,
`MissedOnlyAtIdleStart`).

What could follow: `HeadlessAuth` under `VpnSupervisor`, through the moment at which a
code is presented; an abstract outage ledger for `Watchdog`; two users in `MailSync`.
