--------------------------- MODULE VpnSupervisor ---------------------------
(***************************************************************************)
(* The tunnel supervisor of vpn/entrypoint.sh (its main loop, mint_token,  *)
(* run_tunnel and the refresh timer), with openconnect, the gateway's view *)
(* of the session and of the one-time codes, and restarts of the container *)
(* as its environment.                                                     *)
(*                                                                         *)
(* Time passes in ticks, only while the script sleeps or waits.  Every     *)
(* duration is a constant; ages and countdowns are kept instead of clock   *)
(* times and saturate where the script stops telling them apart, so the    *)
(* state space is finite without a bound on time.  The relays, the egress  *)
(* firewall and the profile set-up are left out.                           *)
(***************************************************************************)
EXTENDS Integers, FiniteSetsExt

CONSTANTS
    Window,             \* ticks a one-time code is valid (30 s)
    MIN_MINT_SPACING,   \* between the starts of two logins (32 s)
    VPN_MINT_BACKOFF,   \* pause after a failed login
    ReconnectPause,     \* pause before the tunnel is raised again
    ShortHold,          \* a tunnel that lasted less than this died at once (5 s)
    VPN_TOKEN_MAX_AGE,  \* a token this old is not used for a new tunnel (20 h)
    SessionLife,        \* the gateway ends a session at this age (24 h)
    Day, RefreshTimes,  \* ticks in a day; VPN_REFRESH_TIMES
    MaxReboots          \* bound: restarts of the container

ASSUME CodeAssumption ==
    /\ Window \in Nat \ {0} /\ MIN_MINT_SPACING \in Nat \ {0}
ASSUME PauseAssumption ==
    VPN_MINT_BACKOFF \in Nat /\ ReconnectPause \in Nat /\ ShortHold \in Nat \ {0}
ASSUME AgeAssumption ==
    /\ VPN_TOKEN_MAX_AGE \in Nat \ {0} /\ SessionLife \in Nat \ {0}
    /\ Day \in Nat \ {0} /\ RefreshTimes \subseteq 0 .. Day - 1 /\ RefreshTimes # {}
ASSUME RebootAssumption == MaxReboots \in Nat

VARIABLES
    tod, phase,    \* time of day; position in the one-time-code window
    pc, nap,       \* where the main loop is; ticks left of its sleep
    sinceMint,     \* ticks since LAST_MINT, up to MIN_MINT_SPACING
    cookie,        \* VPN_COOKIE is not empty
    tokenAge,      \* ticks since TOKEN_MINTED, up to VPN_TOKEN_MAX_AGE
    shortExits,    \* short_exits
    flag,          \* /tmp/proactive_refresh exists
    timer, refreshIn,  \* the refresh timer and its countdown
    held,          \* ticks since conn_start, up to ShortHold
    ocLog,         \* what openconnect ended with
    live,          \* gateway: it would take the token we hold
    sessionAge,    \* gateway: age of that session, up to SessionLife
    deadTries,     \* history: tunnels raised in a row from a token already dead, since
                   \* one of them lasted ShortHold
    spentBy,       \* gateway: the code of this window has been presented, by whom
    reused,        \* history: by whom codes had been presented that a login repeated
    told,          \* history: the script was told that its token is spent
    missed,        \* history: refresh times this session saw with the tunnel down
    reboots

clocks == <<tod, phase>>
token == <<cookie, tokenAge>>
tunnel == <<flag, timer, refreshIn, held, ocLog>>
gateway == <<live, sessionAge, spentBy>>
history == <<deadTries, reused, told, missed, reboots>>
vars == <<clocks, pc, nap, sinceMint, token, shortExits, tunnel, gateway, history>>

Steps == {"decide", "mint", "login", "connect", "up", "exited", "back"}
Ends == {"none", "rejected", "quiet"}

(* A login that failed; one that succeeded and presented its code at most
   MIN_MINT_SPACING - Window after its start, or later; one before a restart. *)
Spenders == {"failed", "prompt", "late", "before"}

TypeOK ==
    /\ tod \in 0 .. Day - 1 /\ phase \in 0 .. Window - 1
    /\ pc \in Steps /\ nap \in Nat
    /\ sinceMint \in 0 .. MIN_MINT_SPACING
    /\ cookie \in BOOLEAN /\ tokenAge \in 0 .. VPN_TOKEN_MAX_AGE
    /\ shortExits \in 0 .. 2
    /\ flag \in BOOLEAN /\ timer \in {"off", "armed", "touched", "done"}
    /\ refreshIn \in Nat /\ held \in 0 .. ShortHold /\ ocLog \in Ends
    /\ live \in BOOLEAN /\ sessionAge \in 0 .. SessionLife /\ spentBy \in Spenders \cup {"none"}
    /\ reused \subseteq Spenders /\ told \in BOOLEAN
    /\ deadTries \in 0 .. 4 /\ missed \in 0 .. Cardinality(RefreshTimes) /\ reboots \in 0 .. MaxReboots

Init ==
    /\ tod \in 0 .. Day - 1 /\ phase = tod % Window
    /\ pc = "decide" /\ nap = 0
    /\ sinceMint = MIN_MINT_SPACING
    /\ cookie = FALSE /\ tokenAge = 0
    /\ shortExits = 0
    /\ flag = FALSE /\ timer = "off" /\ refreshIn = 0 /\ held = 0 /\ ocLog = "none"
    /\ live = FALSE /\ sessionAge = 0 /\ spentBy = "none"
    /\ reused = {} /\ told = FALSE
    /\ deadTries = 0 /\ missed = 0 /\ reboots = 0

-----------------------------------------------------------------------------
(* Time. *)

UpTo(n, limit) == IF n < limit THEN n + 1 ELSE limit
Down(n) == IF n > 0 THEN n - 1 ELSE 0
Another(n) == UpTo(n, Cardinality(RefreshTimes))

(* The script sleeps, waits for the code to roll over, for the login, or for
   the tunnel to exit, as long as that takes; whatever is due is done before
   time goes on. *)
Idle ==
    \/ nap > 0
    \/ nap = 0 /\ pc = "mint" /\ sinceMint < MIN_MINT_SPACING
    \/ nap = 0 /\ pc = "login"
    \/ /\ nap = 0 /\ pc = "up"
       /\ ~(timer = "armed" /\ refreshIn = 0) /\ timer # "touched"

Tick ==
    /\ Idle
    /\ tod' = (IF tod = Day - 1 THEN 0 ELSE tod + 1)
    /\ phase' = (IF phase = Window - 1 THEN 0 ELSE phase + 1)
    /\ spentBy' = IF phase = Window - 1 THEN "none" ELSE spentBy
    /\ nap' = Down(nap)
    /\ sinceMint' = UpTo(sinceMint, MIN_MINT_SPACING)
    /\ tokenAge' = UpTo(tokenAge, VPN_TOKEN_MAX_AGE)
    /\ sessionAge' = UpTo(sessionAge, SessionLife)
    /\ live' = (live /\ sessionAge' < SessionLife)
    /\ refreshIn' = Down(refreshIn)
    /\ held' = UpTo(held, ShortHold)
    /\ deadTries' = IF pc = "up" /\ held' = ShortHold THEN 0 ELSE deadTries
    /\ missed' = IF tod' \in RefreshTimes /\ pc # "up"
                 THEN Another(missed) ELSE missed
    /\ UNCHANGED <<pc, cookie, shortExits, flag, timer, ocLog, reused, told, reboots>>

-----------------------------------------------------------------------------
(* 1. Make sure we hold a fresh-enough token. *)

At(step) == pc = step /\ nap = 0
Fresh == cookie /\ tokenAge < VPN_TOKEN_MAX_AGE

Decide ==
    /\ At("decide")
    /\ pc' = IF Fresh THEN "connect" ELSE "mint"
    /\ UNCHANGED <<clocks, nap, sinceMint, token, shortExits, tunnel, gateway, history>>

(* Mutant of LoginStart: mint_token does not wait for the code to roll over. *)
LoginStartAtOnce ==
    /\ At("mint")
    /\ sinceMint' = 0
    /\ pc' = "login"
    /\ UNCHANGED <<clocks, nap, token, shortExits, tunnel, gateway, history>>

(* mint_token: LAST_MINT is stamped when the login starts. *)
LoginStart ==
    /\ At("mint")
    /\ sinceMint >= MIN_MINT_SPACING
    /\ sinceMint' = 0
    /\ pc' = "login"
    /\ UNCHANGED <<clocks, nap, token, shortExits, tunnel, gateway, history>>

(* The sign-in reaches the code page and presents the code of this window. *)
PresentCode(by) ==
    /\ spentBy' = by
    /\ reused' = IF spentBy = "none" THEN reused ELSE reused \cup {spentBy}

LoginSucceeds ==
    /\ At("login")
    /\ spentBy = "none"
    /\ PresentCode(IF sinceMint + Window <= MIN_MINT_SPACING THEN "prompt" ELSE "late")
    /\ live' = TRUE /\ sessionAge' = 0
    /\ cookie' = TRUE /\ tokenAge' = 0
    /\ told' = FALSE /\ missed' = 0
    /\ pc' = "connect"
    /\ UNCHANGED <<clocks, nap, sinceMint, shortExits, tunnel, deadTries, reboots>>

(* The login fails before, at, or after the code page. *)
LoginFails ==
    /\ At("login")
    /\ PresentCode("failed") \/ UNCHANGED <<spentBy, reused>>
    /\ nap' = VPN_MINT_BACKOFF
    /\ pc' = "decide"
    /\ UNCHANGED <<clocks, sinceMint, token, shortExits, tunnel, live, sessionAge,
                   deadTries, told, missed, reboots>>

-----------------------------------------------------------------------------
(* 2. and 3.  Raise the tunnel, arm the refresh timer. *)

(* seconds_until_next_refresh: a time of day that is not later than now is
   tomorrow's. *)
Until(t) == IF t <= tod THEN t - tod + Day ELSE t - tod

(* Mutant of NextRefresh: only the last of VPN_REFRESH_TIMES counts, tomorrow. *)
NextRefreshTomorrow == Max({Day - tod + t : t \in RefreshTimes})

NextRefresh == Min({Until(t) : t \in RefreshTimes})

Connect ==
    /\ At("connect")
    /\ flag' = FALSE
    /\ timer' = "armed" /\ refreshIn' = NextRefresh
    /\ held' = 0 /\ ocLog' = "none"
    /\ deadTries' = IF live THEN 0 ELSE UpTo(deadTries, 4)
    /\ pc' = "up"
    /\ UNCHANGED <<clocks, nap, sinceMint, token, shortExits, gateway,
                   reused, told, missed, reboots>>

(* The gateway may end the session early. *)
GatewayEnds ==
    /\ At("up") /\ live
    /\ live' = FALSE
    /\ UNCHANGED <<clocks, pc, nap, sinceMint, token, shortExits, tunnel, sessionAge,
                   spentBy, history>>

(* openconnect loses its transport; or the gateway refuses a token it no longer
   takes, which openconnect reports in words the script knows, or not. *)
TunnelDrops ==
    /\ At("up")
    /\ pc' = "exited" /\ ocLog' = "quiet"
    /\ UNCHANGED <<clocks, nap, sinceMint, token, shortExits, flag, timer, refreshIn, held,
                   gateway, history>>

TunnelRejected ==
    /\ At("up")
    /\ ~live
    /\ pc' = "exited" /\ ocLog' = "rejected"
    /\ told' = TRUE
    /\ UNCHANGED <<clocks, nap, sinceMint, token, shortExits, flag, timer, refreshIn, held,
                   gateway, deadTries, reused, missed, reboots>>

(* The refresh timer: touch, then SIGTERM, on which openconnect logs out. *)
RefreshTouch ==
    /\ timer = "armed" /\ refreshIn = 0
    /\ pc \in {"up", "exited"}
    /\ flag' = TRUE /\ timer' = "touched"
    /\ UNCHANGED <<clocks, pc, nap, sinceMint, token, shortExits, refreshIn, held, ocLog,
                   gateway, history>>

RefreshKill ==
    /\ timer = "touched"
    /\ timer' = "done"
    /\ IF pc = "up"
       THEN /\ live' = FALSE /\ told' = TRUE
            /\ pc' = "exited" /\ ocLog' = "quiet"
       ELSE UNCHANGED <<live, told, pc, ocLog>>
    /\ UNCHANGED <<clocks, nap, sinceMint, token, shortExits, flag, refreshIn, held,
                   sessionAge, spentBy, deadTries, reused, missed, reboots>>

(* 4. wait returns; the timer, wherever it is, is killed. *)
WaitReturns ==
    /\ At("exited")
    /\ timer' = "off" /\ refreshIn' = 0
    /\ pc' = "back"
    /\ missed' = IF timer = "armed" /\ refreshIn = 0 THEN Another(missed) ELSE missed
    /\ UNCHANGED <<clocks, nap, sinceMint, token, shortExits, flag, held, ocLog, gateway,
                   deadTries, reused, told, reboots>>

-----------------------------------------------------------------------------
(* 5. Decide how to come back. *)

(* Mutant of ComeBack: the loop comes back to raising the tunnel. *)
ComeBackUnchecked(keep, exits, pause) ==
    /\ pc' = "connect" /\ nap' = pause
    /\ cookie' = (cookie /\ keep) /\ shortExits' = exits
    /\ UNCHANGED <<clocks, sinceMint, tokenAge, tunnel, gateway, history>>

ComeBack(keep, exits, pause) ==
    /\ pc' = "decide" /\ nap' = pause
    /\ cookie' = (cookie /\ keep) /\ shortExits' = exits
    /\ UNCHANGED <<clocks, sinceMint, tokenAge, tunnel, gateway, history>>

AfterRefresh == At("back") /\ flag /\ ComeBack(FALSE, 0, ReconnectPause)

AfterRejection ==
    /\ At("back") /\ ~flag
    /\ ocLog = "rejected"
    /\ ComeBack(FALSE, 0, ReconnectPause)

(* Mutants of AfterShortExit: the safety net is reset too early, or is missing a
   bound. *)
AfterShortExitForgets ==
    /\ At("back") /\ ~flag /\ ocLog # "rejected"
    /\ held < ShortHold
    /\ ComeBack(TRUE, 0, ReconnectPause)
AfterShortExitLate ==
    /\ At("back") /\ ~flag /\ ocLog # "rejected"
    /\ held < ShortHold
    /\ IF shortExits > 2 THEN ComeBack(FALSE, 0, ReconnectPause)
       ELSE ComeBack(TRUE, shortExits + 1, ReconnectPause)

AfterShortExit ==
    /\ At("back") /\ ~flag /\ ocLog # "rejected"
    /\ held < ShortHold
    /\ IF shortExits = 2 THEN ComeBack(FALSE, 0, ReconnectPause)
       ELSE ComeBack(TRUE, shortExits + 1, ReconnectPause)

AfterDrop ==
    /\ At("back") /\ ~flag /\ ocLog # "rejected"
    /\ held >= ShortHold
    /\ ComeBack(TRUE, 0, ReconnectPause)

-----------------------------------------------------------------------------
(* The container is stopped (the session is logged out, if the trap gets to
   run) or killed, and started again; LAST_MINT and the token are forgotten. *)
Reboot ==
    /\ reboots < MaxReboots
    /\ reboots' = reboots + 1
    /\ pc' = "decide" /\ nap' = 0
    /\ sinceMint' = MIN_MINT_SPACING
    /\ cookie' = FALSE /\ tokenAge' = 0 /\ shortExits' = 0
    /\ flag' = FALSE /\ timer' = "off" /\ refreshIn' = 0 /\ held' = 0 /\ ocLog' = "none"
    /\ live' = FALSE /\ told' = FALSE /\ missed' = 0 /\ deadTries' = 0
    /\ spentBy' = IF spentBy = "none" THEN "none" ELSE "before"
    /\ UNCHANGED <<clocks, sessionAge, reused>>

Script ==
    \/ Decide \/ LoginStart \/ Connect \/ WaitReturns
    \/ AfterRefresh \/ AfterRejection \/ AfterShortExit \/ AfterDrop
Timer == RefreshTouch \/ RefreshKill
Login == LoginSucceeds \/ LoginFails
Next ==
    \/ Tick \/ Script \/ Timer \/ Login
    \/ TunnelDrops \/ TunnelRejected \/ GatewayEnds \/ Reboot

Spec == Init /\ [][Next]_vars

(* The processes run and time passes, openconnect ends a tunnel that the gateway
   no longer serves, and sign-ins do not fail for ever. *)
Fairness ==
    /\ WF_vars(~live /\ (TunnelDrops \/ TunnelRejected))
    /\ WF_vars(Tick) /\ WF_vars(Script) /\ WF_vars(Timer) /\ WF_vars(Login)
    /\ SF_vars(LoginSucceeds)
FairSpec == Spec /\ Fairness

-----------------------------------------------------------------------------
(* Properties. *)

(* Tokens are used as TokenUse promises: a token the script was told is spent (its
   session was logged out for a planned refresh, or openconnect reported it
   rejected) raises no further tunnel, nor does one older than VPN_TOKEN_MAX_AGE;
   and one that is dead without its knowing (openconnect words it in a way the
   patterns miss) raises three at most that end at once, also when a drop, the
   timer's touch and its kill come in any order, whatever was counted before it
   died.  An attempt that lasted five seconds begins the count anew. *)
TokenState ==
    IF ~cookie THEN "none" ELSE IF told THEN "spent" ELSE IF live THEN "good" ELSE "dead"
TooOld == tokenAge >= VPN_TOKEN_MAX_AGE
Lasting == pc = "up" /\ held >= ShortHold
Tries == IF cookie /\ ~live THEN deadTries ELSE 0
Use == INSTANCE TokenUse WITH
    token <- TokenState, old <- TooOld, up <- pc = "up", lasting <- Lasting,
    tries <- Tries, Limit <- 3
TokenUsedWell == Use!Spec

(* The gateway's hard expiry cuts a tunnel off only if, while its session lived,
   the tunnel happened to be down at every refresh time: through drops, failed
   logins and reconnects from an old token, the schedule and VPN_TOKEN_MAX_AGE
   between them renew the session first (a refresh due in the tick in which the
   session ends is in time). *)
ExpiresOnlyUnrefreshed ==
    pc = "up" /\ sessionAge = SessionLife /\ refreshIn > 0
        => missed = Cardinality(RefreshTimes)

(* A login presents a code that another has presented only if that one succeeded
   and had presented it late, beyond what MIN_MINT_SPACING leaves over, or came
   before a restart of the container: never that of a prompt login (mint_token:
   "Never present a one-time code twice"), nor that of a failed one
   (VPN_MINT_BACKOFF: "a retry never reuses a code the gateway just saw"), so that a
   code presented twice costs one login and no more.  Whether one sign-in repeats
   its own code is HeadlessAuth's matter. *)
CodesSpacedOut == reused \subseteq {"late", "before"}

(* The tunnel comes back: whatever the gateway does with the token and however
   openconnect words it, the script is again and again up with a live session. *)
TunnelComesBack == []<>(pc = "up" /\ live)
=============================================================================
