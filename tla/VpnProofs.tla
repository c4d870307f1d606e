----------------------------- MODULE VpnProofs -----------------------------
(***************************************************************************)
(* What holds of the tunnel supervisor for every value of its constants:   *)
(* tokens are used as TokenUse promises (one known to be spent is never    *)
(* used again, one that is dead without the script's knowing is given up   *)
(* after three tries in a row that end at once); a one-time code is        *)
(* presented again only after a login that succeeded late or came before a *)
(* restart, provided the pause after a failed login outlasts a code; and   *)
(* sessions are renewed before the gateway ends them, provided they last   *)
(* for a day.                                                              *)
(***************************************************************************)
EXTENDS VpnSupervisor, OrderLemmas

(* A token the script was told is spent is on its way out: while the loop has yet
   to decide, a marker or the log says so; after that the token is gone. *)
TokenSettled ==
    /\ timer = "touched" => flag
    /\ timer \in {"armed", "touched"} => pc \in {"up", "exited"}
    /\ pc \in {"connect", "up"} => ~told
    /\ told /\ pc \in {"exited", "back"} => flag \/ ocLog = "rejected"
    /\ told /\ pc \in {"decide", "mint", "login"} => ~cookie

LEMMA SettledInit == Init => TokenSettled
  BY DEF Init, TokenSettled

(* Each step of the loop, the timer, the login and the gateway keeps it. *)
LEMMA SettledNext == TokenSettled /\ [Next]_vars => TokenSettled'
<1> SUFFICES ASSUME TokenSettled, [Next]_vars PROVE TokenSettled'
  OBVIOUS
<1>1. CASE Tick
  BY <1>1 DEF Tick, TokenSettled, history
<1>2. CASE Script
  <2>1. CASE Decide
    BY <2>1 DEF Decide, At, Fresh, TokenSettled, token, tunnel, history
  <2>2. CASE LoginStart
    BY <2>2 DEF LoginStart, At, TokenSettled, token, tunnel, history
  <2>3. CASE Connect
    BY <2>3 DEF Connect, At, TokenSettled, token
  <2>4. CASE WaitReturns
    BY <2>4 DEF WaitReturns, At, TokenSettled, token
  <2>5. CASE AfterRefresh
    BY <2>5 DEF AfterRefresh, ComeBack, At, TokenSettled, tunnel, history
  <2>6. CASE AfterRejection
    BY <2>6 DEF AfterRejection, ComeBack, At, TokenSettled, tunnel, history
  <2>7. CASE AfterShortExit
    BY <2>7 DEF AfterShortExit, ComeBack, At, TokenSettled, tunnel, history
  <2>8. CASE AfterDrop
    BY <2>8 DEF AfterDrop, ComeBack, At, TokenSettled, tunnel, history
  <2> QED BY <1>2, <2>1, <2>2, <2>3, <2>4, <2>5, <2>6, <2>7, <2>8 DEF Script
<1>3. CASE RefreshTouch
  BY <1>3 DEF RefreshTouch, TokenSettled, token, history
<1>4. CASE RefreshKill
  BY <1>4 DEF RefreshKill, TokenSettled, token
<1>5. CASE LoginSucceeds
  BY <1>5 DEF LoginSucceeds, At, TokenSettled, tunnel
<1>6. CASE LoginFails
  BY <1>6 DEF LoginFails, At, TokenSettled, token, tunnel
<1>7. CASE TunnelDrops
  BY <1>7 DEF TunnelDrops, At, TokenSettled, token, history
<1>8. CASE TunnelRejected
  BY <1>8 DEF TunnelRejected, At, TokenSettled, token
<1>9. CASE GatewayEnds
  BY <1>9 DEF GatewayEnds, At, TokenSettled, token, tunnel, history
<1>10. CASE Reboot
  BY <1>10 DEF Reboot, TokenSettled
<1>11. CASE UNCHANGED vars
  BY <1>11 DEF vars, TokenSettled, token, tunnel, history
<1> QED
  BY <1>1, <1>2, <1>3, <1>4, <1>5, <1>6, <1>7, <1>8, <1>9, <1>10, <1>11
     DEF Next, Timer, Login

(* A token the script was told is spent raises no further tunnel: the loop of
   vpn/entrypoint.sh forgets it on every way back to the connect, in whatever
   order the drop, the timer's touch and its kill come. *)
THEOREM SpentTokenRetired == Spec => [][Connect => ~told]_vars
<1>1. TokenSettled /\ [Next]_vars => [Connect => ~told]_vars
  BY DEF TokenSettled, Connect, At
<1> QED BY <1>1, SettledInit, SettledNext, PTL DEF Spec

-----------------------------------------------------------------------------
(* Types. *)

(* The number of refresh times is a number. *)
LEMMA TimesCounted == IsFiniteSet(RefreshTimes) /\ Cardinality(RefreshTimes) \in Nat
<1>1. IsFiniteSet(0 .. Day - 1)
  BY AgeAssumption, FS_Interval
<1>2. IsFiniteSet(RefreshTimes)
  BY <1>1, AgeAssumption, FS_Subset
<1> QED BY <1>2, FS_CardinalityType

(* seconds_until_next_refresh yields a duration: the set of waits is finite and
   not empty, so it has a least element. *)
LEMMA NextRefreshTyped == ASSUME tod \in 0 .. Day - 1 PROVE NextRefresh \in Nat
<1> DEFINE W == {Until(t) : t \in RefreshTimes}
<1>1. W \subseteq 0 .. 2 * Day /\ W # {}
  <2>1. \A t \in RefreshTimes : Until(t) \in 0 .. 2 * Day
    BY tod \in 0 .. Day - 1, AgeAssumption DEF Until
  <2> QED BY <2>1, AgeAssumption
<1>2. IsFiniteSet(0 .. 2 * Day)
  BY AgeAssumption, FS_Interval
<1>3. IsFiniteSet(W) /\ W \subseteq Nat
  <2>1. 0 .. 2 * Day \subseteq Nat
    BY AgeAssumption
  <2> HIDE DEF W
  <2> QED BY <1>1, <1>2, <2>1, FS_Subset
<1> HIDE DEF W
<1>4. \E m \in W : \A e \in W : m <= e
  BY <1>1, <1>3, LeastElement
<1>5. Min(W) \in W
  BY <1>4 DEF Min
<1> QED BY <1>3, <1>5 DEF NextRefresh, W

(* The loop pauses before its next decision and nowhere else. *)
Rested == pc # "decide" => nap = 0

LEMMA RestedAlways == (Init => Rested) /\ (Rested /\ [Next]_vars => Rested')
<1>1. Init => Rested
  BY DEF Init, Rested
<1>2. ASSUME Rested, Next PROVE Rested'
  <2>1. CASE Tick
    BY <1>2, <2>1 DEF Tick, Rested, Down
  <2>2. CASE Script
    BY <1>2, <2>2
       DEF Script, Decide, LoginStart, Connect, WaitReturns, AfterRefresh, AfterRejection,
           AfterShortExit, AfterDrop, ComeBack, At, Rested
  <2>3. CASE Timer
    BY <1>2, <2>3 DEF Timer, RefreshTouch, RefreshKill, Rested
  <2>4. CASE Login \/ TunnelDrops \/ TunnelRejected \/ GatewayEnds \/ Reboot
    BY <1>2, <2>4
       DEF Login, LoginSucceeds, LoginFails, TunnelDrops, TunnelRejected, GatewayEnds,
           Reboot, At, Rested
  <2> QED BY <1>2, <2>1, <2>2, <2>3, <2>4 DEF Next
<1>3. Rested /\ UNCHANGED vars => Rested'
  BY DEF Rested, vars
<1> QED BY <1>1, <1>2, <1>3

LEMMA TypesInit == Init => TypeOK
<1> SUFFICES ASSUME Init PROVE TypeOK
  OBVIOUS
<1>1. phase \in 0 .. Window - 1
  <2>1. tod \in Nat /\ phase = tod % Window
    BY AgeAssumption DEF Init
  <2> QED BY <2>1, CodeAssumption
<1>2. missed \in 0 .. Cardinality(RefreshTimes)
  BY TimesCounted DEF Init
<1>3. /\ cookie \in BOOLEAN /\ flag \in BOOLEAN /\ live \in BOOLEAN
      /\ told \in BOOLEAN
  BY Zenon DEF Init
<1>4. /\ tod \in 0 .. Day - 1 /\ pc \in Steps /\ nap \in Nat
      /\ sinceMint \in 0 .. MIN_MINT_SPACING /\ tokenAge \in 0 .. VPN_TOKEN_MAX_AGE /\ shortExits \in 0 .. 2
      /\ timer \in {"off", "armed", "touched", "done"} /\ refreshIn \in Nat
      /\ held \in 0 .. ShortHold /\ ocLog \in Ends /\ sessionAge \in 0 .. SessionLife
      /\ deadTries \in 0 .. 4 /\ reboots \in 0 .. MaxReboots
      /\ spentBy \in Spenders \cup {"none"} /\ reused \subseteq Spenders
  BY CodeAssumption, PauseAssumption, AgeAssumption, RebootAssumption DEF Init, Steps, Ends
<1> QED BY <1>1, <1>2, <1>3, <1>4, Zenon DEF TypeOK

(* Time passing keeps every clock within its range. *)
LEMMA TypesTick == TypeOK /\ Rested /\ Tick => TypeOK'
<1> SUFFICES ASSUME TypeOK, Rested, Tick PROVE TypeOK'
  OBVIOUS
<1>1. tod' \in 0 .. Day - 1 /\ phase' \in 0 .. Window - 1
  BY AgeAssumption, CodeAssumption DEF Tick, TypeOK
<1>2. nap' \in Nat /\ refreshIn' \in Nat
  BY DEF Tick, TypeOK, Down
<1>3. /\ sinceMint' \in 0 .. MIN_MINT_SPACING /\ tokenAge' \in 0 .. VPN_TOKEN_MAX_AGE
      /\ sessionAge' \in 0 .. SessionLife /\ held' \in 0 .. ShortHold
  BY CodeAssumption, PauseAssumption, AgeAssumption DEF Tick, TypeOK, UpTo
<1>4. deadTries' \in 0 .. 4 /\ spentBy' \in Spenders \cup {"none"}
  BY DEF Tick, TypeOK
<1>5. missed' \in 0 .. Cardinality(RefreshTimes)
  BY TimesCounted DEF Tick, TypeOK, Another, UpTo
<1>6. live' \in BOOLEAN
  BY Zenon DEF Tick
<1>7. UNCHANGED <<pc, cookie, shortExits, flag, timer, ocLog, reused, told, reboots>>
  BY DEF Tick
<1> QED BY <1>1, <1>2, <1>3, <1>4, <1>5, <1>6, <1>7 DEF TypeOK

(* So does every other step. *)
LEMMA TypesNext == TypeOK /\ Rested /\ [Next]_vars => TypeOK'
<1> SUFFICES ASSUME TypeOK, Rested, [Next]_vars PROVE TypeOK'
  OBVIOUS
<1> USE CodeAssumption, PauseAssumption, AgeAssumption, RebootAssumption
    DEF Steps, Ends
<1>1. CASE Tick
  BY <1>1, TypesTick
<1>2. CASE Script
  <2>1. CASE Decide
    BY <2>1 DEF Decide, At, TypeOK, clocks, token, tunnel, gateway, history
  <2>2. CASE LoginStart
    BY <2>2 DEF LoginStart, At, TypeOK, clocks, token, tunnel, gateway, history
  <2>3. CASE Connect
    <3>1. NextRefresh \in Nat
      BY NextRefreshTyped DEF TypeOK
    <3>2. deadTries' \in 0 .. 4
      BY <2>3 DEF Connect, TypeOK, UpTo
    <3>3. /\ flag' = FALSE /\ timer' = "armed" /\ refreshIn' \in Nat
          /\ held' = 0 /\ ocLog' = "none" /\ pc' = "up"
          /\ UNCHANGED <<clocks, nap, sinceMint, token, shortExits, gateway,
                         reused, told, missed, reboots>>
      BY <2>3, <3>1 DEF Connect
    <3>4. flag' \in BOOLEAN
      BY <3>3, Zenon
    <3> QED BY <3>2, <3>3, <3>4 DEF TypeOK, clocks, token, gateway
  <2>4. CASE WaitReturns
    <3>1. missed' \in 0 .. Cardinality(RefreshTimes)
      BY <2>4, TimesCounted DEF WaitReturns, TypeOK, Another, UpTo
    <3> QED BY <2>4, <3>1 DEF WaitReturns, At, TypeOK, clocks, token, gateway
  <2>5. ASSUME UNCHANGED <<clocks, sinceMint, tokenAge, tunnel, gateway, history>>,
               pc' = "decide", nap' = ReconnectPause,
               cookie' \in BOOLEAN, shortExits' \in 0 .. 2
        PROVE  TypeOK'
    BY <2>5 DEF TypeOK, clocks, tunnel, gateway, history
  <2>6. CASE AfterRefresh \/ AfterRejection \/ AfterDrop
    <3>1. cookie' \in BOOLEAN
      BY <2>6, Zenon DEF AfterRefresh, AfterRejection, AfterDrop, ComeBack
    <3> QED BY <2>5, <2>6, <3>1 DEF AfterRefresh, AfterRejection, AfterDrop, ComeBack
  <2>7. CASE AfterShortExit
    <3>1. cookie' \in BOOLEAN
      BY <2>7, Zenon DEF AfterShortExit, ComeBack
    <3>2. shortExits' \in 0 .. 2
      BY <2>7 DEF AfterShortExit, ComeBack, TypeOK
    <3> QED BY <2>5, <2>7, <3>1, <3>2 DEF AfterShortExit, ComeBack
  <2> QED BY <1>2, <2>1, <2>2, <2>3, <2>4, <2>6, <2>7 DEF Script
<1>3. CASE RefreshTouch
  BY <1>3 DEF RefreshTouch, TypeOK, clocks, token, gateway, history
<1>4. CASE RefreshKill
  BY <1>4 DEF RefreshKill, TypeOK, clocks, token
<1>5. CASE LoginSucceeds
  <2>1. reused' \subseteq Spenders /\ spentBy' \in Spenders
    BY <1>5 DEF LoginSucceeds, PresentCode, TypeOK, Spenders
  <2>2. missed' \in 0 .. Cardinality(RefreshTimes)
    BY <1>5, TimesCounted DEF LoginSucceeds
  <2>3. live' \in BOOLEAN /\ cookie' \in BOOLEAN /\ told' \in BOOLEAN
    BY <1>5, Zenon DEF LoginSucceeds
  <2> QED BY <1>5, <2>1, <2>2, <2>3 DEF LoginSucceeds, At, TypeOK, clocks, tunnel
<1>6. CASE LoginFails
  <2>1. reused' \subseteq Spenders /\ spentBy' \in Spenders \cup {"none"}
    BY <1>6 DEF LoginFails, PresentCode, TypeOK, Spenders
  <2> QED BY <1>6, <2>1 DEF LoginFails, At, TypeOK, clocks, token, tunnel
<1>7. CASE TunnelDrops \/ TunnelRejected \/ GatewayEnds
  BY <1>7 DEF TunnelDrops, TunnelRejected, GatewayEnds, At, TypeOK,
              clocks, token, tunnel, gateway, history
<1>8. CASE Reboot
  <2>1. missed' \in 0 .. Cardinality(RefreshTimes)
    BY <1>8, TimesCounted DEF Reboot
  <2>2. reboots' \in 0 .. MaxReboots
    BY <1>8 DEF Reboot, TypeOK
  <2>3. UNCHANGED <<clocks, sessionAge, reused>> /\ spentBy' \in Spenders \cup {"none"}
    BY <1>8 DEF Reboot, Spenders
  <2>4. /\ pc' = "decide" /\ nap' = 0 /\ sinceMint' = MIN_MINT_SPACING
        /\ cookie' = FALSE /\ tokenAge' = 0 /\ shortExits' = 0
        /\ flag' = FALSE /\ timer' = "off" /\ refreshIn' = 0 /\ held' = 0 /\ ocLog' = "none"
        /\ live' = FALSE /\ told' = FALSE /\ deadTries' = 0
    BY <1>8 DEF Reboot
  <2>5. /\ cookie' \in BOOLEAN /\ flag' \in BOOLEAN
        /\ live' \in BOOLEAN /\ told' \in BOOLEAN
    BY <2>4, Zenon
  <2> QED BY <2>1, <2>2, <2>3, <2>4, <2>5 DEF TypeOK, clocks
<1>9. CASE UNCHANGED vars
  BY <1>9 DEF vars, TypeOK, clocks, token, tunnel, gateway, history
<1> QED
  BY <1>1, <1>2, <1>3, <1>4, <1>5, <1>6, <1>7, <1>8, <1>9 DEF Next, Timer, Login

(* The supervisor's variables keep their ranges, for every schedule and every
   duration: no short exit is counted beyond the third. *)
THEOREM VpnTyped == Spec => []TypeOK
<1> QED BY TypesInit, TypesNext, RestedAlways, PTL DEF Spec

-----------------------------------------------------------------------------
(* One-time codes. *)

(* What spaces the codes: the code of a prompt login is over before the spacing lets
   the next one start, that of a failed login before its pause is. *)
CodeSpaced ==
    /\ CodesSpacedOut
    /\ spentBy = "prompt" => pc # "login" /\ sinceMint <= MIN_MINT_SPACING + phase - Window
    /\ spentBy = "failed" => pc = "decide" /\ nap >= Window - phase

(* "Kept above the 30s one-time-code window". *)
LongBackoff == VPN_MINT_BACKOFF >= Window

LEMMA SpacedInit == Init => CodeSpaced
  BY DEF Init, CodeSpaced, CodesSpacedOut

(* Time brings the roll-over as near as the end of the pause and of the spacing. *)
LEMMA SpacedTick == ASSUME TypeOK, CodeSpaced, Tick PROVE CodeSpaced'
<1>1. /\ phase \in 0 .. Window - 1 /\ nap \in Nat /\ sinceMint \in 0 .. MIN_MINT_SPACING
      /\ UNCHANGED <<pc, reused>>
  BY DEF TypeOK, Tick
<1>2. CASE phase = Window - 1
  <2>1. spentBy' = "none"
    BY <1>2 DEF Tick
  <2> QED BY <1>1, <2>1 DEF CodeSpaced, CodesSpacedOut
<1>3. CASE phase # Window - 1
  <2>1. spentBy' = spentBy /\ phase' = phase + 1
    BY <1>3 DEF Tick
  <2>2. sinceMint' \in Nat /\ sinceMint' <= sinceMint + 1
    BY <1>1, CodeAssumption DEF Tick, UpTo
  <2>3. nap' \in Nat /\ (nap > 0 => nap' = nap - 1)
    BY <1>1 DEF Tick, Down
  <2>4. /\ phase \in Nat /\ phase + 1 <= Window - 1 /\ Window \in Nat /\ MIN_MINT_SPACING \in Nat
        /\ sinceMint \in Nat /\ nap \in Nat
    BY <1>1, <1>3, CodeAssumption
  <2>5. spentBy = "prompt" => sinceMint' <= MIN_MINT_SPACING + phase' - Window
    <3>1. CASE spentBy = "prompt"
      <4>1. sinceMint <= MIN_MINT_SPACING + phase - Window
        BY <3>1 DEF CodeSpaced
      <4>2. phase' = phase + 1
        BY <2>1
      <4> QED BY <2>2, <2>4, <4>1, <4>2
    <3> QED BY <3>1
  <2>6. spentBy = "failed" => nap' >= Window - phase'
    <3>1. CASE spentBy = "failed"
      <4>1. nap >= Window - phase
        BY <3>1 DEF CodeSpaced
      <4>2. phase' = phase + 1
        BY <2>1
      <4> QED BY <2>3, <2>4, <4>1, <4>2
    <3> QED BY <3>1
  <2> QED BY <1>1, <2>1, <2>5, <2>6 DEF CodeSpaced, CodesSpacedOut
<1> QED BY <1>2, <1>3

LEMMA SpacedNext ==
    ASSUME LongBackoff, TypeOK, Rested, CodeSpaced, [Next]_vars PROVE CodeSpaced'
<1>0. /\ phase \in 0 .. Window - 1 /\ nap \in Nat /\ sinceMint \in 0 .. MIN_MINT_SPACING
      /\ Window \in Nat /\ MIN_MINT_SPACING \in Nat
      /\ spentBy \in Spenders \cup {"none"}
  BY CodeAssumption DEF TypeOK
<1>1. CASE Tick
  BY <1>1, SpacedTick
<1>2. nap = 0 => spentBy # "failed"
  BY <1>0 DEF CodeSpaced
<1>3. CASE LoginStart
  <2>1. sinceMint >= MIN_MINT_SPACING /\ nap = 0 /\ UNCHANGED <<phase, spentBy, reused>>
    BY <1>3 DEF LoginStart, At, clocks, gateway, history
  <2>2. spentBy \notin {"prompt", "failed"}
    BY <1>0, <1>2, <2>1 DEF CodeSpaced
  <2> QED BY <2>1, <2>2 DEF CodeSpaced, CodesSpacedOut
<1>4. CASE LoginSucceeds
  <2>1. /\ spentBy = "none" /\ pc' = "connect" /\ UNCHANGED <<phase, sinceMint>>
        /\ PresentCode(IF sinceMint + Window <= MIN_MINT_SPACING THEN "prompt" ELSE "late")
    BY <1>4 DEF LoginSucceeds, clocks
  <2>2. /\ reused' = reused /\ spentBy' \in {"prompt", "late"}
        /\ spentBy' = "prompt" => sinceMint + Window <= MIN_MINT_SPACING
    BY <2>1 DEF PresentCode
  <2> QED BY <1>0, <2>1, <2>2 DEF CodeSpaced, CodesSpacedOut
<1>5. CASE LoginFails
  <2>1. /\ pc = "login" /\ pc' = "decide" /\ nap = 0 /\ nap' = VPN_MINT_BACKOFF
        /\ phase' = phase
        /\ PresentCode("failed") \/ UNCHANGED <<spentBy, reused>>
    BY <1>5 DEF LoginFails, At, clocks
  <2>2. spentBy \in {"none", "late", "before"}
    BY <1>0, <1>2, <2>1 DEF CodeSpaced, Spenders
  <2>3. reused' \subseteq {"late", "before"} /\ spentBy' \in {spentBy, "failed"}
    BY <2>1, <2>2 DEF PresentCode, CodeSpaced, CodesSpacedOut
  <2>4. nap' >= Window - phase'
    BY <1>0, <2>1, LongBackoff, PauseAssumption DEF LongBackoff
  <2> QED BY <2>1, <2>2, <2>3, <2>4 DEF CodeSpaced, CodesSpacedOut
<1>6. CASE Reboot
  <2>1. spentBy' \in {"none", "before"} /\ reused' = reused
    BY <1>6 DEF Reboot
  <2> QED BY <2>1 DEF CodeSpaced, CodesSpacedOut
<1>7. ASSUME UNCHANGED <<phase, sinceMint, spentBy, reused>>,
             UNCHANGED <<pc, nap>> \/ (nap = 0 /\ pc' # "login")
      PROVE  CodeSpaced'
  BY <1>2, <1>7 DEF CodeSpaced, CodesSpacedOut
<1>8. CASE Script /\ ~LoginStart
  BY <1>7, <1>8
     DEF Script, Decide, Connect, WaitReturns, AfterRefresh, AfterRejection, AfterShortExit,
         AfterDrop, ComeBack, At, clocks, gateway, history
<1>9. CASE Timer
  <2>1. pc \in {"up", "exited"} => nap = 0
    BY DEF Rested
  <2> QED BY <1>7, <1>9, <2>1 DEF Timer, RefreshTouch, RefreshKill, clocks, gateway, history
<1>10. CASE TunnelDrops \/ TunnelRejected \/ GatewayEnds
  BY <1>7, <1>10 DEF TunnelDrops, TunnelRejected, GatewayEnds, At, clocks, gateway, history
<1>11. CASE UNCHANGED vars
  BY <1>7, <1>11 DEF vars, clocks, gateway, history
<1> QED
  BY <1>1, <1>3, <1>4, <1>5, <1>6, <1>8, <1>9, <1>10, <1>11 DEF Next, Login

(* However long a login takes and whenever the container restarts, for every spacing,
   window, schedule and token age: only the code of a login that succeeded late, or
   that came before a restart, is ever presented again.  Of the constants it needs
   that the pause after a failed login is no shorter than the window of a code, as
   it is in the script (35 and 30 seconds). *)
THEOREM CodesKeptApart == ASSUME LongBackoff PROVE Spec => []CodesSpacedOut
<1>1. CodeSpaced => CodesSpacedOut
  BY DEF CodeSpaced
<1>2. TypeOK /\ Rested /\ CodeSpaced /\ [Next]_vars => CodeSpaced'
  BY LongBackoff, SpacedNext
<1> QED BY <1>1, <1>2, SpacedInit, TypesInit, TypesNext, RestedAlways, PTL DEF Spec

-----------------------------------------------------------------------------
(* Dead tokens. *)

(* While the loop holds a token, every tunnel raised in a row from it once it was
   dead, since one of them lasted, has been counted as a short exit, the one that is
   up or not yet judged excepted; and that one has lasted less than ShortHold. *)
DeadCounted ==
    /\ deadTries \in 0 .. 3
    /\ pc \in {"up", "exited", "back"} =>
         deadTries <= shortExits + 1 /\ (deadTries > 0 => held < ShortHold)
    /\ pc = "connect" /\ ~live => deadTries <= shortExits
    /\ pc \in {"decide", "mint", "login"} /\ cookie => deadTries <= shortExits

LEMMA DeadInit == Init => DeadCounted
  BY DEF Init, DeadCounted

LEMMA DeadNext == TypeOK /\ Rested /\ DeadCounted /\ [Next]_vars => DeadCounted'
<1> SUFFICES ASSUME TypeOK, Rested, DeadCounted, [Next]_vars PROVE DeadCounted'
  OBVIOUS
<1>0. shortExits \in 0 .. 2 /\ held \in Nat /\ ShortHold \in Nat \ {0}
  BY PauseAssumption DEF TypeOK
<1>1. CASE Tick
  <2>1. pc \in {"exited", "back", "connect"} => FALSE
    BY <1>1 DEF Tick, Idle, Rested
  <2>2. pc = "up" /\ deadTries' > 0 => held' < ShortHold
    BY <1>0, <1>1 DEF Tick, TypeOK, UpTo
  <2>3. UNCHANGED <<pc, cookie, shortExits>> /\ deadTries' \in {deadTries, 0}
    BY <1>1 DEF Tick
  <2> QED BY <1>0, <2>1, <2>2, <2>3 DEF DeadCounted
<1>2. CASE Script
  <2>1. CASE Decide
    BY <1>0, <2>1 DEF Decide, At, Fresh, DeadCounted, token, tunnel, gateway, history
  <2>2. CASE LoginStart
    BY <2>2 DEF LoginStart, At, DeadCounted, token, tunnel, gateway, history
  <2>3. CASE Connect
    <3>1. pc = "connect" /\ pc' = "up" /\ held' = 0 /\ shortExits' = shortExits
      BY <2>3 DEF Connect, At
    <3>2. CASE live
      BY <1>0, <2>3, <3>1, <3>2 DEF Connect, DeadCounted
    <3>3. CASE ~live
      <4>1. deadTries' = deadTries + 1 /\ deadTries <= shortExits /\ deadTries \in Nat
        BY <1>0, <2>3, <3>1, <3>3 DEF Connect, DeadCounted, UpTo
      <4> QED BY <1>0, <3>1, <4>1 DEF DeadCounted
    <3> QED BY <3>2, <3>3
  <2>4. CASE WaitReturns
    BY <2>4 DEF WaitReturns, At, DeadCounted, token, gateway
  <2>5. CASE AfterRefresh \/ AfterRejection
    <3>1. ~cookie' /\ pc' = "decide" /\ deadTries' = deadTries
      BY <2>5 DEF AfterRefresh, AfterRejection, ComeBack, history
    <3> QED BY <3>1 DEF DeadCounted
  <2>6. CASE AfterShortExit
    <3>1. /\ pc = "back" /\ pc' = "decide" /\ deadTries' = deadTries
          /\ shortExits' = shortExits + 1 \/ ~cookie'
      BY <2>6 DEF AfterShortExit, ComeBack, At, history
    <3> QED BY <1>0, <3>1 DEF DeadCounted
  <2>7. CASE AfterDrop
    <3>1. /\ pc = "back" /\ pc' = "decide" /\ deadTries' = deadTries
          /\ shortExits' = 0 /\ held >= ShortHold
      BY <2>7 DEF AfterDrop, ComeBack, At, history
    <3> QED BY <1>0, <3>1 DEF DeadCounted
  <2> QED BY <1>2, <2>1, <2>2, <2>3, <2>4, <2>5, <2>6, <2>7 DEF Script
<1>3. CASE Timer
  BY <1>3 DEF Timer, RefreshTouch, RefreshKill, DeadCounted, token, gateway, history
<1>4. CASE Login
  <2>1. CASE LoginSucceeds
    BY <2>1 DEF LoginSucceeds, At, DeadCounted, tunnel
  <2>2. CASE LoginFails
    BY <2>2 DEF LoginFails, At, DeadCounted, token, tunnel
  <2> QED BY <1>4, <2>1, <2>2 DEF Login
<1>5. CASE TunnelDrops \/ TunnelRejected \/ GatewayEnds
  BY <1>5 DEF TunnelDrops, TunnelRejected, GatewayEnds, At, DeadCounted,
              token, tunnel, gateway, history
<1>6. CASE Reboot
  BY <1>6 DEF Reboot, DeadCounted
<1>7. CASE UNCHANGED vars
  BY <1>7 DEF vars, DeadCounted, token, tunnel, gateway, history
<1> QED
  BY <1>1, <1>2, <1>3, <1>4, <1>5, <1>6, <1>7 DEF Next

-----------------------------------------------------------------------------
(* Tokens are used as TokenUse promises. *)

(* A tunnel is raised from a token that the loop holds and has found young enough;
   and once a live token has raised one, no dead token's tries are left over. *)
TokenHeld ==
    /\ pc \in {"connect", "up", "exited", "back"} => cookie
    /\ pc = "connect" => tokenAge < VPN_TOKEN_MAX_AGE
    /\ live /\ pc # "connect" => deadTries = 0

LEMMA HeldInit == Init => TokenHeld
  BY DEF Init, TokenHeld

LEMMA HeldNext == Rested /\ TokenHeld /\ [Next]_vars => TokenHeld'
<1> SUFFICES ASSUME Rested, TokenHeld, [Next]_vars PROVE TokenHeld'
  OBVIOUS
<1>1. CASE Tick
  <2>1. live' => live
    BY <1>1, Zenon DEF Tick
  <2>2. /\ UNCHANGED <<pc, cookie>> /\ deadTries' \in {deadTries, 0}
        /\ pc \notin {"connect", "exited", "back"}
    BY <1>1 DEF Tick, Idle, Rested
  <2> QED BY <2>1, <2>2 DEF TokenHeld
<1>2. CASE Decide
  BY <1>2 DEF Decide, At, Fresh, TokenHeld, token, gateway, history
<1>3. CASE Connect
  BY <1>3 DEF Connect, At, TokenHeld, token, gateway
<1>4. CASE LoginSucceeds
  <2>1. cookie' /\ tokenAge' = 0 /\ pc' = "connect"
    BY <1>4 DEF LoginSucceeds
  <2> QED BY <2>1, AgeAssumption DEF TokenHeld
<1>5. CASE LoginStart \/ WaitReturns \/ LoginFails
  BY <1>5 DEF LoginStart, WaitReturns, LoginFails, At, TokenHeld, token, gateway, history
<1>6. CASE AfterRefresh \/ AfterRejection \/ AfterShortExit \/ AfterDrop
  <2>1. pc = "back" /\ pc' = "decide" /\ UNCHANGED <<live, deadTries>>
    BY <1>6 DEF AfterRefresh, AfterRejection, AfterShortExit, AfterDrop, ComeBack, At,
                gateway, history
  <2> QED BY <2>1 DEF TokenHeld
<1>7. CASE Timer
  BY <1>7 DEF Timer, RefreshTouch, RefreshKill, TokenHeld, token, gateway, history
<1>8. CASE TunnelDrops \/ TunnelRejected \/ GatewayEnds
  BY <1>8 DEF TunnelDrops, TunnelRejected, GatewayEnds, At, TokenHeld, token, gateway, history
<1>9. CASE Reboot
  BY <1>9 DEF Reboot, TokenHeld
<1>10. CASE UNCHANGED vars
  BY <1>10 DEF vars, TokenHeld, token, gateway, history
<1> QED
  BY <1>1, <1>2, <1>3, <1>4, <1>5, <1>6, <1>7, <1>8, <1>9, <1>10 DEF Next, Script, Login

(* Each step of the supervisor is one of TokenUse's, or none. *)
LEMMA UseStep ==
    ASSUME TypeOK, Rested, TokenSettled, DeadCounted, TokenHeld, [Next]_vars
    PROVE  [Use!Next]_(Use!vars)
<1>s. ASSUME UNCHANGED <<cookie, tokenAge, told, live, deadTries>>
      PROVE  UNCHANGED <<TokenState, TooOld, Tries>>
  BY <1>s DEF TokenState, TooOld, Tries
<1>t. cookie \in BOOLEAN /\ told \in BOOLEAN /\ live \in BOOLEAN
  BY DEF TypeOK
<1>u. /\ pc # "up" => Lasting = FALSE
      /\ pc' # "up" \/ held' = 0 => Lasting' = FALSE
      /\ UNCHANGED <<pc, held>> => Lasting' = Lasting
  BY PauseAssumption DEF Lasting
<1>0. CASE /\ UNCHANGED <<cookie, tokenAge, told, live, deadTries>>
           /\ UNCHANGED <<pc, held>> \/ "up" \notin {pc, pc'}
  <2>1. UNCHANGED <<TokenState, TooOld, Tries>>
    BY <1>0, <1>s
  <2>2. (pc = "up")' = (pc = "up") /\ Lasting' = Lasting
    BY <1>0, <1>u
  <2> QED BY <2>1, <2>2 DEF Use!vars
<1>1. CASE Tick \/ GatewayEnds
  <2>1. UNCHANGED <<pc, cookie, told>> /\ pc # "connect"
    BY <1>1 DEF Tick, Idle, Rested, GatewayEnds, At, token, history
  <2>2. live' => live
    BY <1>1, Zenon DEF Tick, GatewayEnds
  <2>3. TooOld => TooOld'
    BY <1>1, AgeAssumption DEF Tick, GatewayEnds, token, TypeOK, UpTo, TooOld
  <2>4. TooOld' \in {TooOld, TRUE}
    <3>1. TooOld \in BOOLEAN /\ TooOld' \in BOOLEAN
      <4>1. tokenAge \in Nat /\ tokenAge' \in Nat
        BY <1>1, AgeAssumption DEF Tick, GatewayEnds, token, TypeOK, UpTo
      <4>2. TooOld = ~(tokenAge < VPN_TOKEN_MAX_AGE) /\ TooOld' = ~(tokenAge' < VPN_TOKEN_MAX_AGE)
        BY <4>1, AgeAssumption DEF TooOld
      <4> QED BY <4>2, Zenon
    <3> HIDE DEF TooOld
    <3> QED BY <2>3, <3>1
  <2>5. \/ UNCHANGED <<Lasting, Tries>>
        \/ pc = "up" /\ Lasting' = TRUE /\ Tries' = 0
    <3>1. deadTries' = deadTries => Tries' = Tries
      BY <2>1, <2>2 DEF Tries, TokenHeld
    <3>2. CASE GatewayEnds
      BY <1>u, <3>1, <3>2 DEF GatewayEnds, tunnel, history
    <3>3. CASE Tick /\ pc # "up"
      BY <1>u, <2>1, <3>1, <3>3 DEF Tick
    <3>4. CASE Tick /\ pc = "up" /\ held' = ShortHold
      <4>1. deadTries' = 0 /\ pc' = "up"
        BY <2>1, <3>4 DEF Tick
      <4>2. Lasting' = TRUE
        BY <3>4, <4>1, PauseAssumption DEF Lasting
      <4>3. Tries' = 0
        BY <4>1 DEF Tries
      <4> QED BY <3>4, <4>2, <4>3
    <3>5. CASE Tick /\ pc = "up" /\ held' # ShortHold
      <4>1. deadTries' = deadTries
        BY <3>5 DEF Tick
      <4>2. ~(held >= ShortHold) /\ ~(held' >= ShortHold)
        BY <3>5, PauseAssumption DEF Tick, TypeOK, UpTo
      <4>3. Lasting = FALSE /\ Lasting' = FALSE
        BY <4>2, Zenon DEF Lasting
      <4> QED BY <3>1, <4>1, <4>3
    <3> QED BY <1>1, <3>2, <3>3, <3>4, <3>5
  <2>6. UNCHANGED TokenState \/ (TokenState = "good" /\ TokenState' = "dead")
    BY <2>1, <2>2 DEF TokenState
  <2>7. (pc = "up")' = (pc = "up")
    BY <2>1
  <2> QED BY <2>4, <2>5, <2>6, <2>7 DEF Use!Next, Use!Wither
<1>2. CASE Decide \/ LoginStart \/ WaitReturns \/ LoginFails \/ RefreshTouch
  <2>1. UNCHANGED <<cookie, tokenAge, told, live, deadTries>>
    BY <1>2 DEF Decide, LoginStart, WaitReturns, LoginFails, RefreshTouch, token, gateway, history
  <2>2. UNCHANGED <<pc, held>> \/ "up" \notin {pc, pc'}
    BY <1>2 DEF Decide, LoginStart, WaitReturns, LoginFails, RefreshTouch, At
  <2> QED BY <1>0, <2>1, <2>2
<1>3. CASE Connect
  <2>1. /\ pc = "connect" /\ pc' = "up" /\ UNCHANGED <<cookie, tokenAge, told, live>>
        /\ deadTries' = IF live THEN 0 ELSE UpTo(deadTries, 4)
    BY <1>3 DEF Connect, At, token, gateway
  <2>2. cookie /\ ~told /\ ~TooOld
    BY <2>1, AgeAssumption DEF TokenHeld, TokenSettled, TypeOK, TooOld
  <2>3. UNCHANGED <<TokenState, TooOld, Lasting>>
    <3>1. held' = 0
      BY <1>3 DEF Connect
    <3>2. UNCHANGED Lasting
      BY <1>u, <2>1, <3>1
    <3> QED BY <2>1, <3>2 DEF TokenState, TooOld
  <2>4. CASE live
    <3>1. TokenState = "good" /\ Tries = 0 /\ Tries' = 0
      BY <2>1, <2>2, <2>4 DEF TokenState, Tries
    <3> QED BY <2>1, <2>2, <2>3, <3>1 DEF Use!Next, Use!Raise
  <2>5. CASE ~live
    <3>1. TokenState = "dead" /\ Tries = deadTries /\ Tries' = deadTries'
      BY <2>1, <2>2, <2>5 DEF TokenState, Tries
    <3>2. deadTries \in Nat /\ deadTries < 3 /\ deadTries' = deadTries + 1
      BY <2>1, <2>5 DEF DeadCounted, TypeOK, UpTo
    <3> QED BY <2>1, <2>2, <2>3, <3>1, <3>2 DEF Use!Next, Use!Raise
  <2> QED BY <2>4, <2>5
<1>4. CASE LoginSucceeds
  <2>1. pc = "login" /\ pc' = "connect"
    BY <1>4 DEF LoginSucceeds, At
  <2>2. cookie' /\ live' /\ ~told'
    BY <1>4, Zenon DEF LoginSucceeds
  <2>3. ~TooOld'
    BY <1>4, AgeAssumption DEF LoginSucceeds, TooOld
  <2>4. TokenState' = "good" /\ Tries' = 0
    BY <2>2 DEF TokenState, Tries
  <2>5. TooOld' = FALSE
    BY <1>4, AgeAssumption DEF LoginSucceeds, TooOld
  <2>6. (pc = "up")' = (pc = "up") /\ Lasting' = Lasting
    BY <1>u, <2>1
  <2> QED BY <2>1, <2>4, <2>5, <2>6 DEF Use!Next, Use!Obtain
<1>5. CASE AfterRefresh \/ AfterRejection \/ AfterShortExit \/ AfterDrop
  <2>1. /\ pc = "back" /\ pc' = "decide" /\ UNCHANGED <<tokenAge, told, live, deadTries>>
        /\ UNCHANGED cookie \/ ~cookie'
    <3>1. \E keep \in BOOLEAN : cookie' = (cookie /\ keep)
      BY <1>5, Zenon DEF AfterRefresh, AfterRejection, AfterShortExit, AfterDrop, ComeBack
    <3>2. UNCHANGED cookie \/ ~cookie'
      BY <1>t, <3>1
    <3> QED BY <1>5, <3>2 DEF AfterRefresh, AfterRejection, AfterShortExit, AfterDrop, ComeBack, At,
                              gateway, history
  <2>2. CASE UNCHANGED cookie
    BY <1>0, <2>1, <2>2
  <2>3. CASE ~cookie'
    <3>1. TokenState' = "none" /\ Tries' = 0 /\ TooOld' = TooOld
      BY <2>1, <2>3 DEF TokenState, Tries, TooOld
    <3> QED BY <1>u, <2>1, <3>1 DEF Use!Next, Use!Drop
  <2> QED BY <2>1, <2>2, <2>3
<1>6. ASSUME pc = "up", pc' # "up", UNCHANGED <<cookie, tokenAge, deadTries>>,
             UNCHANGED <<told, live>> \/ (told' /\ ~live')
      PROVE  [Use!Next]_(Use!vars)
  <2>1. TokenState' \in {TokenState, "spent"} /\ TooOld' = TooOld /\ Tries' = Tries
    BY <1>6 DEF TokenState, TooOld, Tries, TokenHeld
  <2>2. Lasting' = FALSE
    BY <1>6, <1>u
  <2> QED BY <1>6, <2>1, <2>2 DEF Use!Next, Use!Fall
<1>7. CASE TunnelDrops \/ TunnelRejected
  <2>1. told' \/ UNCHANGED <<told, live>>
    BY <1>7, Zenon DEF TunnelDrops, TunnelRejected, gateway, history
  <2> QED BY <1>6, <1>7, <2>1 DEF TunnelDrops, TunnelRejected, At, token, gateway, history
<1>8. CASE RefreshKill
  <2>1. UNCHANGED <<cookie, tokenAge, deadTries>>
    BY <1>8 DEF RefreshKill, token
  <2>2. CASE pc = "up"
    <3>1. told' /\ ~live' /\ pc' = "exited"
      BY <1>8, <2>2, Zenon DEF RefreshKill
    <3> QED BY <1>6, <2>1, <2>2, <3>1
  <2>3. CASE pc # "up"
    BY <1>0, <1>8, <2>1, <2>3 DEF RefreshKill
  <2> QED BY <2>2, <2>3
<1>9. CASE Reboot
  <2>1. pc' = "decide" /\ ~cookie' /\ tokenAge' = 0
    BY <1>9 DEF Reboot
  <2>2. TokenState' = "none" /\ Tries' = 0 /\ ~TooOld'
    BY <2>1, AgeAssumption DEF TokenState, Tries, TooOld
  <2> QED BY <1>u, <2>1, <2>2 DEF Use!Next, Use!Stop
<1>10. CASE UNCHANGED vars
  BY <1>0, <1>10 DEF vars, token, tunnel, gateway, history
<1> QED
  BY <1>1, <1>2, <1>3, <1>4, <1>5, <1>7, <1>8, <1>9, <1>10 DEF Next, Script, Timer, Login

(* The supervisor uses its tokens as TokenUse promises, for all durations, schedules
   and orders of drops, refusals, timer and restarts. *)
THEOREM ImplementsTokenUse == Spec => TokenUsedWell
<1>1. Init => Use!Init
  <2> SUFFICES ASSUME Init PROVE Use!Init
    OBVIOUS
  <2>1. ~cookie /\ tokenAge = 0 /\ pc = "decide"
    BY DEF Init
  <2>2. TokenState = "none" /\ Tries = 0 /\ ~TooOld /\ Lasting = FALSE
    BY <2>1, AgeAssumption DEF TokenState, Tries, TooOld, Lasting
  <2> QED BY <2>1, <2>2 DEF Use!Init
<1>2. TypeOK /\ Rested /\ TokenSettled /\ DeadCounted /\ TokenHeld /\ [Next]_vars
        => [Use!Next]_(Use!vars)
  BY UseStep
<1> QED
  BY <1>1, <1>2, TypesInit, TypesNext, RestedAlways, SettledInit, SettledNext, DeadInit, DeadNext,
     HeldInit, HeldNext, PTL DEF Spec, TokenUsedWell, Use!Spec

-----------------------------------------------------------------------------
(* Renewal before expiry. *)

(* The refresh times that have come since the token's session began. *)
Passed == {t \in RefreshTimes : Day - Until(t) < sessionAge}

(* The token at hand will raise another tunnel, or holds one up: no planned
   refresh has marked it, and no way back from a tunnel has dropped it. *)
InUse ==
    \/ pc = "connect"
    \/ pc \in {"up", "exited", "back"} /\ ~flag
    \/ pc \in {"decide", "mint", "login"} /\ cookie

(* The timer has run out in this very tick and has not acted yet. *)
Due == pc \in {"up", "exited"} /\ timer = "armed" /\ refreshIn = 0

(* A refresh time that a token in use has seen come was missed with the tunnel
   down, or is due now; and while the tunnel is up the timer waits for no later
   time than the next one. *)
RefreshCounted ==
    /\ InUse => Cardinality(Passed) <= missed + (IF Due THEN 1 ELSE 0)
    /\ pc = "up" /\ flag => refreshIn = 0
    /\ pc = "up" /\ ~flag => timer = "armed" /\ \A t \in RefreshTimes : refreshIn <= Until(t)

(* A tick brings every refresh time nearer but the one it has just reached, which
   is a day away again. *)
LEMMA UntilMoves ==
    ASSUME TypeOK, Tick, NEW t \in RefreshTimes
    PROVE  /\ Until(t) \in 1 .. Day
           /\ Until(t)' = (IF t = tod' THEN Day ELSE Until(t) - 1)
           /\ t = tod' => Until(t) = 1
<1>1. tod \in 0 .. Day - 1 /\ t \in 0 .. Day - 1 /\ Day \in Nat \ {0}
  BY AgeAssumption DEF TypeOK
<1>2. tod' = IF tod = Day - 1 THEN 0 ELSE tod + 1
  BY DEF Tick
<1> QED BY <1>1, <1>2 DEF Until

LEMMA PassedFinite == IsFiniteSet(Passed) /\ Cardinality(Passed) \in 0 .. Cardinality(RefreshTimes)
<1>1. Passed \subseteq RefreshTimes
  BY DEF Passed
<1> QED BY <1>1, TimesCounted, FS_Subset, FS_CardinalityType

(* So at most the time just reached is new among those that have passed. *)
LEMMA PassedMoves ==
    ASSUME TypeOK, Tick
    PROVE  Cardinality(Passed)' <= Cardinality(Passed) + (IF tod' \in RefreshTimes THEN 1 ELSE 0)
<1>1. ASSUME NEW t \in Passed', t # tod' PROVE t \in Passed
  <2>1. t \in RefreshTimes /\ Day - Until(t)' < sessionAge'
    BY <1>1 DEF Passed
  <2>2. Until(t) \in 1 .. Day /\ Until(t)' = Until(t) - 1
    BY <1>1, <2>1, UntilMoves
  <2>3. sessionAge' <= sessionAge + 1 /\ sessionAge \in Nat /\ sessionAge' \in Nat /\ Day \in Nat
    BY AgeAssumption DEF Tick, UpTo, TypeOK
  <2>4. Day - Until(t) < sessionAge
    BY <2>1, <2>2, <2>3
  <2> QED BY <2>1, <2>4 DEF Passed
<1>2. Passed' \subseteq RefreshTimes
  BY DEF Passed
<1>3. IsFiniteSet(Passed) /\ Cardinality(Passed) \in Nat
  BY PassedFinite, TimesCounted
<1>4. CASE tod' \in RefreshTimes
  <2>1. Passed' \subseteq Passed \cup {tod'}
    BY <1>1
  <2>2. /\ IsFiniteSet(Passed \cup {tod'})
        /\ Cardinality(Passed \cup {tod'}) <= Cardinality(Passed) + 1
        /\ Cardinality(Passed \cup {tod'}) \in Nat
    BY <1>3, FS_AddElement, FS_CardinalityType
  <2>3. Cardinality(Passed') <= Cardinality(Passed \cup {tod'}) /\ Cardinality(Passed') \in Nat
    BY <2>1, <2>2, FS_Subset, FS_CardinalityType
  <2> QED BY <1>3, <1>4, <2>2, <2>3
<1>5. CASE tod' \notin RefreshTimes
  <2>1. Passed' \subseteq Passed
    BY <1>1, <1>2, <1>5
  <2>2. Cardinality(Passed') <= Cardinality(Passed)
    BY <1>3, <2>1, FS_Subset
  <2> QED BY <1>3, <1>5, <2>2
<1> QED BY <1>4, <1>5

(* seconds_until_next_refresh waits for the next of the refresh times. *)
LEMMA NextRefreshFirst ==
    ASSUME tod \in 0 .. Day - 1
    PROVE  /\ NextRefresh \in Nat \ {0}
           /\ \A t \in RefreshTimes : NextRefresh <= Until(t)
<1> DEFINE W == {Until(t) : t \in RefreshTimes}
<1>1. W \subseteq 1 .. Day /\ W # {}
  <2>1. \A t \in RefreshTimes : Until(t) \in 1 .. Day
    BY tod \in 0 .. Day - 1, AgeAssumption DEF Until
  <2> QED BY <2>1, AgeAssumption
<1>2. IsFiniteSet(W) /\ W \subseteq Nat
  <2>1. IsFiniteSet(1 .. Day) /\ 1 .. Day \subseteq Nat
    BY AgeAssumption, FS_Interval
  <2> HIDE DEF W
  <2> QED BY <1>1, <2>1, FS_Subset
<1>3. \E m \in W : \A e \in W : m <= e
  <2> HIDE DEF W
  <2> QED BY <1>1, <1>2, LeastElement
<1>4. Min(W) \in W /\ \A e \in W : Min(W) <= e
  <2> HIDE DEF W
  <2> QED BY <1>3 DEF Min
<1>5. NextRefresh = Min(W)
  BY DEF NextRefresh
<1>6. \A t \in RefreshTimes : Until(t) \in W
  OBVIOUS
<1>7. NextRefresh \in 1 .. Day
  <2> HIDE DEF W
  <2> QED BY <1>1, <1>4, <1>5
<1>8. \A t \in RefreshTimes : NextRefresh <= Until(t)
  <2> HIDE DEF W
  <2> QED BY <1>4, <1>5, <1>6
<1> QED BY <1>7, <1>8, AgeAssumption

LEMMA RefreshInit == Init => RefreshCounted
  BY DEF Init, RefreshCounted, InUse

(* While the script sleeps or waits for a login a refresh time that comes is
   missed; while the tunnel is up the timer has run out by then. *)
LEMMA RefreshTick ==
    ASSUME TypeOK, Rested, RefreshCounted, Tick PROVE RefreshCounted'
<1>1. pc \notin {"exited", "back", "connect"} /\ UNCHANGED <<pc, cookie, flag, timer>>
  BY DEF Tick, Idle, Rested
<1>2. pc = "up" => ~(timer = "armed" /\ refreshIn = 0)
  BY DEF Tick, Idle, Rested
<1>3. refreshIn \in Nat /\ refreshIn' = Down(refreshIn)
  BY DEF Tick, TypeOK
<1>4. pc = "up" /\ flag => refreshIn' = 0
  BY <1>3 DEF RefreshCounted, Down
<1>5. ASSUME pc = "up", ~flag
      PROVE  /\ timer = "armed" /\ refreshIn > 0
             /\ \A t \in RefreshTimes : refreshIn' <= Until(t)'
             /\ tod' \in RefreshTimes => refreshIn' = 0
  <2>1. timer = "armed" /\ refreshIn > 0 /\ \A t \in RefreshTimes : refreshIn <= Until(t)
    BY <1>2, <1>3, <1>5 DEF RefreshCounted
  <2>2. refreshIn' = refreshIn - 1
    BY <1>3, <2>1 DEF Down
  <2>3. ASSUME NEW t \in RefreshTimes PROVE refreshIn' <= Until(t)' /\ (t = tod' => refreshIn' = 0)
    <3>1. /\ Until(t) \in 1 .. Day
          /\ Until(t)' = (IF t = tod' THEN Day ELSE Until(t) - 1)
          /\ t = tod' => Until(t) = 1
      BY UntilMoves
    <3>2. refreshIn <= Until(t)
      BY <2>1
    <3> QED BY <1>3, <2>1, <2>2, <3>1, <3>2, AgeAssumption
  <2> QED BY <2>1, <2>3
<1>6. ASSUME InUse' PROVE Cardinality(Passed)' <= missed' + (IF Due' THEN 1 ELSE 0)
  <2>1. InUse /\ (pc = "up" => ~flag) /\ ~Due
    BY <1>1, <1>2, <1>6 DEF InUse, Due
  <2>2. Cardinality(Passed) <= missed
    BY <2>1, TypeOK, TimesCounted, PassedFinite DEF RefreshCounted, TypeOK
  <2>3. /\ Cardinality(Passed)' <= Cardinality(Passed) + (IF tod' \in RefreshTimes THEN 1 ELSE 0)
        /\ Cardinality(Passed)' \in 0 .. Cardinality(RefreshTimes)
    <3>1. (IsFiniteSet(Passed) /\ Cardinality(Passed) \in 0 .. Cardinality(RefreshTimes))'
      BY PassedFinite, TimesCounted, PTL
    <3> QED BY <3>1, PassedMoves
  <2>4. Cardinality(Passed) \in Nat /\ missed \in 0 .. Cardinality(RefreshTimes) /\ Cardinality(RefreshTimes) \in Nat
    BY PassedFinite, TimesCounted DEF TypeOK
  <2>5. missed' = IF tod' \in RefreshTimes /\ pc # "up" THEN Another(missed) ELSE missed
    BY DEF Tick
  <2>6. CASE pc = "up"
    <3>1. tod' \in RefreshTimes => Due'
      BY <1>1, <1>5, <2>1, <2>6 DEF Due
    <3>2. missed' = missed
      BY <2>5, <2>6
    <3> QED BY <2>2, <2>3, <2>4, <3>1, <3>2
  <2>7. CASE pc # "up"
    <3>1. tod' \in RefreshTimes => missed' = Another(missed)
      BY <2>5, <2>7
    <3>2. tod' \notin RefreshTimes => missed' = missed
      BY <2>5
    <3>3. Cardinality(Passed)' <= missed' /\ missed' \in Nat
      BY <2>2, <2>3, <2>4, <3>1, <3>2 DEF Another, UpTo
    <3> QED BY <2>3, <3>3
  <2> QED BY <2>6, <2>7
<1> QED BY <1>1, <1>4, <1>5, <1>6 DEF RefreshCounted

(* A step that takes no time leaves the times that have passed as they are, unless
   it begins a session; it may use the token only if it was in use. *)
LEMMA RefreshStays ==
    ASSUME TypeOK, RefreshCounted, UNCHANGED <<tod, sessionAge, missed>>,
           InUse' => InUse /\ (Due => Due'),
           pc' = "up" => UNCHANGED <<pc, flag, timer, refreshIn>>
    PROVE  RefreshCounted'
<1>1. Passed' = Passed /\ \A t \in RefreshTimes : Until(t)' = Until(t)
  BY DEF Passed, Until
<1>2. InUse' => Cardinality(Passed)' <= missed' + (IF Due' THEN 1 ELSE 0)
  <2>1. Cardinality(Passed) \in Nat /\ missed \in Nat
    BY PassedFinite, TimesCounted DEF TypeOK
  <2> SUFFICES ASSUME InUse' PROVE Cardinality(Passed)' <= missed + (IF Due' THEN 1 ELSE 0)
    OBVIOUS
  <2>2. Cardinality(Passed) <= missed + (IF Due THEN 1 ELSE 0) /\ (Due => Due')
    BY DEF RefreshCounted
  <2> QED BY <1>1, <2>1, <2>2
<1> QED BY <1>1, <1>2 DEF RefreshCounted

LEMMA RefreshNext ==
    TypeOK /\ Rested /\ TokenSettled /\ RefreshCounted /\ [Next]_vars => RefreshCounted'
<1> SUFFICES ASSUME TypeOK, Rested, TokenSettled, RefreshCounted, [Next]_vars
             PROVE  RefreshCounted'
  OBVIOUS
<1>1. CASE Tick
  BY <1>1, RefreshTick
<1>2. CASE Connect
  <2>1. /\ pc = "connect" /\ pc' = "up" /\ ~flag' /\ timer' = "armed"
        /\ refreshIn' = NextRefresh /\ UNCHANGED <<tod, sessionAge, missed>>
    BY <1>2 DEF Connect, At, clocks, gateway
  <2>2. refreshIn' \in Nat \ {0} /\ \A t \in RefreshTimes : refreshIn' <= Until(t)'
    <3>1. NextRefresh \in Nat \ {0} /\ \A t \in RefreshTimes : NextRefresh <= Until(t)
      BY NextRefreshFirst DEF TypeOK
    <3> QED BY <2>1, <3>1 DEF Until
  <2>3. Cardinality(Passed) <= missed /\ missed \in Nat
    <3>1. Cardinality(Passed) <= missed + (IF Due THEN 1 ELSE 0) /\ ~Due
      BY <2>1 DEF RefreshCounted, InUse, Due
    <3> QED BY <3>1, PassedFinite, TimesCounted DEF TypeOK
  <2>4. Passed' = Passed
    BY <2>1 DEF Passed, Until
  <2>5. Cardinality(Passed)' <= missed' + (IF Due' THEN 1 ELSE 0)
    <3>1. ~Due'
      BY <2>2 DEF Due
    <3> QED BY <2>1, <2>3, <2>4, <3>1
  <2> QED BY <2>1, <2>2, <2>5 DEF RefreshCounted
<1>3. CASE WaitReturns
  <2>1. /\ pc = "exited" /\ pc' = "back" /\ UNCHANGED <<tod, sessionAge, flag>>
        /\ missed' = IF Due THEN Another(missed) ELSE missed
    BY <1>3 DEF WaitReturns, At, clocks, gateway, Due
  <2>2. ASSUME InUse' PROVE Cardinality(Passed)' <= missed' + (IF Due' THEN 1 ELSE 0)
    <3>1. InUse /\ ~Due'
      BY <2>1, <2>2 DEF InUse, Due
    <3>2. Cardinality(Passed) <= missed + (IF Due THEN 1 ELSE 0)
      BY <3>1 DEF RefreshCounted
    <3>3. Passed' = Passed
      BY <2>1 DEF Passed, Until
    <3>4. /\ Cardinality(Passed) \in 0 .. Cardinality(RefreshTimes)
          /\ missed \in 0 .. Cardinality(RefreshTimes) /\ Cardinality(RefreshTimes) \in Nat
      BY PassedFinite, TimesCounted DEF TypeOK
    <3>5. Cardinality(Passed) <= missed' /\ missed' \in Nat
      BY <2>1, <3>2, <3>4 DEF Another, UpTo
    <3> QED BY <3>1, <3>3, <3>5
  <2> QED BY <2>1, <2>2 DEF RefreshCounted
<1>4. CASE LoginSucceeds
  <2>1. pc' = "connect" /\ sessionAge' = 0 /\ missed' = 0 /\ tod' = tod
    BY <1>4 DEF LoginSucceeds, clocks
  <2>2. Passed' = {}
    <3>1. ASSUME NEW t \in RefreshTimes PROVE ~(Day - Until(t)' < sessionAge')
      <4>1. tod \in 0 .. Day - 1 /\ t \in 0 .. Day - 1 /\ Day \in Nat \ {0}
        BY AgeAssumption DEF TypeOK
      <4> QED BY <2>1, <4>1 DEF Until
    <3> QED BY <3>1 DEF Passed
  <2>3. ~Due' /\ Cardinality(Passed)' = 0
    BY <2>1, <2>2, FS_EmptySet DEF Due
  <2> QED BY <2>1, <2>3 DEF RefreshCounted
<1>5. ASSUME ~InUse', pc' = "up" => refreshIn' = 0 /\ flag' PROVE RefreshCounted'
  BY <1>5, Zenon DEF RefreshCounted
<1>6. CASE AfterRefresh \/ AfterRejection \/ Reboot
  <2>1. ~cookie' /\ pc' = "decide"
    BY <1>6 DEF AfterRefresh, AfterRejection, Reboot, ComeBack
  <2> QED BY <1>5, <2>1 DEF InUse
<1>7. CASE Timer
  <2>1. flag' /\ pc' \in {"up", "exited"} /\ (pc' = "up" => refreshIn' = 0)
    <3>1. CASE RefreshTouch
      BY <3>1, Zenon DEF RefreshTouch
    <3>2. CASE RefreshKill
      <4>1. flag /\ pc \in {"up", "exited"}
        BY <3>2 DEF RefreshKill, TokenSettled
      <4> QED BY <3>2, <4>1 DEF RefreshKill
    <3> QED BY <1>7, <3>1, <3>2 DEF Timer
  <2> QED BY <1>5, <2>1 DEF InUse
<1>8. CASE \/ Decide \/ LoginStart \/ AfterShortExit \/ AfterDrop \/ LoginFails
           \/ TunnelDrops \/ TunnelRejected \/ GatewayEnds \/ UNCHANGED vars
  <2>1. UNCHANGED <<tod, sessionAge, missed>>
    BY <1>8
       DEF Decide, LoginStart, AfterShortExit, AfterDrop, ComeBack, LoginFails, TunnelDrops,
           TunnelRejected, GatewayEnds, vars, clocks, gateway, history
  <2>2. InUse' => InUse /\ (Due => Due')
    BY <1>8
       DEF Decide, LoginStart, AfterShortExit, AfterDrop, ComeBack, LoginFails, TunnelDrops,
           TunnelRejected, GatewayEnds, vars, token, tunnel, At, Fresh, InUse, Due
  <2>3. pc' = "up" => UNCHANGED <<pc, flag, timer, refreshIn>>
    BY <1>8
       DEF Decide, LoginStart, AfterShortExit, AfterDrop, ComeBack, LoginFails, TunnelDrops,
           TunnelRejected, GatewayEnds, vars, tunnel
  <2> QED BY <2>1, <2>2, <2>3, RefreshStays
<1> QED
  BY <1>1, <1>2, <1>3, <1>4, <1>6, <1>7, <1>8 DEF Next, Script, Login

(* A session lasts at least a day (the gateway ends it after 24 hours), so it sees
   every refresh time of VPN_REFRESH_TIMES before it expires. *)
LongSession == Day <= SessionLife

(* The gateway's hard expiry cuts the tunnel off only if the tunnel happened to be
   down at every refresh time of the session's life: for every schedule, every
   pause and every history of drops, failed logins and reconnects, the timer that
   run_tunnel arms renews the session first otherwise. *)
THEOREM RenewedInTime == ASSUME LongSession PROVE Spec => []ExpiresOnlyUnrefreshed
<1>1. TypeOK /\ RefreshCounted => ExpiresOnlyUnrefreshed
  <2> SUFFICES ASSUME TypeOK, RefreshCounted, pc = "up", sessionAge = SessionLife, refreshIn > 0
               PROVE  missed = Cardinality(RefreshTimes)
    BY DEF ExpiresOnlyUnrefreshed
  <2>1. InUse /\ ~Due
    BY DEF RefreshCounted, InUse, Due
  <2>2. Passed = RefreshTimes
    <3>1. ASSUME NEW t \in RefreshTimes PROVE Day - Until(t) < sessionAge
      <4>1. tod \in 0 .. Day - 1 /\ t \in 0 .. Day - 1 /\ Day \in Nat \ {0}
        BY AgeAssumption DEF TypeOK
      <4>2. Until(t) \in 1 .. Day
        BY <4>1 DEF Until
      <4> QED BY <4>1, <4>2, LongSession, AgeAssumption DEF LongSession
    <3> QED BY <3>1 DEF Passed
  <2> QED BY <2>1, <2>2, TimesCounted DEF RefreshCounted, TypeOK
<1>2. TypeOK /\ Rested /\ TokenSettled /\ RefreshCounted /\ [Next]_vars => RefreshCounted'
  BY RefreshNext
<1> QED
  BY <1>1, <1>2, TypesInit, TypesNext, RestedAlways, SettledInit, SettledNext, RefreshInit,
     PTL DEF Spec
=============================================================================
