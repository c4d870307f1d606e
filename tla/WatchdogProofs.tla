--------------------------- MODULE WatchdogProofs ---------------------------
(***************************************************************************)
(* What holds of the watchdog for every interval, threshold and bound, and *)
(* wherever it is killed: uptime is conserved, every outage is in the      *)
(* ledger, main()'s failure count is the outage's, and the DOWN alert is   *)
(* raised when due and once.                                               *)
(***************************************************************************)
EXTENDS Watchdog, OrderLemmas, FiniteSetTheorems, TLAPS

-----------------------------------------------------------------------------
(* Types: of TypeOK what the other invariants rest on. *)

WType ==
    /\ clock \in Nat /\ pc \in Steps
    /\ stats \in StatsType /\ stateFile \in StatsType
    /\ lines \in 0 .. MAX_OUTAGES
    /\ healthy \in BOOLEAN /\ state \in Maybe(BOOLEAN)
    /\ upstream \in Maybe(BOOLEAN)
    /\ fails \in Nat /\ warned \in BOOLEAN /\ started \in Int
    /\ lastPush \in Pushes /\ crashes \in 0 .. MaxCrashes /\ unwatched \in Nat
    /\ rewound \in 0 .. MaxRewind

LEMMA WTypeInit == Init => WType
<1> SUFFICES ASSUME Init PROVE WType
  OBVIOUS
<1>1. FreshStats \in StatsType /\ FreshStats.lastProbe = Unknown
  BY DEF FreshStats, StatsType, Maybe
<1>2. lines \in 0 .. MAX_OUTAGES
  BY SizeAssumption DEF Init
<1>3. /\ clock \in Nat /\ pc \in Steps /\ fails \in Nat /\ started \in Int
      /\ lastPush \in Pushes /\ unwatched \in Nat
  BY DEF Init, Steps, Pushes
<1>4. healthy \in BOOLEAN /\ warned \in BOOLEAN
  BY Zenon DEF Init
<1>5. state \in Maybe(BOOLEAN) /\ upstream \in Maybe(BOOLEAN)
  BY DEF Init, Maybe
<1>6. crashes \in 0 .. MaxCrashes /\ rewound \in 0 .. MaxRewind
  BY BoundAssumption DEF Init
<1>7. stats = FreshStats /\ stateFile = FreshStats
  BY DEF Init
<1> QED BY <1>1, <1>2, <1>3, <1>4, <1>5, <1>6, <1>7 DEF WType

(* account() splits the interval into up and down without a rest. *)
LEMMA GapSplit ==
    ASSUME WType
    PROVE  /\ Gap \in Nat /\ UpGap \in Nat /\ DownGap \in Nat
           /\ Gap = UpGap + DownGap
<1>1. Cap \in Nat
  BY IntervalAssumption DEF Cap
<1>2. stats.lastProbe \in Maybe(Nat)
  BY DEF WType, StatsType
<1>3. Gap \in Nat
  BY <1>1, <1>2, UnknownAssumption DEF Gap, Lesser, WType, Maybe
<1> QED BY <1>3 DEF UpGap, DownGap

(* What Credit does to the lifetime counters. *)
LEMMA CreditStats ==
    ASSUME WType, NEW ok \in BOOLEAN, NEW closed \in 0 .. 1, NEW o \in Maybe(Outages),
           Credit(ok, closed, o)
    PROVE  /\ stats' \in StatsType
           /\ stats'.monitored = stats.monitored + Gap
           /\ stats'.up = stats.up + UpGap
           /\ stats'.down = stats.down + DownGap
           /\ stats'.outages = stats.outages + closed
           /\ stats'.lastProbe = clock /\ stats'.outage = o
           /\ stats'.first = (IF stats.first = Unknown THEN clock ELSE stats.first)
           /\ healthy' = ok
<1>1. /\ Gap \in Nat /\ UpGap \in Nat /\ DownGap \in Nat
      /\ stats \in StatsType /\ clock \in Nat
  BY GapSplit DEF WType
<1>2. stats' = [stats EXCEPT
          !.first = IF @ = Unknown THEN clock ELSE @,
          !.monitored = @ + Gap, !.up = @ + UpGap, !.down = @ + DownGap,
          !.outages = @ + closed,
          !.lastProbe = clock, !.lastHealthy = ok, !.outage = o]
      /\ healthy' = ok
  BY DEF Credit
<1>3. stats' = [first |-> IF stats.first = Unknown THEN clock ELSE stats.first,
                monitored |-> stats.monitored + Gap,
                up |-> stats.up + UpGap, down |-> stats.down + DownGap,
                outages |-> stats.outages + closed,
                alertedOutages |-> stats.alertedOutages,
                lastProbe |-> clock, lastHealthy |-> ok, outage |-> o]
  BY <1>1, <1>2 DEF StatsType
<1>4. /\ stats.monitored + Gap \in Nat /\ stats.up + UpGap \in Nat
      /\ stats.down + DownGap \in Nat /\ stats.outages + closed \in Nat
      /\ stats.alertedOutages \in Nat /\ stats.first \in Maybe(Nat)
  BY <1>1 DEF StatsType
<1>5. /\ (IF stats.first = Unknown THEN clock ELSE stats.first) \in Maybe(Nat)
      /\ clock \in Maybe(Nat) /\ ok \in Maybe(BOOLEAN)
  BY <1>1, <1>4 DEF Maybe
<1>6. stats' \in StatsType
  BY <1>3, <1>4, <1>5 DEF StatsType
<1> QED BY <1>2, <1>3, <1>6

LEMMA ExtendedType ==
    ASSUME WType
    PROVE  /\ Extended(stats.outage) \in Outages
           /\ Extended(stats.outage).downProbes = Streak + 1
           /\ Extended(stats.outage).alerted = 
                (IF stats.outage = Unknown THEN FALSE ELSE stats.outage.alerted)
<1>1. stats.outage \in Maybe(Outages) /\ clock \in Nat
  BY DEF WType, StatsType
<1>2. CASE stats.outage = Unknown
  BY <1>1, <1>2 DEF Extended, Outages, Streak
<1>3. CASE stats.outage # Unknown
  <2>1. stats.outage \in Outages
    BY <1>1, <1>3 DEF Maybe
  <2> QED BY <1>3, <2>1 DEF Extended, Outages, Streak
<1> QED BY <1>2, <1>3

(* The alert step leaves the counters and the streak as they are. *)
LEMMA MarkStats ==
    ASSUME WType, MarkAlerted \/ UNCHANGED stats
    PROVE  /\ stats' \in StatsType
           /\ stats'.monitored = stats.monitored /\ stats'.up = stats.up
           /\ stats'.down = stats.down /\ stats'.outages = stats.outages
           /\ stats'.lastProbe = stats.lastProbe /\ stats'.first = stats.first
           /\ Streak' = Streak
<1>1. stats \in StatsType
  BY DEF WType
<1>2. CASE UNCHANGED stats
  BY <1>1, <1>2 DEF Streak
<1>3. CASE MarkAlerted /\ stats.outage # Unknown /\ ~stats.outage.alerted
  <2>1. stats.outage \in Outages
    BY <1>1, <1>3 DEF StatsType, Maybe
  <2>2. stats' = [stats EXCEPT !.outage = [stats.outage EXCEPT !.alerted = TRUE],
                               !.alertedOutages = stats.alertedOutages + 1]
    BY <1>1, <1>3 DEF MarkAlerted, StatsType
  <2>3. [stats.outage EXCEPT !.alerted = TRUE] \in Outages
    BY <2>1 DEF Outages
  <2>4. /\ stats' \in StatsType
        /\ stats'.outage = [stats.outage EXCEPT !.alerted = TRUE]
        /\ stats'.monitored = stats.monitored /\ stats'.up = stats.up
        /\ stats'.down = stats.down /\ stats'.outages = stats.outages
        /\ stats'.lastProbe = stats.lastProbe /\ stats'.first = stats.first
    <3>1. stats' = [first |-> stats.first, monitored |-> stats.monitored,
                    up |-> stats.up, down |-> stats.down, outages |-> stats.outages,
                    alertedOutages |-> stats.alertedOutages + 1,
                    lastProbe |-> stats.lastProbe, lastHealthy |-> stats.lastHealthy,
                    outage |-> [stats.outage EXCEPT !.alerted = TRUE]]
      BY <1>1, <2>2 DEF StatsType
    <3>2. /\ [stats.outage EXCEPT !.alerted = TRUE] \in Maybe(Outages)
          /\ stats.alertedOutages + 1 \in Nat
      BY <1>1, <2>3 DEF StatsType, Maybe
    <3>3. stats' \in StatsType
      BY <1>1, <3>1, <3>2 DEF StatsType
    <3> QED BY <3>1, <3>3
  <2>5. stats'.outage # Unknown /\ stats'.outage.downProbes = stats.outage.downProbes
    BY <2>1, <2>3, <2>4, UnknownAssumption DEF Outages
  <2> QED BY <1>3, <2>4, <2>5 DEF Streak
<1> QED BY <1>2, <1>3 DEF MarkAlerted

Probe == ProbeFails \/ ProbeHealthy \/ ProbeRecovers
Alert == AlertHealthy \/ AlertDown \/ AlertNeverUp \/ AlertQuiet

LEMMA WTypeNext == WType /\ [Next]_vars => WType'
<1> SUFFICES ASSUME WType, [Next]_vars PROVE WType'
  OBVIOUS
<1> USE DEF Steps, history, locals, files
<1>1. CASE ProbeFails
  <2>1. stats' \in StatsType /\ stats'.lastProbe = clock /\ healthy' \in BOOLEAN
    <3>1. Extended(stats.outage) \in Maybe(Outages) /\ 0 \in 0 .. 1
      BY ExtendedType DEF Maybe
    <3>2. Credit(FALSE, 0, Extended(stats.outage))
      BY <1>1 DEF ProbeFails
    <3> QED BY <3>1, <3>2, CreditStats
  <2>2. /\ UNCHANGED <<clock, stateFile, lines, locals, history>>
        /\ pc' = "alert"
    BY <1>1 DEF ProbeFails
  <2> QED BY <2>1, <2>2 DEF WType
<1>2. CASE ProbeHealthy \/ ProbeRecovers
  <2>1. stats' \in StatsType /\ stats'.lastProbe = clock /\ healthy' = TRUE
    <3>1. Unknown \in Maybe(Outages) /\ 0 \in 0 .. 1 /\ 1 \in 0 .. 1
      BY DEF Maybe
    <3>2. Credit(TRUE, 0, Unknown) \/ Credit(TRUE, 1, Unknown)
      BY <1>2 DEF ProbeHealthy, ProbeRecovers
    <3> QED BY <3>1, <3>2, CreditStats
  <2>2. lines' = lines \/ lines' = Lesser(lines + 1, MAX_OUTAGES)
    BY <1>2 DEF ProbeHealthy, ProbeRecovers
  <2>3. lines' \in 0 .. MAX_OUTAGES
    BY <2>2, SizeAssumption DEF Lesser, WType
  <2>4. /\ UNCHANGED <<clock, stateFile, locals, history>>
        /\ pc' = "alert"
    BY <1>2 DEF ProbeHealthy, ProbeRecovers
  <2> QED BY <2>1, <2>3, <2>4 DEF WType
<1>3. CASE Alert
  <2>1. MarkAlerted \/ UNCHANGED stats
    BY <1>3 DEF Alert, AlertHealthy, AlertDown, AlertNeverUp, AlertQuiet
  <2>2. stats' \in StatsType
    BY <1>3, <2>1, MarkStats
       DEF Alert, AlertHealthy, AlertDown, AlertNeverUp, AlertQuiet, AlertFrame, WType
  <2>3. /\ fails' \in Nat /\ state' \in Maybe(BOOLEAN) /\ pc' \in Steps
        /\ warned' \in BOOLEAN /\ lastPush' \in Pushes
        /\ UNCHANGED <<crashes, unwatched, rewound, started, upstream>>
    <3>1. /\ fails \in Nat
          /\ state \in Maybe(BOOLEAN) /\ TRUE \in Maybe(BOOLEAN) /\ FALSE \in Maybe(BOOLEAN)
      BY DEF WType, Maybe
    <3>2. fails' = 0 \/ fails' = fails + 1
      BY <1>3 DEF Alert, AlertHealthy, AlertDown, AlertNeverUp, AlertQuiet
    <3>3. state' = TRUE \/ state' = FALSE \/ state' = state
      BY <1>3, Zenon DEF Alert, AlertHealthy, AlertDown, AlertNeverUp, AlertQuiet
    <3>4. /\ UNCHANGED <<crashes, unwatched, rewound, started, upstream>> /\ pc' = "saveState"
      BY <1>3 DEF Alert, AlertHealthy, AlertDown, AlertNeverUp, AlertQuiet, AlertFrame, Push
    <3>5. state' \in Maybe(BOOLEAN)
      BY <3>1, <3>3, Zenon
    <3>6. fails' \in Nat
      BY <3>1, <3>2
    <3>7. warned' \in BOOLEAN
      BY <1>3, Zenon DEF Alert, AlertHealthy, AlertDown, AlertNeverUp, AlertQuiet, WType
    <3>8. lastPush' \in Pushes
      BY <1>3 DEF Alert, AlertHealthy, AlertDown, AlertNeverUp, AlertQuiet, Push, Pushes, WType
    <3> QED BY <3>1, <3>4, <3>5, <3>6, <3>7, <3>8
  <2>4. UNCHANGED <<clock, stateFile, lines, healthy>>
    BY <1>3 DEF Alert, AlertHealthy, AlertDown, AlertNeverUp, AlertQuiet, AlertFrame
  <2> QED BY <2>2, <2>3, <2>4 DEF WType
<1>4. CASE SaveState \/ SaveDaily
  BY <1>4 DEF SaveState, SaveDaily, WType
<1>5. ASSUME NEW ok \in BOOLEAN, Upstream(ok) PROVE WType'
  <2>1. upstream' \in Maybe(BOOLEAN)
    BY <1>5, Zenon DEF Upstream, WType, Maybe
  <2> QED BY <1>5, <2>1 DEF Upstream, WType
<1>6. CASE Sleep
  <2>1. clock' \in Nat /\ clock' >= clock
    BY <1>6, IntervalAssumption DEF Sleep, WType
  <2>2. UNCHANGED <<stats, files, healthy, locals, history>> /\ pc' \in Steps
    BY <1>6 DEF Sleep
  <2> QED BY <2>1, <2>2 DEF WType
<1>7. ASSUME NEW off \in OffTimes, Restart(off) PROVE WType'
  <2>1. /\ clock' \in Nat /\ unwatched' \in Nat /\ started' \in Int
        /\ crashes' \in 0 .. MaxCrashes
    BY <1>7, BoundAssumption DEF Restart, WType
  <2>2. /\ stats' = stateFile /\ pc' \in Steps /\ warned' = FALSE
        /\ UNCHANGED <<stateFile, lines, healthy, lastPush, rewound>>
    BY <1>7 DEF Restart
  <2>3. fails' \in Nat /\ state' \in Maybe(BOOLEAN) /\ upstream' \in Maybe(BOOLEAN)
    BY <1>7 DEF Restart, WType, StatsType, Outages, Maybe
  <2> QED BY <2>1, <2>2, <2>3 DEF WType
<1>8. ASSUME NEW by \in Rewinds, SetBack(by) PROVE WType'
  BY <1>8, BoundAssumption DEF SetBack, WType
<1>9. CASE UNCHANGED vars
  BY <1>9 DEF vars, WType
<1> QED BY <1>1, <1>2, <1>3, <1>4, <1>5, <1>6, <1>7, <1>8, <1>9 DEF Next, Alert

LEMMA WTypeHolds == Spec => []WType
  BY WTypeInit, WTypeNext, PTL DEF Spec

-----------------------------------------------------------------------------
(* The outages: the counter, the ledger, main()'s count and the alerts. *)

(* Until the state is written, at most one outage is counted that state.json does
   not know of; its line is in the ledger already. *)
Ledger ==
    /\ stateFile.outages <= stats.outages
    /\ stats.outages <= stateFile.outages + (IF pc \in {"alert", "saveState"} THEN 1 ELSE 0)
    /\ lines <= stats.outages + crashes
    /\ lines < MAX_OUTAGES => stats.outages <= lines

(* main()'s count is the outage's, up to the probe just recorded. *)
Streaks ==
    IF pc = "alert" THEN IF healthy THEN Streak = 0 ELSE fails + 1 = Streak
    ELSE fails = Streak

LEMMA ProbeStats ==
    ASSUME WType, Probe
    PROVE  /\ pc = "probe" /\ pc' = "alert"
           /\ UNCHANGED <<clock, stateFile, dailyFile, locals, history>>
           /\ \/ /\ ~healthy' /\ stats'.outages = stats.outages /\ lines' = lines
                 /\ Streak' = Streak + 1
              \/ /\ healthy' /\ Streak' = 0 /\ stats.outage = Unknown
                 /\ stats'.outages = stats.outages /\ lines' = lines
              \/ /\ healthy' /\ Streak' = 0 /\ stats.outage # Unknown
                 /\ stats'.outages = stats.outages + 1
                 /\ lines' = Lesser(lines + 1, MAX_OUTAGES)
           /\ stats'.monitored = stats.monitored + Gap
           /\ stats'.up = stats.up + UpGap /\ stats'.down = stats.down + DownGap
<1>0. /\ 0 \in 0 .. 1 /\ 1 \in 0 .. 1 /\ Unknown \in Maybe(Outages)
      /\ Extended(stats.outage) \in Outages /\ Extended(stats.outage) \in Maybe(Outages)
      /\ Extended(stats.outage) # Unknown
      /\ stats.outages \in Nat
  <2>1. Extended(stats.outage) \in Outages /\ stats.outages \in Nat
    BY ExtendedType DEF WType, StatsType
  <2> QED BY <2>1, UnknownAssumption DEF Maybe
<1>1. CASE ProbeFails
  <2>1. Credit(FALSE, 0, Extended(stats.outage)) /\ lines' = lines
    BY <1>1 DEF ProbeFails, files
  <2>2. /\ stats'.monitored = stats.monitored + Gap
        /\ stats'.up = stats.up + UpGap /\ stats'.down = stats.down + DownGap
        /\ stats'.outages = stats.outages /\ stats'.outage = Extended(stats.outage)
        /\ healthy' = FALSE
    <3>1. stats'.outages = stats.outages + 0 /\ healthy' = FALSE
      BY <1>0, <2>1, CreditStats
    <3>2. /\ stats'.monitored = stats.monitored + Gap
          /\ stats'.up = stats.up + UpGap /\ stats'.down = stats.down + DownGap
          /\ stats'.outage = Extended(stats.outage)
      BY <1>0, <2>1, CreditStats
    <3> QED BY <1>0, <3>1, <3>2
  <2>3. Streak' = Streak + 1
    BY <1>0, <2>2, ExtendedType DEF Streak
  <2> QED BY <1>1, <2>1, <2>2, <2>3 DEF ProbeFails, files
<1>2. CASE ProbeHealthy
  <2>1. Credit(TRUE, 0, Unknown) /\ lines' = lines /\ stats.outage = Unknown
    BY <1>2 DEF ProbeHealthy, files
  <2>2. /\ stats'.monitored = stats.monitored + Gap
        /\ stats'.up = stats.up + UpGap /\ stats'.down = stats.down + DownGap
        /\ stats'.outages = stats.outages /\ stats'.outage = Unknown /\ healthy' = TRUE
    <3>1. TRUE \in BOOLEAN
      OBVIOUS
    <3>2. stats'.outages = stats.outages + 0 /\ healthy' = TRUE
      BY <1>0, <2>1, <3>1, CreditStats
    <3>3. /\ stats'.monitored = stats.monitored + Gap
          /\ stats'.up = stats.up + UpGap /\ stats'.down = stats.down + DownGap
          /\ stats'.outage = Unknown
      BY <1>0, <2>1, <3>1, CreditStats
    <3> QED BY <1>0, <3>2, <3>3
  <2> QED BY <1>2, <2>1, <2>2 DEF ProbeHealthy, files, Streak
<1>3. CASE ProbeRecovers
  <2>1. /\ Credit(TRUE, 1, Unknown) /\ stats.outage # Unknown
        /\ lines' = Lesser(lines + 1, MAX_OUTAGES)
    BY <1>3 DEF ProbeRecovers
  <2>2. /\ stats'.monitored = stats.monitored + Gap
        /\ stats'.up = stats.up + UpGap /\ stats'.down = stats.down + DownGap
        /\ stats'.outages = stats.outages + 1 /\ stats'.outage = Unknown /\ healthy' = TRUE
    <3>1. TRUE \in BOOLEAN
      OBVIOUS
    <3>2. stats'.outages = stats.outages + 1 /\ healthy' = TRUE
      BY <1>0, <2>1, <3>1, CreditStats
    <3>3. /\ stats'.monitored = stats.monitored + Gap
          /\ stats'.up = stats.up + UpGap /\ stats'.down = stats.down + DownGap
          /\ stats'.outage = Unknown
      BY <1>0, <2>1, <3>1, CreditStats
    <3> QED BY <1>0, <3>2, <3>3
  <2> QED BY <1>3, <2>1, <2>2 DEF ProbeRecovers, Streak
<1> QED BY <1>1, <1>2, <1>3 DEF Probe

LEMMA AlertStats ==
    ASSUME WType, Alert
    PROVE  /\ pc = "alert" /\ pc' = "saveState"
           /\ stats'.outages = stats.outages /\ Streak' = Streak
           /\ stats'.monitored = stats.monitored /\ stats'.up = stats.up
           /\ stats'.down = stats.down
           /\ UNCHANGED <<clock, daily, stateFile, dailyFile, lines, healthy, crashes, unwatched>>
           /\ IF healthy THEN fails' = 0 ELSE fails' = fails + 1
<1>1. MarkAlerted \/ UNCHANGED stats
  BY DEF Alert, AlertHealthy, AlertDown, AlertNeverUp, AlertQuiet
<1>2. IF healthy THEN fails' = 0 ELSE fails' = fails + 1
  BY DEF Alert, AlertHealthy, AlertDown, AlertNeverUp, AlertQuiet
<1>3. UNCHANGED <<clock, daily, stateFile, dailyFile, lines, healthy, crashes, unwatched>>
  BY DEF Alert, AlertHealthy, AlertDown, AlertNeverUp, AlertQuiet, AlertFrame, Push, files, history
<1>4. pc = "alert" /\ pc' = "saveState"
  BY DEF Alert, AlertHealthy, AlertDown, AlertNeverUp, AlertQuiet, AlertFrame
<1> QED BY <1>1, <1>2, <1>3, <1>4, MarkStats

(* The steps that neither probe, alert, save the state nor restart. *)
LEMMA QuietStats ==
    ASSUME \/ SaveDaily \/ (\E ok \in BOOLEAN : Upstream(ok)) \/ Sleep
           \/ (\E by \in Rewinds : SetBack(by))
    PROVE  /\ pc \in {"saveDaily", "upstream", "sleep", "probe"}
           /\ pc' \in {"probe", "upstream", "sleep"}
           /\ UNCHANGED <<stats, daily, stateFile, lines, healthy, state, fails, warned>>
           /\ UNCHANGED <<lastPush, crashes, unwatched>>
  BY DEF SaveDaily, Upstream, Sleep, SetBack, files, locals, history

LEMMA LedgerNext == WType /\ Ledger /\ [Next]_vars => Ledger'
<1> SUFFICES ASSUME WType, Ledger, [Next]_vars PROVE Ledger'
  OBVIOUS
<1>t. /\ stats.outages \in Nat /\ stateFile.outages \in Nat
      /\ lines \in 0 .. MAX_OUTAGES /\ crashes \in Nat /\ MAX_OUTAGES \in Nat
  BY SizeAssumption DEF WType, StatsType
<1>1. CASE Probe
  <2>1. /\ pc = "probe" /\ pc' = "alert" /\ stateFile' = stateFile /\ crashes' = crashes
        /\ \/ stats'.outages = stats.outages /\ lines' = lines
           \/ stats'.outages = stats.outages + 1 /\ lines' = Lesser(lines + 1, MAX_OUTAGES)
    BY <1>1, ProbeStats DEF history
  <2> QED BY <1>t, <2>1 DEF Ledger, Lesser
<1>2. CASE Alert
  BY <1>2, <1>t, AlertStats DEF Ledger
<1>3. CASE SaveState
  BY <1>3, <1>t DEF SaveState, Ledger, history
<1>4. CASE \/ SaveDaily \/ (\E ok \in BOOLEAN : Upstream(ok)) \/ Sleep
         \/ (\E by \in Rewinds : SetBack(by))
  BY <1>4, <1>t, QuietStats DEF Ledger, history
<1>5. ASSUME NEW off \in OffTimes, Restart(off) PROVE Ledger'
  BY <1>5, <1>t DEF Restart, Ledger, files
<1>6. CASE UNCHANGED vars
  BY <1>6 DEF vars, Ledger, files, history
<1> QED BY <1>1, <1>2, <1>3, <1>4, <1>5, <1>6 DEF Next, Probe, Alert

(* Every counted outage has its line (up to the prune), and a line too many is
   the work of a restart: _close_outage appends, save() comes later. *)
THEOREM LedgerComplete == Spec => []LedgerExplained
<1>1. Init => Ledger
  BY SizeAssumption DEF Init, Ledger, FreshStats
<1>2. WType /\ Ledger => LedgerExplained
  BY SizeAssumption DEF WType, StatsType, Ledger, LedgerExplained
<1> QED BY <1>1, <1>2, LedgerNext, WTypeHolds, PTL DEF Spec

LEMMA StreaksNext == WType /\ Streaks /\ [Next]_vars => Streaks'
<1> SUFFICES ASSUME WType, Streaks, [Next]_vars PROVE Streaks'
  OBVIOUS
<1>t. fails \in Nat
  BY DEF WType
<1>1. CASE Probe
  <2>1. /\ pc = "probe" /\ pc' = "alert" /\ fails' = fails
        /\ (~healthy' /\ Streak' = Streak + 1) \/ (healthy' /\ Streak' = 0)
    BY <1>1, ProbeStats DEF locals
  <2> QED BY <1>t, <2>1 DEF Streaks
<1>2. CASE Alert
  <2>1. /\ pc = "alert" /\ pc' = "saveState" /\ Streak' = Streak
        /\ IF healthy THEN fails' = 0 ELSE fails' = fails + 1
    BY <1>2, AlertStats
  <2> QED BY <2>1 DEF Streaks
<1>3. CASE SaveState
  BY <1>3 DEF SaveState, Streaks, Streak, locals
<1>4. CASE \/ SaveDaily \/ (\E ok \in BOOLEAN : Upstream(ok)) \/ Sleep
         \/ (\E by \in Rewinds : SetBack(by))
  BY <1>4, QuietStats DEF Streaks, Streak
<1>5. ASSUME NEW off \in OffTimes, Restart(off) PROVE Streaks'
  BY <1>5 DEF Restart, Streaks, Streak
<1>6. CASE UNCHANGED vars
  BY <1>6 DEF vars, Streaks, Streak, locals
<1> QED BY <1>1, <1>2, <1>3, <1>4, <1>5, <1>6 DEF Next, Probe, Alert

(* main()'s count of failed probes is the outage's own, restarts included. *)
THEOREM StreaksAgree == Spec => []FailsFollowOutage
<1>1. Init => Streaks
  BY DEF Init, Streaks, Streak, FreshStats
<1>2. Streaks => FailsFollowOutage
  BY DEF Streaks, FailsFollowOutage
<1> QED BY <1>1, <1>2, StreaksNext, WTypeHolds, PTL DEF Spec

-----------------------------------------------------------------------------
(* The alerts. *)

(* While the path counts as down, the outage on record has been alerted; and a
   failure count past the threshold has been acted on. *)
OnRecord == stats.outage # Unknown /\ stats.outage.alerted
Alerted ==
    /\ state = TRUE => lastPush \in {"online", "recovered"}
    /\ crashes = 0 =>
        /\ state = FALSE => lastPush = "DOWN"
        /\ state = FALSE /\ ~(pc = "alert" /\ healthy) => OnRecord
        /\ state = TRUE /\ pc # "alert" => Streak < FAIL_THRESHOLD

LEMMA AlertedNext == WType /\ Streaks /\ Alerted /\ [Next]_vars => Alerted'
<1> SUFFICES ASSUME WType, Streaks, Alerted, [Next]_vars PROVE Alerted'
  OBVIOUS
<1>t. fails \in Nat /\ crashes \in Nat /\ stats \in StatsType /\ FAIL_THRESHOLD \in Nat \ {0}
  BY IntervalAssumption DEF WType
<1>1. CASE Probe
  <2>1. /\ pc = "probe" /\ pc' = "alert" /\ UNCHANGED <<state, lastPush, crashes>>
    BY <1>1, ProbeStats DEF locals, history
  <2>2. ProbeFails => (OnRecord => OnRecord') /\ ~healthy'
    <3>1. SUFFICES ASSUME ProbeFails PROVE (OnRecord => OnRecord') /\ ~healthy'
      OBVIOUS
    <3>2. Credit(FALSE, 0, Extended(stats.outage)) /\ Extended(stats.outage) \in Maybe(Outages)
      BY <3>1, ExtendedType DEF ProbeFails, Maybe
    <3>3. stats'.outage = Extended(stats.outage) /\ healthy' = FALSE
      <4>1. 0 \in 0 .. 1 /\ FALSE \in BOOLEAN
        OBVIOUS
      <4> QED BY <3>2, <4>1, CreditStats
    <3> QED BY <3>3, ExtendedType, UnknownAssumption DEF OnRecord
  <2>3. ProbeHealthy => state # FALSE \/ crashes # 0
    BY <2>1 DEF ProbeHealthy, Alerted, OnRecord
  <2>4. ProbeRecovers => healthy'
    BY DEF ProbeRecovers, Credit
  <2> QED BY <1>1, <2>1, <2>2, <2>3, <2>4 DEF Probe, Alerted
<1>2. CASE Alert
  <2>1. /\ pc = "alert" /\ pc' = "saveState" /\ Streak' = Streak /\ crashes' = crashes
    BY <1>2, AlertStats
  <2>2. CASE AlertHealthy
    BY <2>1, <2>2, <1>t DEF AlertHealthy, Push, Alerted, Streaks, history
  <2>3. CASE AlertDown
    <3>1. ~healthy /\ Streak >= FAIL_THRESHOLD
      BY <2>1, <2>3, <1>t DEF AlertDown, Sustained, Streaks
    <3>2. OnRecord'
      <4>1. stats.outage # Unknown
        BY <3>1, <1>t DEF Streak
      <4>2. stats.outage \in Outages
        BY <1>t, <4>1 DEF StatsType, Maybe
      <4>3. CASE stats.outage.alerted
        BY <2>3, <4>1, <4>3 DEF AlertDown, MarkAlerted, OnRecord
      <4>4. CASE ~stats.outage.alerted
        <5>1. stats'.outage = [stats.outage EXCEPT !.alerted = TRUE]
          BY <2>3, <4>1, <4>4, <1>t DEF AlertDown, MarkAlerted, StatsType
        <5>2. [stats.outage EXCEPT !.alerted = TRUE] \in Outages
          BY <4>2 DEF Outages
        <5> QED BY <5>1, <5>2, <4>2, UnknownAssumption DEF OnRecord, Outages
      <4> QED BY <4>3, <4>4
    <3>3. state' = FALSE /\ lastPush' = "DOWN" /\ healthy' = healthy
      BY <2>3 DEF AlertDown, Push, AlertFrame
    <3> QED BY <2>1, <3>2, <3>3 DEF Alerted
  <2>4. CASE AlertNeverUp
    BY <2>1, <2>4, UnknownAssumption DEF AlertNeverUp, NeverUp, AlertFrame, Alerted
  <2>5. CASE AlertQuiet
    <3>1. /\ ~healthy /\ UNCHANGED <<stats, state, lastPush, healthy>>
          /\ state = TRUE => fails + 1 < FAIL_THRESHOLD
      BY <2>5, <1>t DEF AlertQuiet, Sustained, AlertFrame, history
    <3> QED BY <2>1, <3>1, <1>t DEF Alerted, Streaks, OnRecord
  <2> QED BY <1>2, <2>2, <2>3, <2>4, <2>5 DEF Alert
<1>3. CASE SaveState
  BY <1>3 DEF SaveState, Alerted, OnRecord, Streak, locals, history
<1>4. CASE \/ SaveDaily \/ (\E ok \in BOOLEAN : Upstream(ok)) \/ Sleep
         \/ (\E by \in Rewinds : SetBack(by))
  BY <1>4, QuietStats DEF Alerted, OnRecord, Streak, history
<1>5. ASSUME NEW off \in OffTimes, Restart(off) PROVE Alerted'
  <2>1. crashes' # 0
    BY <1>5, <1>t DEF Restart
  <2>2. state' # TRUE
    BY <1>5, UnknownAssumption DEF Restart
  <2> QED BY <2>1, <2>2 DEF Alerted
<1>6. CASE UNCHANGED vars
  BY <1>6 DEF vars, Alerted, OnRecord, Streak, locals, history
<1> QED BY <1>1, <1>2, <1>3, <1>4, <1>5, <1>6 DEF Next, Probe, Alert

LEMMA AlertedHolds == Spec => [](WType /\ Streaks /\ Alerted)
<1>1. Init => Streaks /\ Alerted
  <2> SUFFICES ASSUME Init PROVE Streaks /\ Alerted
    OBVIOUS
  <2>1. state # TRUE /\ state # FALSE
    BY UnknownAssumption DEF Init
  <2>2. stats.outage = Unknown /\ pc = "probe" /\ fails = 0
    BY DEF Init, FreshStats
  <2>3. Streaks
    BY <2>2 DEF Streaks, Streak
  <2>4. Alerted
    BY <2>1, Zenon DEF Alerted
  <2> QED BY <2>3, <2>4
<1> QED BY <1>1, StreaksNext, AlertedNext, WTypeHolds, PTL DEF Spec

(* A watchdog that is not restarted alerts on every sustained outage, and its
   "recovered" follows a DOWN. *)
THEOREM SustainedAlerted == Spec => []AlertedUnlessRestarted
<1>1. WType /\ Alerted => AlertedUnlessRestarted
  <2> SUFFICES ASSUME WType, Alerted, crashes = 0
               PROVE  /\ Sustains => stats.outage.alerted
                      /\ state = FALSE => lastPush = "DOWN"
    BY DEF AlertedUnlessRestarted
  <2>1. CASE Sustains
    <3>1. state = TRUE \/ state = FALSE
      BY <2>1 DEF Sustains, WType, Maybe
    <3>2. Streak \in Int /\ FAIL_THRESHOLD \in Nat
      BY IntervalAssumption DEF WType, StatsType, Maybe, Outages, Streak
    <3> QED BY <2>1, <3>1, <3>2 DEF Sustains, Alerted, OnRecord
  <2> QED BY <2>1 DEF Alerted
<1> QED BY <1>1, AlertedHolds, PTL

(* One DOWN alert per outage: between two the path was reported healthy again,
   restarts included. *)
THEOREM DownOnce == Spec => DownNotRepeated
<1>1. Alerted => (AlertDown => lastPush \in {"online", "recovered"})
  BY DEF Alerted, AlertDown, Sustained
<1>2. Alerted /\ [Next]_vars => [AlertDown => lastPush \in {"online", "recovered"}]_vars
  BY <1>1
<1> QED BY <1>2, AlertedHolds, PTL DEF Spec, DownNotRepeated

-----------------------------------------------------------------------------
(* The uptime account. *)

Rows(rows) == \A d \in DOMAIN rows : rows[d] \in Buckets /\ Balanced(rows[d])
Account == Balanced(stats) /\ Balanced(stateFile) /\ Rows(daily) /\ Rows(dailyFile)

LEMMA FoldBalanced ==
    ASSUME WType, NEW b \in Buckets, Balanced(b), NEW closed \in 0 .. 1
    PROVE  Fold(b, closed) \in Buckets /\ Balanced(Fold(b, closed))
<1>1. /\ Gap \in Nat /\ UpGap \in Nat /\ DownGap \in Nat /\ Gap = UpGap + DownGap
  BY GapSplit
<1>2. /\ b.up \in Nat /\ b.down \in Nat /\ b.monitored \in Nat /\ b.outages \in Nat
      /\ b.monitored = b.up + b.down
  BY DEF Buckets, Balanced
<1> QED BY <1>1, <1>2 DEF Fold, Buckets, Balanced

LEMMA CreditRows ==
    ASSUME WType, Rows(daily), NEW ok, NEW closed \in 0 .. 1, NEW o, Credit(ok, closed, o)
    PROVE  Rows(daily)'
<1>1. daily' = [d \in Newest(DOMAIN daily \cup {Today}) |->
                    IF d = Today THEN Fold(Bucket(d), closed) ELSE daily[d]]
  BY DEF Credit
<1>2. SUFFICES ASSUME NEW d \in Newest(DOMAIN daily \cup {Today})
               PROVE  daily'[d] \in Buckets /\ Balanced(daily'[d])
  BY <1>1 DEF Rows, Balanced
<1>3. d \in DOMAIN daily \cup {Today}
  BY DEF Newest
<1>4. CASE d = Today
  <2>1. Bucket(d) \in Buckets /\ Balanced(Bucket(d))
    BY DEF Bucket, Buckets, Balanced, Rows
  <2>2. daily'[d] = Fold(Bucket(d), closed)
    BY <1>1, <1>4
  <2> QED BY <2>1, <2>2, FoldBalanced
<1>5. CASE d # Today
  BY <1>1, <1>3, <1>5 DEF Rows
<1> QED BY <1>4, <1>5

LEMMA AccountNext == WType /\ Account /\ [Next]_vars => Account'
<1> SUFFICES ASSUME WType, Account, [Next]_vars PROVE Account'
  OBVIOUS
<1>1. CASE Probe
  <2>1. Balanced(stats)'
    <3>1. /\ stats.monitored \in Nat /\ stats.up \in Nat /\ stats.down \in Nat
          /\ stats.monitored = stats.up + stats.down
      BY DEF WType, StatsType, Account, Balanced
    <3>2. /\ stats'.monitored = stats.monitored + Gap
          /\ stats'.up = stats.up + UpGap /\ stats'.down = stats.down + DownGap
      BY <1>1, ProbeStats
    <3> QED BY <3>1, <3>2, GapSplit DEF Balanced
  <2>2. Rows(daily)'
    <3>1. 0 \in 0 .. 1 /\ 1 \in 0 .. 1
      OBVIOUS
    <3> QED BY <1>1, <3>1, CreditRows DEF Probe, ProbeFails, ProbeHealthy, ProbeRecovers, Account
  <2>3. stateFile' = stateFile /\ dailyFile' = dailyFile
    BY <1>1, ProbeStats
  <2> QED BY <2>1, <2>2, <2>3 DEF Account, Balanced, Rows
<1>2. CASE Alert
  BY <1>2, AlertStats DEF Account, Balanced, Rows
<1>3. CASE SaveState
  BY <1>3 DEF SaveState, Account, Balanced, Rows
<1>4. CASE SaveDaily
  BY <1>4 DEF SaveDaily, Account, Balanced, Rows
<1>5. CASE \/ (\E ok \in BOOLEAN : Upstream(ok)) \/ Sleep
         \/ (\E by \in Rewinds : SetBack(by))
  BY <1>5 DEF Upstream, Sleep, SetBack, Account, Balanced, Rows, files
<1>6. ASSUME NEW off \in OffTimes, Restart(off) PROVE Account'
  BY <1>6 DEF Restart, Account, Balanced, Rows, files
<1>7. CASE UNCHANGED vars
  BY <1>7 DEF vars, Account, Balanced, Rows, files
<1> QED BY <1>1, <1>2, <1>3, <1>4, <1>5, <1>6, <1>7 DEF Next, Probe, Alert

(* Uptime is exact: account() adds every credited tick once, as up or as down, to
   the lifetime counters and to the day, and no kill between two writes leaves a
   file that disagrees with itself. *)
THEOREM UptimeConserved == Spec => []Conserved
<1>1. Init => Account
  BY DEF Init, Account, FreshStats, NoBuckets, Balanced, Rows
<1>2. Account => Conserved
  BY DEF Account, Rows, Conserved
<1> QED BY <1>1, <1>2, AccountNext, WTypeHolds, PTL DEF Spec

-----------------------------------------------------------------------------
(* Time that is not guessed.  What a record may still be credited with at the next
   probe counts as used already; for the file too, since a restart makes it the
   record, in a time that has gone on by the restart. *)

Pending(r, at) ==
    IF r.lastProbe = Unknown THEN 0
    ELSE IF at <= r.lastProbe THEN 0 ELSE Lesser(at - r.lastProbe, Cap)
CoveredAt(r, at, back, off, kills) ==
    IF r.first = Unknown THEN r.lastProbe = Unknown /\ r.monitored = 0 /\ off = 0
    ELSE r.monitored + Pending(r, at) + off <= (at - r.first) + back + kills * Cap
Covered(r) == CoveredAt(r, clock, rewound, unwatched, crashes)
Accounted ==
    /\ Covered(stats) /\ Covered(stateFile)
    /\ stats.first = Unknown => stateFile.first = Unknown

LEMMA CapNat == Cap \in Nat
  BY IntervalAssumption DEF Cap

LEMMA PendingBounds ==
    ASSUME NEW r \in StatsType, NEW at \in Nat
    PROVE  Pending(r, at) \in Nat /\ Pending(r, at) <= Cap
<1>1. r.lastProbe \in Maybe(Nat)
  BY DEF StatsType
<1> QED BY <1>1, CapNat, UnknownAssumption DEF Pending, Lesser, Maybe

(* As time goes on, the credit still open grows no faster than the time; setting
   the clock back does not make it larger. *)
LEMMA PendingMoves ==
    ASSUME NEW r \in StatsType, NEW at \in Nat, NEW n \in Nat
    PROVE  /\ Pending(r, at + n) <= Pending(r, at) + n
           /\ at - n \in Nat => Pending(r, at - n) <= Pending(r, at)
<1>1. r.lastProbe \in Maybe(Nat)
  BY DEF StatsType
<1> QED BY <1>1, CapNat, UnknownAssumption DEF Pending, Lesser, Maybe

LEMMA CoveredMoves ==
    ASSUME NEW r \in StatsType, NEW at \in Nat, NEW back \in Nat, NEW off \in Nat,
           NEW kills \in Nat, NEW n \in Nat, CoveredAt(r, at, back, off, kills)
    PROVE  /\ CoveredAt(r, at + n, back, off, kills)
           /\ at - n \in Nat => CoveredAt(r, at - n, back + n, off, kills)
           /\ CoveredAt(r, at + n, back, IF r.first = Unknown THEN 0 ELSE off + n, kills + 1)
<1>1. r.first \in Maybe(Nat) /\ r.monitored \in Nat
  BY DEF StatsType
<1>2. CASE r.first = Unknown
  BY <1>2 DEF CoveredAt
<1>3. CASE r.first # Unknown
  <2>1. r.first \in Nat /\ r.first # Unknown
    BY <1>1, <1>3 DEF Maybe
  <2>2. kills * Cap \in Nat /\ (kills + 1) * Cap = kills * Cap + Cap
    BY CapNat
  <2>3. /\ Pending(r, at) \in Nat /\ Pending(r, at + n) \in Nat /\ Pending(r, at + n) <= Cap
        /\ Pending(r, at + n) <= Pending(r, at) + n
    <3>1. at + n \in Nat
      OBVIOUS
    <3>2. Pending(r, at + n) \in Nat /\ Pending(r, at + n) <= Cap
      BY <3>1, PendingBounds
    <3> QED BY <3>2, PendingBounds, PendingMoves
  <2>4. at - n \in Nat => Pending(r, at - n) \in Nat /\ Pending(r, at - n) <= Pending(r, at)
    BY PendingBounds, PendingMoves
  <2>5. r.monitored + Pending(r, at) + off <= (at - r.first) + back + kills * Cap
    BY <2>1 DEF CoveredAt
  <2>6. r.monitored + Pending(r, at + n) + off <= (at + n - r.first) + back + kills * Cap
    BY <1>1, <2>1, <2>2, <2>3, <2>5
  <2>7. at - n \in Nat =>
          r.monitored + Pending(r, at - n) + off <= (at - n - r.first) + (back + n) + kills * Cap
    BY <1>1, <2>1, <2>2, <2>3, <2>4, <2>5
  <2>8. r.monitored + Pending(r, at + n) + (off + n)
          <= (at + n - r.first) + back + (kills + 1) * Cap
    BY <1>1, <2>1, <2>2, <2>3, <2>5, CapNat
  <2> QED BY <2>1, <2>6, <2>7, <2>8 DEF CoveredAt
<1> QED BY <1>2, <1>3

(* A probe turns what was open into what is counted. *)
LEMMA ProbeCovers ==
    ASSUME WType, Accounted, NEW ok \in BOOLEAN, NEW closed \in 0 .. 1,
           NEW o \in Maybe(Outages), Credit(ok, closed, o),
           UNCHANGED <<clock, rewound, unwatched, crashes>>
    PROVE  Covered(stats)' /\ stats'.first # Unknown
<1>1. /\ stats \in StatsType /\ clock \in Nat /\ rewound \in Nat /\ unwatched \in Nat
      /\ crashes \in Nat
  BY BoundAssumption DEF WType
<1>2. /\ stats'.first = (IF stats.first = Unknown THEN clock ELSE stats.first)
      /\ stats'.monitored = stats.monitored + Gap /\ stats'.lastProbe = clock
      /\ stats' \in StatsType
  BY CreditStats
<1>3. Gap = Pending(stats, clock) /\ Gap \in Nat
  BY GapSplit DEF Gap, Pending
<1>4. Pending(stats', clock) = 0 /\ stats'.first # Unknown /\ stats'.first \in Nat
  BY <1>1, <1>2, UnknownAssumption DEF Pending, StatsType, Maybe
<1>5. stats.monitored \in Nat /\ crashes * Cap \in Nat
  BY <1>1, CapNat DEF StatsType
<1>6. stats'.monitored + unwatched <= (clock - stats'.first) + rewound + crashes * Cap
  <2>1. CASE stats.first = Unknown
    <3>1. Gap = 0 /\ stats.monitored = 0 /\ unwatched = 0
      BY <2>1, <1>3 DEF Accounted, Covered, CoveredAt, Pending
    <3> QED BY <2>1, <3>1, <1>1, <1>2, <1>5
  <2>2. CASE stats.first # Unknown
    <3>1. stats.monitored + Gap + unwatched <= (clock - stats.first) + rewound + crashes * Cap
      BY <2>2, <1>3 DEF Accounted, Covered, CoveredAt
    <3> QED BY <2>2, <3>1, <1>2
  <2> QED BY <2>1, <2>2
<1>7. stats'.monitored \in Nat
  BY <1>2 DEF StatsType
<1> QED BY <1>1, <1>4, <1>5, <1>6, <1>7 DEF Covered, CoveredAt

LEMMA AccountedNext == WType /\ Accounted /\ [Next]_vars => Accounted'
<1> SUFFICES ASSUME WType, Accounted, [Next]_vars PROVE Accounted'
  OBVIOUS
<1>t. /\ stats \in StatsType /\ stateFile \in StatsType /\ clock \in Nat
      /\ rewound \in Nat /\ unwatched \in Nat /\ crashes \in Nat
  BY BoundAssumption DEF WType
<1>1. CASE Probe
  <2>1. UNCHANGED <<clock, stateFile, rewound, unwatched, crashes>>
    BY <1>1, ProbeStats DEF history
  <2>2. Covered(stats)' /\ stats'.first # Unknown
    <3>1. /\ Extended(stats.outage) \in Maybe(Outages) /\ Unknown \in Maybe(Outages)
          /\ 0 \in 0 .. 1 /\ 1 \in 0 .. 1 /\ TRUE \in BOOLEAN /\ FALSE \in BOOLEAN
      BY ExtendedType DEF Maybe
    <3>2. CASE ProbeFails
      BY <2>1, <3>1, <3>2, ProbeCovers DEF ProbeFails
    <3>3. CASE ProbeHealthy
      BY <2>1, <3>1, <3>3, ProbeCovers DEF ProbeHealthy
    <3>4. CASE ProbeRecovers
      BY <2>1, <3>1, <3>4, ProbeCovers DEF ProbeRecovers
    <3> QED BY <1>1, <3>2, <3>3, <3>4 DEF Probe
  <2> QED BY <2>1, <2>2 DEF Accounted, Covered
<1>2. CASE Alert
  <2>1. UNCHANGED <<clock, stateFile, unwatched, crashes, rewound>>
    BY <1>2, AlertStats
       DEF Alert, AlertHealthy, AlertDown, AlertNeverUp, AlertQuiet, Push, history
  <2>2. /\ stats'.monitored = stats.monitored /\ stats'.lastProbe = stats.lastProbe
        /\ stats'.first = stats.first
    <3>1. MarkAlerted \/ UNCHANGED stats
      BY <1>2 DEF Alert, AlertHealthy, AlertDown, AlertNeverUp, AlertQuiet
    <3> QED BY <3>1, MarkStats
  <2> QED BY <2>1, <2>2 DEF Accounted, Covered, CoveredAt, Pending
<1>3. CASE SaveState
  BY <1>3 DEF SaveState, Accounted, Covered, history
<1>4. CASE SaveDaily \/ (\E ok \in BOOLEAN : Upstream(ok))
  BY <1>4 DEF SaveDaily, Upstream, Accounted, Covered, history, files
<1>5. CASE Sleep
  <2>1. PICK n \in Nat : clock' = clock + n
    BY <1>5, IntervalAssumption DEF Sleep
  <2>2. UNCHANGED <<stats, stateFile, rewound, unwatched, crashes>>
    BY <1>5 DEF Sleep, files, history
  <2> QED BY <1>t, <2>1, <2>2, CoveredMoves DEF Accounted, Covered
<1>6. ASSUME NEW off \in OffTimes, Restart(off) PROVE Accounted'
  <2>1. /\ clock' = clock + off /\ stats' = stateFile /\ crashes' = crashes + 1
        /\ unwatched' = (IF stateFile.first = Unknown THEN 0 ELSE unwatched + off)
        /\ UNCHANGED <<stateFile, rewound>> /\ off \in Nat
    BY <1>6, BoundAssumption DEF Restart, files
  <2>2. CoveredAt(stateFile, clock + off, rewound,
                  IF stateFile.first = Unknown THEN 0 ELSE unwatched + off, crashes + 1)
    BY <1>t, <2>1, CoveredMoves DEF Accounted, Covered
  <2> QED BY <2>1, <2>2 DEF Accounted, Covered
<1>7. ASSUME NEW by \in Rewinds, SetBack(by) PROVE Accounted'
  <2>1. /\ clock' = clock - by /\ rewound' = rewound + by /\ clock - by \in Nat /\ by \in Nat
        /\ UNCHANGED <<stats, stateFile, unwatched, crashes>>
    BY <1>7, <1>t, BoundAssumption DEF SetBack, files
  <2> QED BY <1>t, <2>1, CoveredMoves DEF Accounted, Covered
<1>8. CASE UNCHANGED vars
  BY <1>8 DEF vars, Accounted, Covered, files, history
<1> QED BY <1>1, <1>2, <1>3, <1>4, <1>5, <1>6, <1>7, <1>8 DEF Next, Probe, Alert

(* Time without a watchdog is not guessed: at most attribute_cap per restart, and
   the ticks by which the clock was set back, are counted beyond the time there was. *)
THEOREM NothingGuessed == Spec => []NotGuessed
<1>1. Init => Accounted
  BY DEF Init, Accounted, Covered, CoveredAt, FreshStats
<1>2. WType /\ Accounted => NotGuessed
  <2> SUFFICES ASSUME WType, Accounted, stats.first # Unknown
               PROVE  stats.monitored + unwatched
                        <= (clock - stats.first) + rewound + crashes * Cap
    BY DEF NotGuessed
  <2>1. Pending(stats, clock) \in Nat
    BY PendingBounds DEF WType
  <2>2. /\ stats.monitored \in Nat /\ stats.first \in Nat /\ unwatched \in Nat
        /\ clock \in Nat /\ rewound \in Nat /\ crashes * Cap \in Nat
    BY CapNat, BoundAssumption DEF WType, StatsType, Maybe
  <2>3. stats.monitored + Pending(stats, clock) + unwatched
          <= (clock - stats.first) + rewound + crashes * Cap
    BY DEF Accounted, Covered, CoveredAt
  <2> QED BY <2>1, <2>2, <2>3
<1> QED BY <1>1, <1>2, AccountedNext, WTypeHolds, PTL DEF Spec

-----------------------------------------------------------------------------
(* Counted is counted. *)

LEMMA CreditGrows ==
    ASSUME WType, Rows(daily), NEW ok \in BOOLEAN, NEW closed \in 0 .. 1,
           NEW o \in Maybe(Outages), Credit(ok, closed, o)
    PROVE  /\ stats'.up >= stats.up /\ stats'.down >= stats.down
           /\ \A d \in DOMAIN daily \cap DOMAIN daily' : daily'[d].monitored >= daily[d].monitored
<1>1. /\ Gap \in Nat /\ UpGap \in Nat /\ DownGap \in Nat
  BY GapSplit
<1>2. /\ stats'.up = stats.up + UpGap /\ stats'.down = stats.down + DownGap
      /\ stats.up \in Nat /\ stats.down \in Nat
  BY CreditStats DEF WType, StatsType
<1>3. ASSUME NEW d \in DOMAIN daily \cap DOMAIN daily'
      PROVE  daily'[d].monitored >= daily[d].monitored
  <2>1. /\ daily' = [e \in Newest(DOMAIN daily \cup {Today}) |->
                    IF e = Today THEN Fold(Bucket(e), closed) ELSE daily[e]]
        /\ d \in Newest(DOMAIN daily \cup {Today})
    BY <1>3 DEF Credit
  <2>2. daily[d].monitored \in Nat /\ Bucket(d) = daily[d]
    BY <1>3 DEF Rows, Buckets, Bucket
  <2>3. CASE d = Today
    BY <1>1, <2>1, <2>2, <2>3 DEF Fold
  <2>4. CASE d # Today
    BY <2>1, <2>2, <2>4
  <2> QED BY <2>3, <2>4
<1> QED BY <1>1, <1>2, <1>3

(* What is counted stays counted: neither a clock that is set back nor a prune nor
   a probe takes seconds away from the lifetime counters or from a day's row. *)
THEOREM CountedStays == Spec => NeverTakenBack
<1> DEFINE Kept ==
      /\ stats'.up >= stats.up /\ stats'.down >= stats.down
      /\ \A d \in DOMAIN daily \cap DOMAIN daily' : daily'[d].monitored >= daily[d].monitored
<1>1. WType /\ Account /\ [Next]_vars => [crashes' # crashes \/ Kept]_vars
  <2> SUFFICES ASSUME WType, Account, Next PROVE crashes' # crashes \/ Kept
    OBVIOUS
  <2>t. /\ stats.up \in Nat /\ stats.down \in Nat
        /\ \A d \in DOMAIN daily : daily[d].monitored \in Nat
    BY DEF WType, StatsType, Account, Rows, Buckets
  <2>1. CASE Probe
    <3>1. /\ Extended(stats.outage) \in Maybe(Outages) /\ Unknown \in Maybe(Outages)
          /\ 0 \in 0 .. 1 /\ 1 \in 0 .. 1 /\ TRUE \in BOOLEAN /\ FALSE \in BOOLEAN
      BY ExtendedType DEF Maybe
    <3>2. CASE ProbeFails
      BY <3>1, <3>2, CreditGrows DEF ProbeFails, Account
    <3>3. CASE ProbeHealthy
      BY <3>1, <3>3, CreditGrows DEF ProbeHealthy, Account
    <3>4. CASE ProbeRecovers
      BY <3>1, <3>4, CreditGrows DEF ProbeRecovers, Account
    <3> QED BY <2>1, <3>2, <3>3, <3>4 DEF Probe
  <2>2. CASE Alert
    BY <2>2, <2>t, AlertStats
  <2>3. CASE SaveState
    BY <2>3, <2>t DEF SaveState
  <2>4. CASE \/ SaveDaily \/ (\E ok \in BOOLEAN : Upstream(ok)) \/ Sleep
             \/ (\E by \in Rewinds : SetBack(by))
    BY <2>4, <2>t, QuietStats
  <2>5. ASSUME NEW off \in OffTimes, Restart(off) PROVE crashes' # crashes
    BY <2>5, BoundAssumption DEF Restart, WType
  <2> QED BY <2>1, <2>2, <2>3, <2>4, <2>5 DEF Next, Probe, Alert
<1>2. Init => Account
  BY DEF Init, Account, FreshStats, NoBuckets, Balanced, Rows
<1> QED BY <1>1, <1>2, AccountNext, WTypeHolds, PTL DEF Spec, NeverTakenBack

-----------------------------------------------------------------------------
(* The days' rows: at most MAX_DAYS of them.  Of a set of days the prune leaves
   those with fewer than MAX_DAYS newer ones; all it leaves but the oldest are
   newer than the oldest. *)

LEMMA NewestBound ==
    ASSUME NEW S \in SUBSET Nat, IsFiniteSet(S)
    PROVE  IsFiniteSet(Newest(S)) /\ Cardinality(Newest(S)) <= MAX_DAYS
<1>1. IsFiniteSet(Newest(S)) /\ Newest(S) \in SUBSET Nat
  BY FS_Subset DEF Newest
<1>2. CASE Newest(S) = {}
  BY <1>1, <1>2, FS_EmptySet, SizeAssumption
<1>3. CASE Newest(S) # {}
  <2>1. PICK m \in Newest(S) : \A e \in Newest(S) : m <= e
    BY <1>1, <1>3, LeastElement
  <2>2. Newest(S) \ {m} \subseteq {e \in S : e > m}
    BY <1>1, <2>1 DEF Newest
  <2>3. IsFiniteSet({e \in S : e > m}) /\ Cardinality({e \in S : e > m}) < MAX_DAYS
    BY <2>1, FS_Subset DEF Newest
  <2>4. Cardinality(Newest(S) \ {m}) <= Cardinality({e \in S : e > m})
    BY <2>2, <2>3, FS_Subset
  <2>5. Cardinality(Newest(S) \ {m}) = Cardinality(Newest(S)) - 1
    BY <1>1, <2>1, FS_RemoveElement
  <2>6. Cardinality(Newest(S)) \in Nat /\ Cardinality({e \in S : e > m}) \in Nat
    BY <1>1, <2>3, FS_CardinalityType
  <2> QED BY <1>1, <2>3, <2>4, <2>5, <2>6, SizeAssumption
<1> QED BY <1>2, <1>3

Days(rows) ==
    /\ DOMAIN rows \in SUBSET Nat /\ IsFiniteSet(DOMAIN rows)
    /\ Cardinality(DOMAIN rows) <= MAX_DAYS
Shelf == Days(daily) /\ Days(dailyFile)

LEMMA ShelfNext == WType /\ Shelf /\ [Next]_vars => Shelf'
<1> SUFFICES ASSUME WType, Shelf, [Next]_vars PROVE Shelf'
  OBVIOUS
<1>1. CASE Probe
  <2>1. DOMAIN daily' = Newest(DOMAIN daily \cup {Today}) /\ dailyFile' = dailyFile
    BY <1>1 DEF Probe, ProbeFails, ProbeHealthy, ProbeRecovers, Credit, files
  <2>2. Today \in Nat
    BY SizeAssumption DEF WType, Today
  <2>3. DOMAIN daily \cup {Today} \in SUBSET Nat /\ IsFiniteSet(DOMAIN daily \cup {Today})
    BY <2>2, FS_AddElement DEF Shelf, Days
  <2> QED BY <2>1, <2>3, NewestBound DEF Shelf, Days, Newest
<1>2. CASE Alert
  BY <1>2, AlertStats DEF Shelf, Days
<1>3. CASE SaveState
  BY <1>3 DEF SaveState, Shelf, Days
<1>4. CASE SaveDaily
  BY <1>4 DEF SaveDaily, Shelf, Days
<1>5. CASE \/ (\E ok \in BOOLEAN : Upstream(ok)) \/ Sleep
         \/ (\E by \in Rewinds : SetBack(by))
  BY <1>5 DEF Upstream, Sleep, SetBack, Shelf, Days, files
<1>6. ASSUME NEW off \in OffTimes, Restart(off) PROVE Shelf'
  BY <1>6 DEF Restart, Shelf, Days, files
<1>7. CASE UNCHANGED vars
  BY <1>7 DEF vars, Shelf, Days, files
<1> QED BY <1>1, <1>2, <1>3, <1>4, <1>5, <1>6, <1>7 DEF Next, Probe, Alert

(* Types of the watchdog and of its files, and that both files stay within their
   sizes whatever the clock does ("it never grows without bound"). *)
THEOREM WatchdogTyped == Spec => []TypeOK
<1>1. Init => Account /\ Shelf
  <2> SUFFICES ASSUME Init PROVE Account /\ Shelf
    OBVIOUS
  <2>1. Account
    BY DEF Init, Account, FreshStats, NoBuckets, Balanced, Rows
  <2>2. DOMAIN daily = {} /\ DOMAIN dailyFile = {}
    BY DEF Init, NoBuckets
  <2>3. Shelf
    BY <2>2, FS_EmptySet, SizeAssumption DEF Shelf, Days
  <2> QED BY <2>1, <2>3
<1>2. WType /\ Account /\ Shelf => TypeOK
  BY DEF WType, Account, Rows, Shelf, Days, TypeOK
<1> QED BY <1>1, <1>2, AccountNext, ShelfNext, WTypeHolds, PTL DEF Spec

-----------------------------------------------------------------------------
(* The days' rows against the lifetime counters. *)

(* A prune keeps the row of day 0 only if it keeps every row. *)
LEMMA FirstDayLast ==
    ASSUME NEW S \in SUBSET Nat, IsFiniteSet(S), 0 \in Newest(S)
    PROVE  Newest(S) = S
<1>1. ASSUME NEW d \in S PROVE Cardinality({e \in S : e > d}) < MAX_DAYS
  <2>1. {e \in S : e > d} \subseteq {e \in S : e > 0}
    <3>1. \A e \in S : e > d => e > 0
      BY <1>1
    <3> QED BY <3>1
  <2>2. IsFiniteSet({e \in S : e > 0}) /\ Cardinality({e \in S : e > 0}) < MAX_DAYS
    BY FS_Subset DEF Newest
  <2>3. IsFiniteSet({e \in S : e > d}) /\ Cardinality({e \in S : e > d}) <= Cardinality({e \in S : e > 0})
    BY <2>1, <2>2, FS_Subset
  <2>4. Cardinality({e \in S : e > 0}) \in Nat /\ Cardinality({e \in S : e > d}) \in Nat
    BY <2>2, <2>3, FS_CardinalityType
  <2> QED BY <2>2, <2>3, <2>4, SizeAssumption
<1> QED BY <1>1 DEF Newest

(* It does not go below MAX_DAYS rows: of the rows it takes, the newest has
   MAX_DAYS newer ones, all of which stay. *)
LEMMA PruneKeepsFull ==
    ASSUME NEW S \in SUBSET Nat, IsFiniteSet(S), Cardinality(S) >= MAX_DAYS
    PROVE  Cardinality(Newest(S)) >= MAX_DAYS
<1>1. Newest(S) \in SUBSET S /\ S \ Newest(S) \in SUBSET S
  BY DEF Newest
<1>2. CASE S \ Newest(S) = {}
  BY <1>1, <1>2
<1>3. CASE S \ Newest(S) # {}
  <2>1. IsFiniteSet(S \ Newest(S)) /\ S \ Newest(S) \in SUBSET Nat
    BY <1>1, FS_Subset
  <2>2. PICK m \in S \ Newest(S) : \A e \in S \ Newest(S) : e <= m
    BY <1>3, <2>1, GreatestElement
  <2>3. {e \in S : e > m} \subseteq Newest(S)
    <3>1. ASSUME NEW e \in S, e > m, e \notin Newest(S) PROVE FALSE
      BY <2>2, <3>1
    <3> QED BY <3>1
  <2>4. ~(Cardinality({e \in S : e > m}) < MAX_DAYS)
    BY <2>2 DEF Newest
  <2>5. IsFiniteSet(Newest(S))
    BY <1>1, FS_Subset
  <2>6. /\ Cardinality({e \in S : e > m}) <= Cardinality(Newest(S))
        /\ IsFiniteSet({e \in S : e > m})
    BY <2>3, <2>5, FS_Subset
  <2>7. Cardinality({e \in S : e > m}) \in Nat /\ Cardinality(Newest(S)) \in Nat
    BY <2>5, <2>6, FS_CardinalityType
  <2> QED BY <2>4, <2>6, <2>7, SizeAssumption
<1> QED BY <1>2, <1>3

(* The ticks an interval adds to the day's row. *)
Added == {Today} \X (Bucket(Today).monitored + 1 .. Bucket(Today).monitored + Gap)

LEMMA AddedCount ==
    ASSUME WType, Rows(daily) PROVE IsFiniteSet(Added) /\ Cardinality(Added) = Gap
<1> DEFINE m == Bucket(Today).monitored
<1>1. m \in Nat /\ Gap \in Nat
  BY GapSplit DEF Bucket, Rows, Buckets
<1> HIDE DEF m
<1>2. IsFiniteSet(m + 1 .. m + Gap) /\ Cardinality(m + 1 .. m + Gap) = Gap
  <2>1. m + 1 \in Int /\ m + Gap \in Int
    BY <1>1
  <2>2. /\ IsFiniteSet(m + 1 .. m + Gap)
        /\ Cardinality(m + 1 .. m + Gap) = IF m + 1 > m + Gap THEN 0 ELSE (m + Gap) - (m + 1) + 1
    BY <2>1, FS_Interval
  <2> QED BY <1>1, <2>2
<1>3. IsFiniteSet({Today}) /\ Cardinality({Today}) = 1
  BY FS_Singleton
<1>4. /\ IsFiniteSet({Today} \X (m + 1 .. m + Gap))
      /\ Cardinality({Today} \X (m + 1 .. m + Gap)) = 1 * Gap
  BY <1>2, <1>3, FS_Product
<1> QED BY <1>1, <1>4 DEF Added, m

(* A probe adds that interval to the rows' claim and nothing else; if no row is
   pruned, it adds all of it. *)
LEMMA CreditTicks ==
    ASSUME WType, Rows(daily), NEW ok, NEW closed \in 0 .. 1, NEW o, Credit(ok, closed, o)
    PROVE  /\ Ticks(daily') \subseteq Ticks(daily) \cup Added
           /\ Newest(DOMAIN daily \cup {Today}) = DOMAIN daily \cup {Today} =>
                Ticks(daily') = Ticks(daily) \cup Added
           /\ Ticks(daily) \cap Added = {}
<1> DEFINE S == DOMAIN daily \cup {Today}
           m == Bucket(Today).monitored
<1>1. daily' = [d \in Newest(S) |-> IF d = Today THEN Fold(Bucket(d), closed) ELSE daily[d]]
  BY DEF Credit
<1>2. Newest(S) \subseteq S
  BY DEF Newest
<1>3. /\ m \in Nat /\ Gap \in Nat
      /\ \A d \in DOMAIN daily : daily[d].monitored \in Nat
      /\ Today \in DOMAIN daily => m = daily[Today].monitored
      /\ Today \notin DOMAIN daily => m = 0
  BY GapSplit DEF Bucket, Rows, Buckets
<1>4. /\ Today \in DOMAIN daily' => daily'[Today].monitored = m + Gap
      /\ \A d \in DOMAIN daily' \ {Today} : d \in DOMAIN daily /\ daily'[d] = daily[d]
  <2>1. Today \in DOMAIN daily' => daily'[Today] = Fold(Bucket(Today), closed)
    BY <1>1
  <2>2. Fold(Bucket(Today), closed).monitored = m + Gap
    BY DEF Fold
  <2> QED BY <1>1, <1>2, <2>1, <2>2
<1>5. DOMAIN daily' = Newest(S)
  BY <1>1
<1>6. \A t : t \in Added <=> \E i \in m + 1 .. m + Gap : t = <<Today, i>>
  BY DEF Added
<1>7. \A rows, t : t \in Ticks(rows) <=> \E d \in DOMAIN rows : \E i \in 1 .. rows[d].monitored : t = <<d, i>>
  BY DEF Ticks
<1> HIDE DEF S, m
<1>8. ASSUME NEW t \in Ticks(daily') PROVE t \in Ticks(daily) \cup Added
  <2>1. PICK d \in DOMAIN daily' : \E i \in 1 .. daily'[d].monitored : t = <<d, i>>
    BY <1>7
  <2>i. PICK i \in 1 .. daily'[d].monitored : t = <<d, i>>
    BY <2>1
  <2>2. CASE d # Today
    BY <1>4, <1>7, <2>i, <2>2
  <2>3. CASE d = Today
    <3>1. i \in 1 .. m + Gap
      BY <1>4, <2>i, <2>3
    <3>2. CASE i <= m
      <4>1. Today \in DOMAIN daily /\ i \in 1 .. daily[Today].monitored
        BY <1>3, <3>1, <3>2
      <4> QED BY <1>7, <2>i, <2>3, <4>1
    <3>3. CASE ~(i <= m)
      <4>1. i \in m + 1 .. m + Gap
        BY <1>3, <3>1, <3>3
      <4> QED BY <1>6, <2>i, <2>3, <4>1
    <3> QED BY <3>2, <3>3
  <2> QED BY <2>2, <2>3
<1>9. ASSUME Newest(S) = S, NEW t \in Ticks(daily) \cup Added PROVE t \in Ticks(daily')
  <2>1. DOMAIN daily' = DOMAIN daily \cup {Today}
    BY <1>5, <1>9 DEF S
  <2>2. CASE t \in Ticks(daily)
    <3>1. PICK d \in DOMAIN daily : \E i \in 1 .. daily[d].monitored : t = <<d, i>>
      BY <1>7, <2>2
    <3>i. PICK i \in 1 .. daily[d].monitored : t = <<d, i>>
      BY <3>1
    <3>2. i \in 1 .. daily'[d].monitored
      <4>1. CASE d = Today
        <5>1. daily'[d].monitored = m + Gap /\ daily[d].monitored = m
          BY <1>3, <1>4, <2>1, <3>1, <4>1
        <5> QED BY <1>3, <3>i, <5>1
      <4>2. CASE d # Today
        BY <1>4, <2>1, <3>i, <4>2
      <4> QED BY <4>1, <4>2
    <3> QED BY <1>7, <2>1, <3>i, <3>2
  <2>3. CASE t \in Added
    <3>1. PICK i \in m + 1 .. m + Gap : t = <<Today, i>>
      BY <1>6, <2>3
    <3>2. i \in 1 .. daily'[Today].monitored
      BY <1>3, <1>4, <2>1, <3>1
    <3> QED BY <1>7, <2>1, <3>1, <3>2
  <2> QED BY <1>9, <2>2, <2>3
<1>10. ASSUME NEW t \in Ticks(daily), t \in Added PROVE FALSE
  <2>1. PICK d \in DOMAIN daily : \E i \in 1 .. daily[d].monitored : t = <<d, i>>
    BY <1>7
  <2>i. PICK i \in 1 .. daily[d].monitored : t = <<d, i>>
    BY <2>1
  <2>2. PICK j \in m + 1 .. m + Gap : t = <<Today, j>>
    BY <1>6, <1>10
  <2>3. d = Today /\ i = j
    BY <2>i, <2>2
  <2> QED BY <1>3, <2>i, <2>2, <2>3
<1> QED BY <1>8, <1>9, <1>10 DEF S

(* No row is ahead of the lifetime counters, nor daily.json ahead of state.json,
   which is written first; the process may be killed between the two. *)
RowsBehind ==
    /\ IsFiniteSet(Ticks(daily)) /\ IsFiniteSet(Ticks(dailyFile))
    /\ Claimed(daily) <= stats.monitored
    /\ Claimed(dailyFile) <= stateFile.monitored
    /\ stateFile.monitored <= stats.monitored
    /\ pc = "saveDaily" => stateFile.monitored = stats.monitored

(* Without a restart the rows claim every tick for as long as the row of day 0 is
   there; once it is pruned the shelf is full of later days and, whatever the
   clock does, stays so. *)
FirstDay ==
    \/ DOMAIN daily = {} /\ stats.monitored = 0 /\ clock = 0 /\ pc = "probe"
    \/ 0 \in DOMAIN daily /\ Claimed(daily) = stats.monitored
    \/ 0 \notin DOMAIN daily /\ Cardinality(DOMAIN daily) >= MAX_DAYS

LEMMA CreditBehind ==
    ASSUME WType, Account, Shelf, RowsBehind, Probe
    PROVE  /\ IsFiniteSet(Ticks(daily)) /\ IsFiniteSet(Ticks(daily'))
           /\ Claimed(daily') <= Claimed(daily) + Gap
           /\ Newest(DOMAIN daily \cup {Today}) = DOMAIN daily \cup {Today} =>
                Claimed(daily') = Claimed(daily) + Gap
           /\ Claimed(daily) \in Nat /\ Claimed(daily') \in Nat
           /\ DOMAIN daily' = Newest(DOMAIN daily \cup {Today})
<1>1. /\ Ticks(daily') \subseteq Ticks(daily) \cup Added
      /\ Newest(DOMAIN daily \cup {Today}) = DOMAIN daily \cup {Today} =>
           Ticks(daily') = Ticks(daily) \cup Added
      /\ Ticks(daily) \cap Added = {}
  <2>1. 0 \in 0 .. 1 /\ 1 \in 0 .. 1
    OBVIOUS
  <2>2. CASE ProbeFails
    BY <2>1, <2>2, CreditTicks DEF ProbeFails, Account
  <2>3. CASE ProbeHealthy
    BY <2>1, <2>3, CreditTicks DEF ProbeHealthy, Account
  <2>4. CASE ProbeRecovers
    BY <2>1, <2>4, CreditTicks DEF ProbeRecovers, Account
  <2> QED BY <2>2, <2>3, <2>4 DEF Probe
<1>2. IsFiniteSet(Added) /\ Cardinality(Added) = Gap /\ Gap \in Nat
  BY AddedCount, GapSplit DEF Account
<1>3. IsFiniteSet(Ticks(daily)) /\ Cardinality(Ticks(daily)) \in Nat
  BY FS_CardinalityType DEF RowsBehind
<1>4. /\ IsFiniteSet(Ticks(daily) \cup Added)
      /\ Cardinality(Ticks(daily) \cup Added) = Cardinality(Ticks(daily)) + Gap
  <2>1. Cardinality(Ticks(daily) \cap Added) = 0
    BY <1>1, FS_EmptySet
  <2>2. /\ IsFiniteSet(Ticks(daily) \cup Added)
        /\ Cardinality(Ticks(daily) \cup Added) =
             Cardinality(Ticks(daily)) + Cardinality(Added) - Cardinality(Ticks(daily) \cap Added)
    BY <1>2, <1>3, FS_Union
  <2> QED BY <1>2, <1>3, <2>1, <2>2
<1>5. /\ IsFiniteSet(Ticks(daily')) /\ Cardinality(Ticks(daily')) \in Nat
      /\ Cardinality(Ticks(daily')) <= Cardinality(Ticks(daily)) + Gap
  <2>1. /\ IsFiniteSet(Ticks(daily'))
        /\ Cardinality(Ticks(daily')) <= Cardinality(Ticks(daily) \cup Added)
    BY <1>1, <1>4, FS_Subset
  <2> QED BY <1>4, <2>1, FS_CardinalityType
<1>6. DOMAIN daily' = Newest(DOMAIN daily \cup {Today})
  BY DEF Probe, ProbeFails, ProbeHealthy, ProbeRecovers, Credit
<1> QED BY <1>1, <1>3, <1>4, <1>5, <1>6 DEF Claimed

LEMMA BehindNext == WType /\ Account /\ Shelf /\ RowsBehind /\ [Next]_vars => RowsBehind'
<1> SUFFICES ASSUME WType, Account, Shelf, RowsBehind, [Next]_vars PROVE RowsBehind'
  OBVIOUS
<1>t. stats.monitored \in Nat /\ stateFile.monitored \in Nat /\ Gap \in Nat
  BY GapSplit DEF WType, StatsType
<1>n. Claimed(daily) \in Nat /\ Claimed(dailyFile) \in Nat
  BY FS_CardinalityType DEF RowsBehind, Claimed
<1>1. CASE Probe
  <2>1. /\ pc' = "alert" /\ stateFile' = stateFile /\ dailyFile' = dailyFile
        /\ stats'.monitored = stats.monitored + Gap
    BY <1>1, ProbeStats
  <2>2. /\ IsFiniteSet(Ticks(daily')) /\ Claimed(daily') <= Claimed(daily) + Gap
        /\ Claimed(daily') \in Nat
    BY <1>1, CreditBehind
  <2>3. Claimed(daily') <= stats'.monitored /\ stateFile.monitored <= stats'.monitored
    BY <1>t, <1>n, <2>1, <2>2 DEF RowsBehind
  <2> QED BY <2>1, <2>2, <2>3 DEF RowsBehind
<1>2. CASE Alert
  BY <1>2, AlertStats DEF RowsBehind
<1>3. CASE SaveState
  <2>1. /\ stateFile' = stats /\ UNCHANGED <<stats, daily, dailyFile>>
    BY <1>3 DEF SaveState
  <2>2. Claimed(dailyFile) <= stats.monitored
    BY <1>t, <1>n DEF RowsBehind
  <2> QED BY <1>t, <2>1, <2>2 DEF RowsBehind
<1>4. CASE SaveDaily
  <2>1. /\ pc = "saveDaily" /\ pc' = "upstream" /\ dailyFile' = daily
        /\ UNCHANGED <<stats, daily, stateFile>>
    BY <1>4 DEF SaveDaily
  <2> QED BY <2>1 DEF RowsBehind
<1>5. CASE \/ (\E ok \in BOOLEAN : Upstream(ok)) \/ Sleep
           \/ (\E by \in Rewinds : SetBack(by))
  <2>1. UNCHANGED <<stats, daily, stateFile, dailyFile>> /\ pc' # "saveDaily"
    BY <1>5 DEF Upstream, Sleep, SetBack, files
  <2> QED BY <2>1 DEF RowsBehind
<1>6. ASSUME NEW off \in OffTimes, Restart(off) PROVE RowsBehind'
  <2>1. /\ stats' = stateFile /\ daily' = dailyFile /\ pc' = "probe"
        /\ UNCHANGED <<stateFile, dailyFile>>
    BY <1>6 DEF Restart, files
  <2> QED BY <1>t, <2>1 DEF RowsBehind
<1>7. CASE UNCHANGED vars
  BY <1>7 DEF vars, RowsBehind, files
<1> QED BY <1>1, <1>2, <1>3, <1>4, <1>5, <1>6, <1>7 DEF Next, Probe, Alert

LEMMA FirstDayNext ==
    /\ WType /\ Account /\ Shelf /\ RowsBehind /\ (crashes = 0 => FirstDay) /\ [Next]_vars
    => (crashes = 0 => FirstDay)'
<1> SUFFICES ASSUME WType, Account, Shelf, RowsBehind, crashes = 0 => FirstDay, [Next]_vars,
                    crashes' = 0
             PROVE  FirstDay'
  OBVIOUS
<1>t. /\ stats.monitored \in Nat /\ Gap \in Nat /\ crashes \in Nat /\ Today \in Nat
  BY GapSplit, SizeAssumption DEF WType, StatsType, Today
<1>1. CASE Probe
  <2> DEFINE S == DOMAIN daily \cup {Today}
  <2>1. /\ stats'.monitored = stats.monitored + Gap /\ crashes = 0
    BY <1>1, ProbeStats DEF history
  <2>2. /\ Newest(S) = S => Claimed(daily') = Claimed(daily) + Gap
        /\ Claimed(daily) \in Nat /\ DOMAIN daily' = Newest(S)
    BY <1>1, CreditBehind
  <2>3. S \in SUBSET Nat /\ IsFiniteSet(S) /\ DOMAIN daily \in SUBSET Nat /\ IsFiniteSet(DOMAIN daily)
    BY <1>t, FS_AddElement DEF Shelf, Days
  <2> HIDE DEF S
  <2>4. ASSUME 0 \in Newest(S), Claimed(daily) = stats.monitored PROVE FirstDay'
    <3>1. Newest(S) = S
      BY <2>3, <2>4, FirstDayLast
    <3> QED BY <2>1, <2>2, <2>4, <3>1 DEF FirstDay
  <2>5. ASSUME 0 \notin Newest(S), Cardinality(S) >= MAX_DAYS PROVE FirstDay'
    <3>1. Cardinality(Newest(S)) >= MAX_DAYS
      BY <2>3, <2>5, PruneKeepsFull
    <3> QED BY <2>2, <2>5, <3>1 DEF FirstDay
  <2>6. IsFiniteSet({e \in S : e > 0}) /\ Cardinality({e \in S : e > 0}) <= Cardinality(S)
    BY <2>3, FS_Subset
  <2>7. Cardinality({e \in S : e > 0}) \in Nat /\ Cardinality(S) \in Nat
    BY <2>3, <2>6, FS_CardinalityType
  <2>8. CASE DOMAIN daily = {} /\ clock = 0 /\ stats.monitored = 0
    <3>1. S = {0}
      BY <2>8, SizeAssumption DEF S, Today
    <3>2. 0 \in Newest(S)
      <4>1. {e \in S : e > 0} = {}
        BY <3>1
      <4> QED BY <3>1, <4>1, FS_EmptySet, SizeAssumption DEF Newest
    <3>3. Claimed(daily) = 0
      <4>1. Ticks(daily) = {}
        BY <2>8 DEF Ticks
      <4> QED BY <4>1, FS_EmptySet DEF Claimed
    <3> QED BY <2>4, <2>8, <3>2, <3>3
  <2>9. CASE 0 \in DOMAIN daily /\ Claimed(daily) = stats.monitored
    <3>1. CASE 0 \in Newest(S)
      BY <2>4, <2>9, <3>1
    <3>2. CASE 0 \notin Newest(S)
      <4>1. ~(Cardinality({e \in S : e > 0}) < MAX_DAYS)
        BY <2>9, <3>2 DEF Newest, S
      <4> QED BY <2>5, <2>6, <2>7, <3>2, <4>1, SizeAssumption
    <3> QED BY <3>1, <3>2
  <2>10. CASE 0 \notin DOMAIN daily /\ Cardinality(DOMAIN daily) >= MAX_DAYS
    <3>1. DOMAIN daily \subseteq {e \in S : e > 0}
      BY <2>3, <2>10 DEF S
    <3>2. Cardinality(DOMAIN daily) <= Cardinality({e \in S : e > 0}) /\ Cardinality(DOMAIN daily) \in Nat
      BY <2>3, <2>6, <3>1, FS_Subset, FS_CardinalityType
    <3>3. Cardinality({e \in S : e > 0}) >= MAX_DAYS /\ Cardinality(S) >= MAX_DAYS
      BY <2>6, <2>7, <2>10, <3>2, SizeAssumption
    <3>4. 0 \notin Newest(S)
      BY <2>7, <3>3, SizeAssumption DEF Newest
    <3> QED BY <2>5, <3>3, <3>4
  <2> QED BY <2>1, <2>8, <2>9, <2>10 DEF FirstDay
<1>2. ASSUME UNCHANGED <<daily, crashes>>, stats'.monitored = stats.monitored, pc # "probe"
      PROVE  FirstDay'
  BY <1>2 DEF FirstDay
<1>3. CASE Alert
  BY <1>2, <1>3, AlertStats
<1>4. CASE SaveState
  BY <1>2, <1>4 DEF SaveState, history
<1>5. CASE SaveDaily \/ (\E ok \in BOOLEAN : Upstream(ok)) \/ Sleep
  BY <1>2, <1>5 DEF SaveDaily, Upstream, Sleep, history
<1>6. ASSUME NEW by \in Rewinds, SetBack(by) PROVE FirstDay'
  <2>1. /\ by \in Nat /\ by <= clock /\ clock' = clock - by /\ clock \in Nat
        /\ UNCHANGED <<pc, stats, daily, crashes>>
    BY <1>6, BoundAssumption DEF SetBack, WType
  <2>2. clock = 0 => clock' = 0
    BY <2>1
  <2> QED BY <2>1, <2>2 DEF FirstDay
<1>7. ASSUME NEW off \in OffTimes, Restart(off) PROVE FALSE
  BY <1>7, <1>t DEF Restart
<1>8. CASE UNCHANGED vars
  BY <1>8 DEF vars, FirstDay, history
<1> QED BY <1>1, <1>3, <1>4, <1>5, <1>6, <1>7, <1>8 DEF Next, Probe, Alert

(* The daily rows never claim more than the lifetime counters, wherever between
   its two files the watchdog is killed; and as long as it is not, and the first
   day's row is not pruned, they claim exactly as much, a clock that is set back
   included. *)
THEOREM RowsWithinLifetime == Spec => []DailyWithinLifetime
<1>1. Init => Account /\ Shelf /\ RowsBehind /\ (crashes = 0 => FirstDay)
  <2> SUFFICES ASSUME Init PROVE Account /\ Shelf /\ RowsBehind /\ FirstDay
    OBVIOUS
  <2>1. Account
    BY DEF Init, Account, FreshStats, NoBuckets, Balanced, Rows
  <2>2. DOMAIN daily = {} /\ DOMAIN dailyFile = {}
    BY DEF Init, NoBuckets
  <2>3. Shelf
    BY <2>2, FS_EmptySet, SizeAssumption DEF Shelf, Days
  <2>4. Ticks(daily) = {} /\ Ticks(dailyFile) = {}
    BY <2>2 DEF Ticks
  <2>5. RowsBehind
    BY <2>4, FS_EmptySet DEF Init, FreshStats, RowsBehind, Claimed
  <2>6. FirstDay
    BY <2>2 DEF Init, FreshStats, FirstDay
  <2> QED BY <2>1, <2>3, <2>5, <2>6
<1>2. RowsBehind /\ (crashes = 0 => FirstDay) => DailyWithinLifetime
  <2> SUFFICES ASSUME RowsBehind, crashes = 0 => FirstDay, crashes = 0, 0 \in DOMAIN daily
               PROVE  Claimed(daily) = stats.monitored
    BY DEF RowsBehind, DailyWithinLifetime
  <2> QED BY DEF FirstDay
<1> QED
  BY <1>1, <1>2, AccountNext, ShelfNext, BehindNext, FirstDayNext, WTypeHolds, PTL DEF Spec
=============================================================================
