------------------------------ MODULE Watchdog ------------------------------
(***************************************************************************)
(* watchdog/watchdog.py: the probe loop, the alert state machine, the      *)
(* uptime accounting and the three files it keeps, across kills and        *)
(* restarts of the container.  One iteration of main() is a sequence of    *)
(* steps: probe and record (which may append to outages.jsonl), alert,     *)
(* write state.json, write daily.json, probe the upstream, sleep; the      *)
(* process may be killed between any two of them.                          *)
(*                                                                         *)
(* Time is in abstract ticks; the wall clock may be set back, which the    *)
(* monotonic clock of the start grace does not see.  Error texts,          *)
(* latencies and probe samples are left out; so are the push to ntfy       *)
(* itself (a push is recorded when it is attempted), the optional summary  *)
(* lines and digests, and the failure of a file operation.                 *)
(***************************************************************************)
EXTENDS Integers, FiniteSets

CONSTANTS
    INTERVAL, FAIL_INTERVAL,   \* ticks between probes, healthy and failing
    FAIL_THRESHOLD,            \* failed probes before a DOWN alert
    START_GRACE,               \* ticks before "never came up"
    CapFloor,                  \* the 120 s of attribute_cap
    MAX_DAYS, MAX_OUTAGES,     \* rows kept in daily.json and outages.jsonl
    DayLength,                 \* ticks in a day
    Unknown,                   \* Python's None
    MaxClock, MaxCrashes,      \* bounds: time, restarts,
    MaxRewind,                 \* and ticks by which the clock is set back in all
    OffTimes, Rewinds          \* ticks a restart may take, and one such setting back

ASSUME IntervalAssumption ==
    /\ INTERVAL \in Nat \ {0} /\ FAIL_INTERVAL \in Nat \ {0}
    /\ FAIL_THRESHOLD \in Nat \ {0} /\ START_GRACE \in Nat /\ CapFloor \in Nat
ASSUME SizeAssumption ==
    /\ MAX_DAYS \in Nat \ {0} /\ MAX_OUTAGES \in Nat \ {0} /\ DayLength \in Nat \ {0}
ASSUME BoundAssumption ==
    /\ MaxClock \in Nat /\ MaxCrashes \in Nat /\ MaxRewind \in Nat
    /\ OffTimes \subseteq Nat /\ Rewinds \subseteq Nat

(* An outage on record, as far as main() looks at it. *)
Outages == [start : Nat, downProbes : Nat \ {0}, alerted : BOOLEAN]
ASSUME UnknownAssumption == Unknown \notin Int \cup BOOLEAN \cup Outages

VARIABLES
    clock,
    pc,          \* the step of main() that comes next
    stats,       \* the Stats object, daily excepted
    daily,       \* its per-day buckets
    stateFile, dailyFile, lines,   \* state.json, daily.json, lines of outages.jsonl
    healthy,     \* what the probe of this iteration said
    state, fails, warned, started, upstream,   \* main()'s locals
    lastPush,    \* history: the last alert about the mail path
    crashes,     \* history: restarts so far
    unwatched,   \* history: ticks between first_seen and now with no watchdog
    rewound      \* history: ticks by which the clock has been set back

files == <<stateFile, dailyFile, lines>>
locals == <<state, fails, warned, started, upstream>>
history == <<lastPush, crashes, unwatched, rewound>>
vars == <<clock, pc, stats, daily, files, healthy, locals, history>>

Maybe(S) == S \cup {Unknown}
StatsType ==
    [first : Maybe(Nat), monitored : Nat, up : Nat, down : Nat,
     outages : Nat, alertedOutages : Nat,
     lastProbe : Maybe(Nat), lastHealthy : Maybe(BOOLEAN), outage : Maybe(Outages)]
Buckets == [up : Nat, down : Nat, monitored : Nat, outages : Nat]
Steps == {"probe", "alert", "saveState", "saveDaily", "upstream", "sleep"}
Pushes == {"none", "online", "DOWN", "neverUp", "recovered"}

TypeOK ==
    /\ clock \in Nat
    /\ pc \in Steps
    /\ stats \in StatsType /\ stateFile \in StatsType
    /\ DOMAIN daily \subseteq Nat /\ DOMAIN dailyFile \subseteq Nat
    /\ \A d \in DOMAIN daily : daily[d] \in Buckets
    /\ \A d \in DOMAIN dailyFile : dailyFile[d] \in Buckets
    /\ Cardinality(DOMAIN daily) <= MAX_DAYS
    /\ lines \in 0 .. MAX_OUTAGES
    /\ healthy \in BOOLEAN
    /\ state \in Maybe(BOOLEAN) /\ upstream \in Maybe(BOOLEAN)
    /\ fails \in Nat /\ warned \in BOOLEAN /\ started \in Int
    /\ lastPush \in Pushes /\ crashes \in 0 .. MaxCrashes /\ unwatched \in Nat
    /\ rewound \in 0 .. MaxRewind

(* What Stats.__init__ starts from when there is no state.json. *)
FreshStats ==
    [first |-> Unknown, monitored |-> 0, up |-> 0, down |-> 0,
     outages |-> 0, alertedOutages |-> 0,
     lastProbe |-> Unknown, lastHealthy |-> Unknown, outage |-> Unknown]
NoBuckets == [d \in {} |-> 0]

Init ==
    /\ clock = 0 /\ pc = "probe"
    /\ stats = FreshStats /\ stateFile = FreshStats
    /\ daily = NoBuckets /\ dailyFile = NoBuckets
    /\ lines = 0
    /\ healthy = FALSE
    /\ state = Unknown /\ fails = 0 /\ warned = FALSE /\ started = 0
    /\ upstream = Unknown
    /\ lastPush = "none" /\ crashes = 0 /\ unwatched = 0 /\ rewound = 0

-----------------------------------------------------------------------------
(* Stats. *)

Lesser(a, b) == IF a < b THEN a ELSE b
Cap == IF 2 * INTERVAL > CapFloor THEN 2 * INTERVAL ELSE CapFloor

(* Mutant of Gap: attribute_cap is not applied. *)
GapUncapped ==
    IF stats.lastProbe = Unknown THEN 0
    ELSE IF clock <= stats.lastProbe THEN 0 ELSE clock - stats.lastProbe

(* Mutant of Gap: an interval that ends before it began is credited. *)
GapSigned == IF stats.lastProbe = Unknown THEN 0 ELSE Lesser(clock - stats.lastProbe, Cap)

(* account(): the ticks credited for the interval that just ended. *)
Gap ==
    IF stats.lastProbe = Unknown THEN 0
    ELSE IF clock <= stats.lastProbe THEN 0 ELSE Lesser(clock - stats.lastProbe, Cap)
UpGap == IF stats.lastHealthy = TRUE THEN Gap ELSE 0
(* Mutant of DownGap: only the monitored ticks are capped. *)
DownUncapped == IF stats.lastHealthy = TRUE THEN 0 ELSE GapUncapped
DownGap == IF stats.lastHealthy = TRUE THEN 0 ELSE Gap

(* _day(): today's bucket, made if need be; the oldest beyond MAX_DAYS go. *)
Today == clock \div DayLength
(* Mutant of Newest: one row too many survives the prune. *)
NewestAndOne(S) == {d \in S : Cardinality({e \in S : e > d}) <= MAX_DAYS}
Newest(S) == {d \in S : Cardinality({e \in S : e > d}) < MAX_DAYS}
Bucket(d) ==
    IF d \in DOMAIN daily THEN daily[d]
    ELSE [up |-> 0, down |-> 0, monitored |-> 0, outages |-> 0]
Fold(b, closed) ==
    [up |-> b.up + UpGap, down |-> b.down + DownGap,
     monitored |-> b.monitored + Gap, outages |-> b.outages + closed]

(* record(): a failed probe opens an outage or goes on with it. *)
Extended(o) ==
    IF o = Unknown THEN [start |-> clock, downProbes |-> 1, alerted |-> FALSE]
    ELSE [o EXCEPT !.downProbes = @ + 1]

(* The part of record() common to both results: account() and the stamps. *)
Credit(ok, closed, outage) ==
    /\ stats' = [stats EXCEPT
          !.first = IF @ = Unknown THEN clock ELSE @,
          !.monitored = @ + Gap, !.up = @ + UpGap, !.down = @ + DownGap,
          !.outages = @ + closed,
          !.lastProbe = clock, !.lastHealthy = ok,
          !.outage = outage]
    /\ daily' = [d \in Newest(DOMAIN daily \cup {Today}) |->
                    IF d = Today THEN Fold(Bucket(d), closed) ELSE daily[d]]
    /\ healthy' = ok

ProbeFails ==
    /\ pc = "probe"
    /\ Credit(FALSE, 0, Extended(stats.outage))
    /\ pc' = "alert"
    /\ UNCHANGED <<clock, files, locals, history>>

ProbeHealthy ==
    /\ pc = "probe"
    /\ stats.outage = Unknown
    /\ Credit(TRUE, 0, Unknown)
    /\ pc' = "alert"
    /\ UNCHANGED <<clock, files, locals, history>>

(* Mutant of ProbeRecovers: outages that never crossed the alert threshold are
   counted but not recorded. *)
RecordAlertedOnly ==
    /\ pc = "probe"
    /\ stats.outage # Unknown
    /\ Credit(TRUE, 1, Unknown)
    /\ lines' = IF stats.outage.alerted THEN Lesser(lines + 1, MAX_OUTAGES) ELSE lines
    /\ pc' = "alert"
    /\ UNCHANGED <<clock, stateFile, dailyFile, locals, history>>

(* _close_outage: the record is appended to outages.jsonl at once, long before
   state.json says that the outage is over. *)
ProbeRecovers ==
    /\ pc = "probe"
    /\ stats.outage # Unknown
    /\ Credit(TRUE, 1, Unknown)
    /\ lines' = Lesser(lines + 1, MAX_OUTAGES)
    /\ pc' = "alert"
    /\ UNCHANGED <<clock, stateFile, dailyFile, locals, history>>

-----------------------------------------------------------------------------
(* The alert state machine of main(). *)

Push(kind) == lastPush' = kind /\ UNCHANGED <<crashes, unwatched, rewound>>
AlertFrame == pc' = "saveState" /\ UNCHANGED <<clock, daily, files, healthy, started, upstream>>

(* mark_alerted *)
MarkAlerted ==
    IF stats.outage # Unknown /\ ~stats.outage.alerted
    THEN stats' = [stats EXCEPT !.outage.alerted = TRUE, !.alertedOutages = @ + 1]
    ELSE UNCHANGED stats

(* Mutant of AlertHealthy: the failures of past outages keep counting. *)
AlertHealthyNoReset ==
    /\ pc = "alert" /\ healthy
    /\ \/ state = Unknown /\ Push("online")
       \/ state = FALSE /\ Push("recovered")
       \/ state = TRUE /\ UNCHANGED history
    /\ state' = TRUE
    /\ UNCHANGED <<stats, fails, warned>> /\ AlertFrame

(* Mutant of Sustained: an off-by-one in the threshold. *)
SustainedLate == state = TRUE /\ fails + 1 > FAIL_THRESHOLD
AlertHealthy ==
    /\ pc = "alert" /\ healthy
    /\ \/ state = Unknown /\ Push("online")
       \/ state = FALSE /\ Push("recovered")
       \/ state = TRUE /\ UNCHANGED history
    /\ state' = TRUE /\ fails' = 0
    /\ UNCHANGED <<stats, warned>> /\ AlertFrame

Sustained == state = TRUE /\ fails + 1 >= FAIL_THRESHOLD
NeverUp == state = Unknown /\ ~warned /\ clock - started > START_GRACE

(* Mutant of AlertDown: main() forgets that it has alerted. *)
AlertDownAgain ==
    /\ pc = "alert" /\ ~healthy
    /\ Sustained
    /\ fails' = fails + 1
    /\ MarkAlerted /\ Push("DOWN")
    /\ UNCHANGED <<state, warned>> /\ AlertFrame

AlertDown ==
    /\ pc = "alert" /\ ~healthy
    /\ Sustained
    /\ fails' = fails + 1
    /\ MarkAlerted /\ Push("DOWN") /\ state' = FALSE
    /\ UNCHANGED warned /\ AlertFrame

AlertNeverUp ==
    /\ pc = "alert" /\ ~healthy
    /\ NeverUp
    /\ fails' = fails + 1
    /\ MarkAlerted /\ Push("neverUp") /\ warned' = TRUE
    /\ UNCHANGED state /\ AlertFrame

AlertQuiet ==
    /\ pc = "alert" /\ ~healthy
    /\ ~Sustained /\ ~NeverUp
    /\ fails' = fails + 1
    /\ UNCHANGED <<stats, state, warned, history>> /\ AlertFrame

-----------------------------------------------------------------------------
(* Persistence, the upstream probe, sleep. *)

(* Mutant of SaveState: daily.json is written first. *)
SaveDailyFirst ==
    /\ pc = "saveState" /\ pc' = "saveDaily"
    /\ dailyFile' = daily
    /\ UNCHANGED <<clock, stats, daily, stateFile, lines, healthy, locals, history>>

SaveState ==
    /\ pc = "saveState" /\ pc' = "saveDaily"
    /\ stateFile' = stats
    /\ UNCHANGED <<clock, stats, daily, dailyFile, lines, healthy, locals, history>>

SaveDaily ==
    /\ pc = "saveDaily" /\ pc' = "upstream"
    /\ dailyFile' = daily
    /\ UNCHANGED <<clock, stats, daily, stateFile, lines, healthy, locals, history>>

(* The alert about the upstream is raised only while the mail path is healthy. *)
Upstream(ok) ==
    /\ pc = "upstream" /\ pc' = "sleep"
    /\ upstream' = IF ok THEN TRUE ELSE IF healthy THEN FALSE ELSE upstream
    /\ UNCHANGED <<clock, stats, daily, files, healthy, state, fails, warned, started, history>>

Sleep ==
    /\ pc = "sleep" /\ pc' = "probe"
    /\ clock < MaxClock
    /\ clock' = clock + (IF healthy THEN INTERVAL ELSE FAIL_INTERVAL)
    /\ UNCHANGED <<stats, daily, files, healthy, locals, history>>

(* The process is killed and comes back off ticks later with what the files say
   (_load); an outage in state.json is taken up again as one already known. *)
Restart(off) ==
    /\ crashes < MaxCrashes /\ clock < MaxClock
    /\ pc' = "probe"
    /\ clock' = clock + off
    /\ stats' = stateFile /\ daily' = dailyFile
    /\ state' = IF stateFile.outage # Unknown THEN FALSE ELSE Unknown
    /\ fails' = IF stateFile.outage # Unknown THEN stateFile.outage.downProbes ELSE 0
    /\ warned' = FALSE /\ started' = clock + off /\ upstream' = Unknown
    /\ crashes' = crashes + 1
    /\ unwatched' = IF stateFile.first = Unknown THEN 0 ELSE unwatched + off
    /\ UNCHANGED <<files, healthy, lastPush, rewound>>

(* The wall clock is set back.  main() reads it once per turn, before the probe,
   so a change shows there; what has passed since started stays what it was. *)
SetBack(by) ==
    /\ pc = "probe"
    /\ by <= clock /\ rewound + by <= MaxRewind
    /\ clock' = clock - by /\ started' = started - by
    /\ rewound' = rewound + by
    /\ UNCHANGED <<pc, stats, daily, files, healthy, state, fails, warned, upstream>>
    /\ UNCHANGED <<lastPush, crashes, unwatched>>

Next ==
    \/ ProbeFails \/ ProbeHealthy \/ ProbeRecovers
    \/ AlertHealthy \/ AlertDown \/ AlertNeverUp \/ AlertQuiet
    \/ SaveState \/ SaveDaily
    \/ \E ok \in BOOLEAN : Upstream(ok)
    \/ Sleep
    \/ \E off \in OffTimes : Restart(off)
    \/ \E by \in Rewinds : SetBack(by)

Spec == Init /\ [][Next]_vars

-----------------------------------------------------------------------------
(* Properties. *)

(* Uptime is exact: every monitored tick is counted once, as up or as down, in
   the lifetime counters and in each day, in memory and in the files whatever
   step the process was killed at (account; "accumulated losslessly"). *)
Balanced(r) == r.monitored = r.up + r.down
Conserved ==
    /\ Balanced(stats) /\ Balanced(stateFile)
    /\ \A d \in DOMAIN daily : Balanced(daily[d])
    /\ \A d \in DOMAIN dailyFile : Balanced(dailyFile[d])

(* Time without a watchdog is not guessed: of the ticks it was not running at
   most attribute_cap per restart are credited, and no tick is credited twice but
   those by which the clock was set back. *)
NotGuessed ==
    stats.first # Unknown =>
        stats.monitored + unwatched <= (clock - stats.first) + rewound + crashes * Cap

(* What is counted is never taken back: no clock that is set back, no prune and no
   probe makes the lifetime counters or a day's row smaller (a restart may). *)
NeverTakenBack ==
    [][\/ crashes' # crashes
       \/ /\ stats'.up >= stats.up /\ stats'.down >= stats.down
          /\ \A d \in DOMAIN daily \cap DOMAIN daily' : daily'[d].monitored >= daily[d].monitored]_vars

(* The daily rows never claim more than the lifetime counters, also when the
   process was killed between the two files; without a restart, and while
   the first day's row is there, they claim exactly as much.  (The ticks that rows
   claim are counted one by one: each day's row numbers its own.) *)
Ticks(rows) == UNION {{d} \X (1 .. rows[d].monitored) : d \in DOMAIN rows}
Claimed(rows) == Cardinality(Ticks(rows))
DailyWithinLifetime ==
    /\ Claimed(daily) <= stats.monitored
    /\ Claimed(dailyFile) <= stateFile.monitored
    /\ crashes = 0 /\ 0 \in DOMAIN daily => Claimed(daily) = stats.monitored

(* Every outage that is counted has its line in outages.jsonl (up to the prune),
   and a line too many is the work of a restart: record() appends the line well
   before state.json forgets the outage. *)
LedgerExplained ==
    /\ lines <= stats.outages + crashes
    /\ lines < MAX_OUTAGES => stats.outages <= lines /\ stateFile.outages <= lines

(* The two counts of the current streak agree, restarts included: main()'s fails
   and the down_probes of the outage on record. *)
Streak == IF stats.outage = Unknown THEN 0 ELSE stats.outage.downProbes
FailsFollowOutage ==
    IF pc = "alert" THEN ~healthy => fails + 1 = Streak ELSE fails = Streak

(* A watchdog that is not restarted alerts on every sustained outage and says
   "recovered" only after a DOWN. *)
Sustains == state # Unknown /\ pc # "alert" /\ Streak >= FAIL_THRESHOLD
AlertedUnlessRestarted ==
    crashes = 0 => /\ Sustains => stats.outage.alerted
                   /\ state = FALSE => lastPush = "DOWN"

(* One DOWN alert per outage: between two of them the path was reported healthy,
   restarts included. *)
DownNotRepeated == [][AlertDown => lastPush \in {"online", "recovered"}]_vars

(* "State transitions (DOWN / RECOVERED) are pushed": when an outage reaches the
   threshold and the last the operator was told is that the path is up, the
   outage is alerted, restarts or not. *)
SustainedIsAlerted ==
    Sustains /\ lastPush \in {"online", "recovered"} => stats.outage.alerted
=============================================================================
