--------------------------- MODULE MailSyncProofs ---------------------------
(***************************************************************************)
(* What holds of the mail sync for any folders, mail and bounds: the lock  *)
(* keeps the threads apart, no mail is lost, and a folder the university   *)
(* still exposes is not moved away.  No folder is subscribed twice.  The   *)
(* mail as a whole follows Mailbox, and a push is missed at one place only.*)
(***************************************************************************)
EXTENDS MailSync, TLAPS

(* The control part: what TypeOK says of threads, lock and environment. *)
ThreadOK ==
    /\ pc \in [Thread -> SyncSteps \cup WatchSteps \cup {"sleep"}]
    /\ pc["watcher"] # "sleep" /\ pc["periodic"] \notin WatchSteps
    /\ \A t \in Thread : pc[t] \in SyncSteps \ {"lock"} <=> lock = t
    /\ names \in [Thread -> SUBSET Folder] /\ exposed \subseteq Folder
    /\ changes \in 0 .. MaxChanges /\ crashes \in 0 .. MaxCrashes

(* Where mail may be, and that all of it is somewhere: NothingLost, a message at
   a time.  A name that is free has never been exposed, so it holds no mail. *)
Somewhere(m) == m \in stale \/ \E b \in Box : m \in far[b] \/ m \in near[b]
MailOK ==
    /\ far \in [Box -> SUBSET Mail] /\ near \in [Box -> SUBSET Mail]
    /\ exposed \subseteq Folder /\ made \subseteq Folder
    /\ retired \subseteq Folder /\ exposed \subseteq retired
    /\ \A f \in Folder : (f \notin exposed => far[f] = {}) /\ (f \notin made => near[f] = {})
    /\ arrived \subseteq Mail /\ stale \subseteq arrived
    /\ \A b \in Box : far[b] \subseteq arrived /\ near[b] \subseteq arrived
    /\ \A m \in arrived : Somewhere(m)

(* What a thread that is about to move folders away knows: its list names every
   folder that has been mirrored and exposed ever since. *)
ListCurrent ==
    /\ steady \subseteq made \cap exposed
    /\ \A t \in Thread : pc[t] = "move" /\ ~refused[t] => steady \subseteq names[t]

(* The flags. *)
FlagsOK ==
    /\ enrolled \in BOOLEAN /\ valid \in BOOLEAN /\ pushed \in BOOLEAN
    /\ news \in BOOLEAN /\ owed \in BOOLEAN /\ offers \in BOOLEAN
    /\ refused \in [Thread -> BOOLEAN]

(* The pass over the subscriptions: what it has still to do it has not done, and
   what has been done counts only while it runs or once the marker is there. *)
PassOK ==
    /\ marked \in BOOLEAN /\ todo \subseteq Folder /\ given \subseteq Folder
    /\ pc["watcher"] = "subscribing" => ~marked /\ given \cap todo = {}
    /\ pc["watcher"] # "subscribing" => todo = {} /\ (given = {} \/ marked)

SyncInv == ThreadOK /\ FlagsOK /\ MailOK /\ ListCurrent /\ PassOK

-----------------------------------------------------------------------------
LEMMA SyncInvInit == Init => SyncInv
<1> SUFFICES ASSUME Init PROVE SyncInv
  OBVIOUS
<1>1. ThreadOK
  <2>1. /\ names \in [Thread -> SUBSET Folder] /\ exposed \subseteq Folder
        /\ changes \in 0 .. MaxChanges /\ crashes \in 0 .. MaxCrashes
    BY BoxAssumption, ChangeAssumption DEF Init
  <2>2. /\ pc = [t \in Thread |-> IF t = "watcher" THEN "dead" ELSE "sleep"]
        /\ lock = "none"
    BY DEF Init
  <2>3. /\ pc \in [Thread -> SyncSteps \cup WatchSteps \cup {"sleep"}]
        /\ pc["watcher"] = "dead" /\ pc["periodic"] = "sleep"
    BY <2>2 DEF Thread, WatchSteps
  <2> QED BY <2>1, <2>2, <2>3 DEF ThreadOK, Thread, SyncSteps, WatchSteps
<1>2. FlagsOK
  BY DEF Init, FlagsOK
<1>3. MailOK
  BY BoxAssumption DEF Init, MailOK, Box, Somewhere
<1>4. ListCurrent
  BY DEF Init, ListCurrent
<1>5. PassOK
  BY DEF Init, PassOK, Thread
<1> QED BY <1>1, <1>2, <1>3, <1>4, <1>5 DEF SyncInv

(* The threads. *)
LEMMA ThreadStep == ThreadOK /\ [Next]_vars => ThreadOK'
<1> SUFFICES ASSUME ThreadOK, [Next]_vars PROVE ThreadOK'
  OBVIOUS
<1> USE DEF ThreadOK, Thread, SyncSteps, WatchSteps
<1>1. ASSUME NEW t \in Thread, SyncStep(t) PROVE ThreadOK'
  <2>2. CASE InboxOk(t) \/ InboxFails(t) \/ InboxRefused(t)
    BY <2>2 DEF InboxOk, InboxFails, InboxRefused, TakeLock, AfterInbox, Goto, Finish, Over, After,
                SyncFrame
  <2>3. CASE NoPassword(t)
    BY <2>3 DEF NoPassword, ListFrame, Finish, Over, After, Goto, SyncFrame, connection
  <2>4. CASE ListOk(t) \/ ListNo(t) \/ ListFails(t)
    BY <2>4 DEF ListOk, ListNo, ListFails, ListFrame, Goto, SyncFrame, connection
  <2>5. CASE Move(t)
    BY <2>5 DEF Move, Forget, Goto, SyncFrame, connection
  <2>6. CASE AllOk(t) \/ AllBroken(t) \/ AllRefused(t)
    BY <2>6 DEF AllOk, AllBroken, AllRefused, AllFrame, Finish, Over, After, Goto, SyncFrame,
                connection
  <2> QED BY <1>1, <2>2, <2>3, <2>4, <2>5, <2>6 DEF SyncStep
<1>2. CASE Periodic
  BY <1>2 DEF Periodic, Goto, ThreadFrame, university, connection
<1>3. CASE WatchStep \/ WatchEnds
  BY <1>3 DEF WatchStep, Respawn, Connect, ConnectFails, ConnectRefused, BeginPass, SkipPass,
              Subscribe, EndPass, Pass, IdleStart, Signalled,
              BackoffOver, WatchEnds, Watch, Goto, ThreadFrame, university, connection
<1>4. CASE Crash
  BY <1>4, ChangeAssumption DEF Crash, university
<1>5. CASE Environment
  BY <1>5, ChangeAssumption
     DEF Environment, Deliver, Rename, ChangePassword, Reenroll, MakeFolder, File, Change,
         ClientFrame, DaemonFrame, work, connection
<1>6. CASE UNCHANGED vars
  BY <1>6 DEF vars, university, work, connection
<1> QED BY <1>1, <1>2, <1>3, <1>4, <1>5, <1>6 DEF Next

LEMMA FlagsStep == FlagsOK /\ [Next]_vars => FlagsOK'
<1> SUFFICES ASSUME FlagsOK, [Next]_vars PROVE FlagsOK'
  OBVIOUS
<1> USE DEF FlagsOK
<1>1. ASSUME NEW t \in Thread, SyncStep(t) PROVE FlagsOK'
  <2>2. CASE InboxOk(t) \/ InboxFails(t) \/ InboxRefused(t)
    BY <2>2 DEF InboxOk, InboxFails, InboxRefused, AfterInbox, Finish, Over, SyncFrame
  <2>3. CASE NoPassword(t)
    BY <2>3 DEF NoPassword, ListFrame, Finish, Over, SyncFrame, connection
  <2>4. CASE ListOk(t) \/ ListNo(t) \/ ListFails(t)
    BY <2>4 DEF ListOk, ListNo, ListFails, ListFrame, SyncFrame, connection
  <2>5. CASE Move(t)
    BY <2>5 DEF Move, Forget, SyncFrame, connection
  <2>6. CASE AllOk(t) \/ AllBroken(t) \/ AllRefused(t)
    BY <2>6 DEF AllOk, AllBroken, AllRefused, AllFrame, Finish, Over, SyncFrame, connection
  <2> QED BY <1>1, <2>2, <2>3, <2>4, <2>5, <2>6 DEF SyncStep
<1>2. CASE Periodic
  BY <1>2 DEF Periodic, ThreadFrame, university, connection
<1>3. CASE WatchStep \/ WatchEnds
  BY <1>3 DEF WatchStep, Respawn, Connect, ConnectFails, ConnectRefused, BeginPass, SkipPass,
              Subscribe, EndPass, Pass, IdleStart, Signalled,
              BackoffOver, WatchEnds, Watch, ThreadFrame, university, connection
<1>4. CASE Crash
  BY <1>4 DEF Crash, university
<1>5. CASE Environment
  BY <1>5 DEF Environment, Deliver, Rename, ChangePassword, Reenroll, MakeFolder, File,
              ClientFrame, DaemonFrame, work, connection
<1>6. CASE UNCHANGED vars
  BY <1>6 DEF vars, university, work, connection
<1> QED BY <1>1, <1>2, <1>3, <1>4, <1>5, <1>6 DEF Next

(* The mail.  A run of mbsync only adds copies. *)
mailVars == <<far, exposed, near, made, stale, arrived, retired>>

LEMMA MirrorKeepsMail ==
    ASSUME MailOK, NEW done \in SUBSET (exposed \cup {INBOX}), Mirror(done),
           UNCHANGED <<exposed, arrived, retired>>
    PROVE  MailOK'
<1> USE DEF MailOK
<1>1. \A b \in Box : far'[b] = IF b \in done THEN far[b] \cup near[b] ELSE far[b]
  BY DEF Mirror
<1>2. \A b \in Box : near'[b] = IF b \in done THEN far[b] \cup near[b] ELSE near[b]
  BY DEF Mirror
<1>3. far' \in [Box -> SUBSET Mail] /\ near' \in [Box -> SUBSET Mail]
  BY DEF Mirror
<1>4. made' = made \cup (done \ {INBOX}) /\ stale' = stale
  BY DEF Mirror
<1>5. \A b \in Box : far[b] \subseteq far'[b] /\ near[b] \subseteq near'[b]
  BY <1>1, <1>2
<1>6. \A m \in arrived' : Somewhere(m)'
  BY <1>4, <1>5 DEF Somewhere
<1>7. \A f \in Folder : (f \notin exposed' => far'[f] = {}) /\ (f \notin made' => near'[f] = {})
  BY <1>1, <1>2, <1>4, BoxAssumption DEF Box
<1>8. \A b \in Box : far'[b] \subseteq arrived' /\ near'[b] \subseteq arrived'
  BY <1>1, <1>2
<1> QED BY <1>3, <1>4, <1>6, <1>7, <1>8

(* The stale folders take their mail with them. *)
LEMMA MoveKeepsMail ==
    ASSUME MailOK, NEW t \in Thread, Move(t)
    PROVE  MailOK'
<1> USE DEF MailOK
<1>1. UNCHANGED <<far, exposed, arrived, retired>>
  BY DEF Move, SyncFrame
<1>2. \A b \in Box : near'[b] = IF b \in made \ names[t] THEN {} ELSE near[b]
  BY DEF Move
<1>3. near' \in [Box -> SUBSET Mail] /\ made' = made \cap names[t]
  BY DEF Move
<1>4. stale' = stale \cup UNION {near[f] : f \in made \ names[t]}
  BY DEF Move
<1>5. made \subseteq Box
  BY DEF Box
<1>6. stale \subseteq stale' /\ \A f \in made \ names[t] : near[f] \subseteq stale'
  BY <1>4
<1>7. stale' \subseteq arrived
  BY <1>4, <1>5
<1>8. ASSUME NEW m \in arrived PROVE Somewhere(m)'
  BY <1>1, <1>2, <1>6, <1>8 DEF Somewhere
<1>9. \A f \in Folder : (f \notin exposed' => far'[f] = {}) /\ (f \notin made' => near'[f] = {})
  BY <1>1, <1>2, <1>3 DEF Box
<1>10. \A b \in Box : far'[b] \subseteq arrived' /\ near'[b] \subseteq arrived'
  BY <1>1, <1>2
<1>11. \A m \in arrived' : Somewhere(m)'
  BY <1>1, <1>8
<1> QED BY <1>1, <1>3, <1>7, <1>9, <1>10, <1>11

LEMMA MailStep == MailOK /\ [Next]_vars => MailOK'
<1> SUFFICES ASSUME MailOK, [Next]_vars PROVE MailOK'
  OBVIOUS
<1>1. ASSUME UNCHANGED mailVars PROVE MailOK'
  BY <1>1 DEF MailOK, mailVars, Somewhere
<1>2. ASSUME NEW t \in Thread, SyncStep(t) PROVE MailOK'
  <2>1. CASE InboxOk(t)
    BY <2>1, MirrorKeepsMail DEF InboxOk, AfterInbox, SyncFrame
  <2>2. CASE Move(t)
    BY <2>2, MoveKeepsMail
  <2>3. CASE AllOk(t)
    BY <2>3, MirrorKeepsMail DEF AllOk, AllFrame, SyncFrame
  <2>4. CASE AllBroken(t)
    <3>1. UNCHANGED <<exposed, arrived, retired>>
      BY <2>4 DEF AllBroken, AllFrame, SyncFrame
    <3>2. CASE NoMail
      BY <3>1, <3>2, <1>1 DEF NoMail, maildir, mailVars
    <3> QED BY <2>4, <3>1, <3>2, MirrorKeepsMail DEF AllBroken
  <2>6. CASE InboxFails(t) \/ InboxRefused(t)
    BY <2>6, <1>1 DEF InboxFails, InboxRefused, AfterInbox, NoMail, SyncFrame, maildir, mailVars
  <2>7. CASE NoPassword(t) \/ ListOk(t) \/ ListNo(t) \/ ListFails(t)
    BY <2>7, <1>1 DEF NoPassword, ListOk, ListNo, ListFails, ListFrame, NoMail, SyncFrame,
                      maildir, mailVars
  <2>8. CASE AllRefused(t)
    BY <2>8, <1>1 DEF AllRefused, AllFrame, NoMail, SyncFrame, maildir, mailVars
  <2> QED BY <1>2, <2>1, <2>2, <2>3, <2>4, <2>6, <2>7, <2>8 DEF SyncStep
<1>3. CASE Periodic \/ WatchStep \/ WatchEnds
  BY <1>1, <1>3 DEF Periodic, WatchStep, Respawn, Connect, ConnectFails, ConnectRefused, BeginPass,
                    SkipPass, Subscribe, EndPass, Pass, IdleStart,
                    Signalled, BackoffOver, WatchEnds, Watch, ThreadFrame, university, maildir,
                    mailVars
<1>4. CASE Crash \/ UNCHANGED vars
  BY <1>1, <1>4 DEF Crash, vars, university, maildir, mailVars
<1>5. CASE Environment
  <2>1. ASSUME NEW m \in Mail, NEW b \in Box, Deliver(m, b) PROVE MailOK'
    BY <2>1, BoxAssumption DEF Deliver, MailOK, Somewhere, maildir, Box
  <2>2. ASSUME NEW f \in Folder, NEW g \in Folder, Rename(f, g) PROVE MailOK'
    <3>1. f # g /\ g \notin exposed /\ far[g] = {}
      BY <2>2 DEF Rename, MailOK
    <3>2. f \in Box /\ g \in Box
      BY DEF Box
    <3>3. /\ far' = [far EXCEPT ![g] = far[f], ![f] = {}]
          /\ exposed' = (exposed \ {f}) \cup {g} /\ retired' = retired \cup {g}
          /\ UNCHANGED <<arrived, near, made, stale>>
      BY <2>2 DEF Rename
    <3>4. \A b \in Box : far'[b] = IF b = f THEN {} ELSE IF b = g THEN far[f] ELSE far[b]
      BY <3>1, <3>2, <3>3 DEF MailOK
    <3>5. ASSUME NEW m \in arrived PROVE Somewhere(m)'
      <4>1. CASE m \in far[f]
        BY <4>1, <3>1, <3>2, <3>4 DEF Somewhere
      <4>2. CASE m \notin far[f]
        BY <4>2, <3>1, <3>3, <3>4 DEF Somewhere, MailOK
      <4> QED BY <4>1, <4>2
    <3>6. far' \in [Box -> SUBSET Mail]
      BY <3>2, <3>3 DEF MailOK
    <3> QED BY <3>1, <3>2, <3>3, <3>4, <3>5, <3>6 DEF MailOK, Box
  <2>3. CASE ChangePassword \/ Reenroll
    BY <2>3, <1>1 DEF ChangePassword, Reenroll, maildir, mailVars
  <2>4. ASSUME NEW f \in Folder, MakeFolder(f) PROVE MailOK'
    BY <2>4 DEF MakeFolder, ClientFrame, MailOK, Somewhere
  <2>5. ASSUME NEW m \in Mail, NEW f \in Folder, File(m, f) PROVE MailOK'
    BY <2>5 DEF File, ClientFrame, MailOK, Somewhere, Box
  <2> QED BY <1>5, <2>1, <2>2, <2>3, <2>4, <2>5 DEF Environment
<1> QED BY <1>2, <1>3, <1>4, <1>5 DEF Next

(* The lists.  Only the thread that holds the lock mirrors folders, so the list of
   a thread that is about to act on it cannot be overtaken. *)
LEMMA ListStep == ThreadOK /\ FlagsOK /\ ListCurrent /\ [Next]_vars => ListCurrent'
<1> SUFFICES ASSUME ThreadOK, FlagsOK, ListCurrent, [Next]_vars PROVE ListCurrent'
  OBVIOUS
<1> USE DEF ListCurrent
<1>1. ASSUME steady' \subseteq steady, steady' \subseteq made' \cap exposed',
             UNCHANGED names, UNCHANGED refused,
             \A t \in Thread : pc'[t] = "move" => pc[t] = "move"
      PROVE  ListCurrent'
  BY <1>1
<1>2. ASSUME NEW t \in Thread, SyncStep(t) PROVE ListCurrent'
  <2>1. ASSUME NEW step, step # "move", pc' = [pc EXCEPT ![t] = step]
        PROVE  \A u \in Thread : pc'[u] = "move" => pc[u] = "move" /\ u # t
    BY <2>1 DEF ThreadOK
  <2>2. ASSUME NEW done \in SUBSET (exposed \cup {INBOX}), Mirror(done), UNCHANGED exposed,
               UNCHANGED names, UNCHANGED refused, lock = t \/ lock = "none", pc[t] # "move",
               \A u \in Thread : pc'[u] = "move" => pc[u] = "move" /\ u # t
        PROVE  ListCurrent'
    <3>1. \A u \in Thread : pc[u] = "move" => u = t
      BY <2>2 DEF ThreadOK, SyncSteps, Thread
    <3>2. steady' \subseteq made' \cap exposed'
      BY <2>2 DEF Mirror
    <3> QED BY <2>2, <3>1, <3>2
  <2>3. CASE InboxOk(t)
    <3>1. /\ Mirror({INBOX}) /\ UNCHANGED <<exposed, names, refused>>
          /\ pc[t] = "lock" /\ lock = "none"
          /\ \E step \in {"list", After(t)} : Goto(t, step)
      BY <2>3 DEF InboxOk, TakeLock, AfterInbox, SyncFrame, Finish, Over
    <3>3. \A u \in Thread : pc'[u] = "move" => pc[u] = "move" /\ u # t
      BY <3>1, <2>1 DEF Goto, After
    <3> QED BY <2>2, <3>1, <3>3
  <2>4. CASE AllOk(t) \/ AllBroken(t)
    <3>1. /\ UNCHANGED <<exposed, names, refused>> /\ pc[t] = "all" /\ Goto(t, After(t))
          /\ NoMail \/ \E done \in SUBSET (exposed \cup {INBOX}) : Mirror(done)
      BY <2>4 DEF AllOk, AllBroken, AllFrame, SyncFrame, Finish, Over
    <3>2. lock = t
      BY <3>1 DEF ThreadOK, SyncSteps
    <3>3. \A u \in Thread : pc'[u] = "move" => pc[u] = "move" /\ u # t
      BY <3>1, <2>1 DEF Goto, After
    <3>4. CASE NoMail
      BY <1>1, <3>1, <3>3, <3>4 DEF NoMail, maildir
    <3> QED BY <2>2, <3>1, <3>2, <3>3, <3>4
  <2>5. CASE ListOk(t)
    <3>1. /\ UNCHANGED <<steady, made, exposed>> /\ Goto(t, "move")
          /\ names' = [names EXCEPT ![t] = exposed] /\ refused' = [refused EXCEPT ![t] = FALSE]
      BY <2>5 DEF ListOk, ListFrame, NoMail, maildir, SyncFrame
    <3> QED BY <3>1 DEF Goto, ThreadOK
  <2>6. CASE ListNo(t)
    <3>1. /\ UNCHANGED <<steady, made, exposed>> /\ Goto(t, "move")
          /\ names' = [names EXCEPT ![t] = {}] /\ refused' = [refused EXCEPT ![t] = TRUE]
      BY <2>6 DEF ListNo, ListFrame, NoMail, maildir, SyncFrame
    <3> QED BY <3>1 DEF Goto, ThreadOK, FlagsOK
  <2>7. CASE Move(t)
    <3>1. /\ UNCHANGED exposed /\ Goto(t, "all") /\ Forget(t)
          /\ made' = made \cap names[t] /\ steady' = steady \cap names[t]
      BY <2>7 DEF Move, SyncFrame
    <3> QED BY <3>1 DEF Goto, Forget, ThreadOK
  <2>8. CASE \/ InboxFails(t) \/ InboxRefused(t) \/ NoPassword(t) \/ ListFails(t)
             \/ AllRefused(t)
    <3>1. /\ UNCHANGED <<steady, made, exposed, names, refused>>
          /\ \E step \in {"list", "all", After(t)} : Goto(t, step)
      BY <2>8 DEF InboxFails, InboxRefused, NoPassword, ListFails, AllRefused, ListFrame,
                  AllFrame, AfterInbox, Finish, Over, NoMail, maildir, SyncFrame
    <3> QED BY <1>1, <2>1, <3>1 DEF Goto, After
  <2> QED BY <1>2, <2>3, <2>4, <2>5, <2>6, <2>7, <2>8 DEF SyncStep
<1>3. CASE Periodic \/ WatchStep \/ WatchEnds
  BY <1>1, <1>3 DEF Periodic, WatchStep, Respawn, Connect, ConnectFails, ConnectRefused, BeginPass,
                    SkipPass, Subscribe, EndPass, Pass, IdleStart,
                    Signalled, BackoffOver, WatchEnds, Watch, Goto, ThreadFrame, university, maildir,
                    ThreadOK
<1>4. CASE Crash
  BY <1>4 DEF Crash, university, maildir
<1>5. CASE Environment
  BY <1>1, <1>5 DEF Environment, Deliver, Rename, ChangePassword, Reenroll, MakeFolder, File,
                    ClientFrame, DaemonFrame, work, maildir
<1>6. CASE UNCHANGED vars
  BY <1>1, <1>6 DEF vars, university, maildir, work
<1> QED BY <1>2, <1>3, <1>4, <1>5, <1>6 DEF Next

(* The pass.  Nothing but its own steps and a crash goes in or out of it. *)
LEMMA PassStep == ThreadOK /\ MailOK /\ PassOK /\ [Next]_vars => PassOK'
<1> SUFFICES ASSUME ThreadOK, MailOK, PassOK, [Next]_vars PROVE PassOK'
  OBVIOUS
<1>1. ASSUME UNCHANGED visible, pc'["watcher"] = "subscribing" <=> pc["watcher"] = "subscribing"
      PROVE  PassOK'
  BY <1>1 DEF PassOK, visible
<1>2. ASSUME NEW t \in Thread, SyncStep(t) PROVE PassOK'
  <2>1. UNCHANGED visible
    BY <1>2 DEF SyncStep, InboxOk, InboxFails, InboxRefused, AfterInbox, NoPassword, ListOk, ListNo,
                ListFails, ListFrame, Move, AllOk, AllBroken, AllRefused, AllFrame, SyncFrame
  <2>2. pc[t] # "subscribing"
        /\ \E step \in {"list", "move", "all", After(t)} : pc' = [pc EXCEPT ![t] = step]
    BY <1>2 DEF SyncStep, InboxOk, InboxFails, InboxRefused, TakeLock, AfterInbox, NoPassword,
                ListOk, ListNo, ListFails, Move, AllOk, AllBroken, AllRefused, AllFrame, Finish,
                Over, Goto
  <2>3. pc'["watcher"] = "subscribing" <=> pc["watcher"] = "subscribing"
    BY <2>2 DEF ThreadOK, Thread, After
  <2> QED BY <1>1, <2>1, <2>3
<1>3. CASE BeginPass
  BY <1>3 DEF BeginPass, Pass, Goto, PassOK, MailOK, ThreadOK, Thread
<1>4. ASSUME NEW f \in Folder, Subscribe(f) PROVE PassOK'
  BY <1>4 DEF Subscribe, Pass, Goto, PassOK, ThreadOK, Thread
<1>5. CASE EndPass
  BY <1>5 DEF EndPass, Pass, Goto, PassOK, ThreadOK, Thread
<1>6. CASE \/ Periodic \/ WatchEnds \/ Respawn \/ Connect \/ ConnectFails \/ ConnectRefused
           \/ SkipPass \/ IdleStart \/ Signalled \/ BackoffOver
  <2>1. UNCHANGED visible
    BY <1>6 DEF Periodic, WatchEnds, Respawn, Connect, ConnectFails, ConnectRefused, SkipPass,
                IdleStart, Signalled, BackoffOver, Watch
  <2>2. pc'["watcher"] = "subscribing" <=> pc["watcher"] = "subscribing"
    BY <1>6 DEF Periodic, WatchEnds, Respawn, Connect, ConnectFails, ConnectRefused, SkipPass,
                IdleStart, Signalled, BackoffOver, Watch, Pass, Goto, ThreadOK, Thread
  <2> QED BY <1>1, <2>1, <2>2
<1>7. CASE Crash
  BY <1>7 DEF Crash, PassOK, Thread
<1>8. CASE Environment
  BY <1>1, <1>8 DEF Environment, Deliver, Rename, ChangePassword, Reenroll, MakeFolder, File,
                    ClientFrame, DaemonFrame
<1>9. CASE UNCHANGED vars
  BY <1>1, <1>9 DEF vars
<1> QED BY <1>2, <1>3, <1>4, <1>5, <1>6, <1>7, <1>8, <1>9 DEF Next, WatchStep

LEMMA SyncInvStep == SyncInv /\ [Next]_vars => SyncInv'
BY ThreadStep, FlagsStep, MailStep, ListStep, PassStep DEF SyncInv

LEMMA SyncInvariant == Spec => []SyncInv
BY SyncInvInit, SyncInvStep, PTL DEF Spec

-----------------------------------------------------------------------------
(* Every reachable state is well typed, and a thread that is in the middle of a
   sync is the one that holds the user's lock (_user_lock). *)
THEOREM SyncTyped == Spec => []TypeOK
<1>1. SyncInv => TypeOK
  <2> SUFFICES ASSUME SyncInv PROVE TypeOK
    OBVIOUS
  <2>1. /\ pc["watcher"] \in SyncSteps \cup WatchSteps /\ pc["periodic"] \in SyncSteps \cup {"sleep"}
        /\ \A t \in Thread : pc[t] \in SyncSteps \ {"lock"} <=> lock = t
    BY DEF SyncInv, ThreadOK, Thread
  <2> QED BY <2>1 DEF SyncInv, ThreadOK, FlagsOK, MailOK, ListCurrent, PassOK, TypeOK
<1> QED BY <1>1, SyncInvariant, PTL

(* No mail is lost: all of it is at the university, in the Maildir or among the
   stale folders (quarantine_stale_folders, mbsync's two-way runs). *)
THEOREM MailNeverLost == Spec => []NothingLost
<1>1. SyncInv => NothingLost
  BY DEF SyncInv, MailOK, Somewhere, NothingLost, MB!Kept
<1> QED BY <1>1, SyncInvariant, PTL

(* The mail, wherever it is, follows Mailbox: box by box, a run that succeeds only
   adds to what either side holds. *)
There == UNION {far[b] : b \in Box}
Here == UNION {near[b] : b \in Box}
MailSteps == [MB!Next]_(MB!vars)

LEMMA MirrorCopies ==
    ASSUME MailOK, NEW done \in SUBSET (exposed \cup {INBOX}), Mirror(done), UNCHANGED arrived
    PROVE  MailSteps
<1>1. \A b \in Box : /\ far'[b] = IF b \in done THEN far[b] \cup near[b] ELSE far[b]
                     /\ near'[b] = IF b \in done THEN far[b] \cup near[b] ELSE near[b]
  BY DEF Mirror
<1>2. There \subseteq There' /\ There' \subseteq There \cup Here
  <2>1. ASSUME NEW b \in Box
        PROVE  far[b] \subseteq far'[b] /\ far'[b] \subseteq far[b] \cup near[b]
    BY <1>1
  <2>2. ASSUME NEW m \in There PROVE m \in There'
    BY <2>1 DEF There
  <2>3. ASSUME NEW m \in There' PROVE m \in There \cup Here
    BY <2>1 DEF There, Here
  <2> QED BY <2>2, <2>3
<1>3. Here \subseteq Here' /\ Here' \subseteq There \cup Here
  <2>1. ASSUME NEW b \in Box
        PROVE  near[b] \subseteq near'[b] /\ near'[b] \subseteq far[b] \cup near[b]
    BY <1>1
  <2>2. ASSUME NEW m \in Here PROVE m \in Here'
    BY <2>1 DEF Here
  <2>3. ASSUME NEW m \in Here' PROVE m \in There \cup Here
    BY <2>1 DEF There, Here
  <2> QED BY <2>2, <2>3
<1>4. UNCHANGED <<arrived, stale>>
  BY DEF Mirror
<1> QED BY <1>2, <1>3, <1>4 DEF There, Here, MailSteps, MB!Next, MB!Copy

(* What quarantine_stale_folders moves was in the Maildir, and is kept. *)
LEMMA MoveSetsAside ==
    ASSUME MailOK, NEW t \in Thread, Move(t)
    PROVE  MailSteps
<1> DEFINE lot == UNION {near[f] : f \in made \ names[t]}
<1>1. UNCHANGED <<far, arrived>> /\ stale' = stale \cup lot
  BY DEF Move, SyncFrame
<1>2. \A b \in Box : near'[b] = IF b \in made \ names[t] THEN {} ELSE near[b]
  BY DEF Move
<1>3. made \subseteq Box
  BY DEF MailOK, Box
<1>4. lot \in SUBSET Mail /\ lot \subseteq Here
  BY <1>3 DEF MailOK, Here
<1>5. Here \ lot \subseteq Here' /\ Here' \subseteq Here
  <2>1. ASSUME NEW m \in Here, m \notin lot PROVE m \in Here'
    BY <2>1, <1>2 DEF Here
  <2>2. Here' \subseteq Here
    BY <1>2 DEF Here
  <2> QED BY <2>1, <2>2
<1>6. UNCHANGED There
  BY <1>1 DEF There
<1> HIDE DEF lot
<1>7. \E l \in SUBSET Mail : MB!SetAside(l)
  BY <1>1, <1>4, <1>5, <1>6 DEF There, Here, MB!SetAside
<1> QED BY <1>7 DEF MailSteps, MB!Next

(* A new message enters on one side. *)
LEMMA MailEnters ==
    ASSUME MailOK, NEW m \in Mail \ arrived, arrived' = arrived \cup {m}, NEW b \in Box,
           \/ far' = [far EXCEPT ![b] = @ \cup {m}] /\ UNCHANGED near
           \/ near' = [near EXCEPT ![b] = @ \cup {m}] /\ UNCHANGED far,
           UNCHANGED stale
    PROVE  MailSteps
<1>1. CASE far' = [far EXCEPT ![b] = @ \cup {m}] /\ UNCHANGED near
  <2>1. \A c \in Box : far'[c] = IF c = b THEN far[b] \cup {m} ELSE far[c]
    BY <1>1 DEF MailOK
  <2>2. There' = There \cup {m} /\ UNCHANGED Here
    <3>1. ASSUME NEW n PROVE n \in There' <=> n \in There \/ n = m
      BY <2>1 DEF There
    <3>2. UNCHANGED Here
      BY <1>1 DEF Here
    <3> QED BY <3>1, <3>2
  <2> QED BY <2>2 DEF There, Here, MailSteps, MB!Next, MB!Arrive
<1>2. CASE near' = [near EXCEPT ![b] = @ \cup {m}] /\ UNCHANGED far
  <2>1. \A c \in Box : near'[c] = IF c = b THEN near[b] \cup {m} ELSE near[c]
    BY <1>2 DEF MailOK
  <2>2. Here' = Here \cup {m} /\ UNCHANGED There
    <3>1. ASSUME NEW n PROVE n \in Here' <=> n \in Here \/ n = m
      BY <2>1 DEF Here
    <3>2. UNCHANGED There
      BY <1>2 DEF There
    <3> QED BY <3>1, <3>2
  <2> QED BY <2>2 DEF There, Here, MailSteps, MB!Next, MB!Arrive
<1> QED BY <1>1, <1>2

(* A rename moves mail between boxes of the same side, into one that was empty. *)
LEMMA RenameStays ==
    ASSUME MailOK, NEW f \in Folder, NEW g \in Folder, Rename(f, g)
    PROVE  MailSteps
<1>1. f # g /\ far[g] = {} /\ f \in Box /\ g \in Box
  BY DEF Rename, MailOK, Box
<1>2. \A b \in Box : far'[b] = IF b = f THEN {} ELSE IF b = g THEN far[f] ELSE far[b]
  BY <1>1 DEF Rename, MailOK
<1>3. There' = There
  <2>1. ASSUME NEW m \in There PROVE m \in There'
    <3>1. CASE m \in far[f]
      BY <3>1, <1>1, <1>2 DEF There
    <3>2. CASE m \notin far[f]
      BY <3>2, <2>1, <1>1, <1>2 DEF There
    <3> QED BY <3>1, <3>2
  <2>2. There' \subseteq There
    BY <1>1, <1>2 DEF There
  <2> QED BY <2>1, <2>2
<1>4. UNCHANGED <<arrived, near, stale>>
  BY DEF Rename
<1>5. UNCHANGED Here
  BY <1>4 DEF Here
<1> QED BY <1>3, <1>4, <1>5 DEF There, Here, MailSteps, MB!vars

LEMMA MailboxStep == MailOK /\ [Next]_vars => MailSteps
<1> SUFFICES ASSUME MailOK, [Next]_vars PROVE MailSteps
  OBVIOUS
<1>1. ASSUME UNCHANGED <<far, near, stale, arrived>> PROVE MailSteps
  <2>1. UNCHANGED <<There, Here, arrived, stale>>
    BY <1>1 DEF There, Here
  <2> QED BY <2>1 DEF There, Here, MailSteps, MB!vars
<1>2. ASSUME NEW t \in Thread, SyncStep(t) PROVE MailSteps
  <2>1. CASE InboxOk(t)
    BY <2>1, MirrorCopies DEF InboxOk, AfterInbox, SyncFrame
  <2>2. CASE Move(t)
    BY <2>2, MoveSetsAside
  <2>3. CASE AllOk(t)
    BY <2>3, MirrorCopies DEF AllOk, AllFrame, SyncFrame
  <2>4. CASE AllBroken(t)
    <3>1. UNCHANGED arrived
      BY <2>4 DEF AllBroken, AllFrame, SyncFrame
    <3>2. CASE NoMail
      BY <3>1, <3>2, <1>1 DEF NoMail, maildir
    <3> QED BY <2>4, <3>1, <3>2, MirrorCopies DEF AllBroken
  <2>5. CASE InboxFails(t) \/ InboxRefused(t)
    BY <2>5, <1>1 DEF InboxFails, InboxRefused, AfterInbox, NoMail, SyncFrame, maildir
  <2>6. CASE NoPassword(t) \/ ListOk(t) \/ ListNo(t) \/ ListFails(t)
    BY <2>6, <1>1 DEF NoPassword, ListOk, ListNo, ListFails, ListFrame, NoMail, SyncFrame, maildir
  <2>7. CASE AllRefused(t)
    BY <2>7, <1>1 DEF AllRefused, AllFrame, NoMail, SyncFrame, maildir
  <2> QED BY <1>2, <2>1, <2>2, <2>3, <2>4, <2>5, <2>6, <2>7 DEF SyncStep
<1>3. CASE Periodic \/ WatchStep \/ WatchEnds
  BY <1>1, <1>3 DEF Periodic, WatchStep, Respawn, Connect, ConnectFails, ConnectRefused, BeginPass,
                    SkipPass, Subscribe, EndPass, Pass, IdleStart,
                    Signalled, BackoffOver, WatchEnds, Watch, ThreadFrame, university, maildir
<1>4. CASE Crash \/ UNCHANGED vars
  BY <1>1, <1>4 DEF Crash, vars, university, maildir
<1>5. CASE Environment
  <2>1. ASSUME NEW m \in Mail, NEW b \in Box, Deliver(m, b) PROVE MailSteps
    BY <2>1, MailEnters DEF Deliver, maildir
  <2>2. ASSUME NEW f \in Folder, NEW g \in Folder, Rename(f, g) PROVE MailSteps
    BY <2>2, RenameStays
  <2>3. CASE ChangePassword \/ Reenroll
    BY <2>3, <1>1 DEF ChangePassword, Reenroll, maildir
  <2>4. ASSUME NEW f \in Folder, MakeFolder(f) PROVE MailSteps
    BY <2>4, <1>1 DEF MakeFolder, ClientFrame
  <2>5. ASSUME NEW m \in Mail, NEW f \in Folder, File(m, f) PROVE MailSteps
    BY <2>5, MailEnters DEF File, ClientFrame, Box
  <2> QED BY <1>5, <2>1, <2>2, <2>3, <2>4, <2>5 DEF Environment
<1> QED BY <1>2, <1>3, <1>4, <1>5 DEF Next

(* The mirror implements Mailbox: through renames, quarantines, failed runs and
   crashes, no run of mbsync takes mail from either side, and what
   quarantine_stale_folders moves away is kept (sync_user). *)
THEOREM ImplementsMailbox == Spec => MailRespected
<1>1. Init => MB!Init
  BY DEF Init, MB!Init
<1>2. SyncInv /\ [Next]_vars => [MB!Next]_(MB!vars)
  BY MailboxStep DEF SyncInv, MailSteps
<1> QED BY <1>1, <1>2, SyncInvariant, PTL DEF Spec, MB!Spec, MailRespected

(* A folder that was mirrored, and exposed ever since, is never moved away on the
   word of a list that was answered. *)
THEOREM LiveFoldersKept == Spec => LiveFolderStays
<1>1. ASSUME SyncInv, [Next]_vars
      PROVE  [\A t \in Thread : Move(t) /\ ~refused[t] => steady \subseteq made']_vars
  <2>1. ASSUME NEW t \in Thread, Move(t), ~refused[t] PROVE steady \subseteq made'
    <3>1. steady \subseteq made /\ steady \subseteq names[t] /\ made' = made \cap names[t]
      BY <1>1, <2>1 DEF Move, SyncInv, ListCurrent
    <3> QED BY <3>1
  <2> QED BY <2>1
<1> QED BY <1>1, SyncInvariant, PTL DEF Spec, LiveFolderStays

(* A folder that a pass has subscribed, and that counts as done, is not subscribed
   again, whatever ends and restarts the watcher (subscribe_once). *)
THEOREM SubscribedAtMostOnce == Spec => SubscribedOnce
<1>1. SyncInv /\ [Next]_vars => [\A f \in given : ~Subscribe(f)]_vars
  BY DEF SyncInv, PassOK, Subscribe, Pass
<1> QED BY <1>1, SyncInvariant, PTL DEF Spec, SubscribedOnce

-----------------------------------------------------------------------------
(* Push. *)

(* Between a sync and the next IDLE a signal that no sync has followed is still on
   the connection: nobody reads there. *)
Heard ==
    pc["watcher"] \in {"list", "move", "all", "subscribe", "subscribing", "idleStart"} /\ owed
        => news

LEMMA HeardInit == Init => Heard
BY DEF Init, Heard

(* How a step of each kind treats the watcher and its connection. *)
LEMMA HeardStep ==
    ASSUME ThreadOK, Heard, [Next]_vars
    PROVE  /\ Heard'
           /\ SignalNotMissed /\ ~SignalNotMissed' => IdleStart /\ news /\ ~news'
<1> USE DEF ThreadOK, Heard, SignalNotMissed, Thread, SyncSteps, WatchSteps
<1>1. ASSUME NEW t \in Thread, SyncStep(t)
      PROVE  Heard' /\ (SignalNotMissed => SignalNotMissed')
  <2>1. CASE InboxOk(t) \/ InboxFails(t) \/ InboxRefused(t)
    BY <2>1 DEF InboxOk, InboxFails, InboxRefused, AfterInbox
  <2>2. CASE NoPassword(t)
    BY <2>2 DEF NoPassword, ListFrame, Finish, Over, After, Goto, connection
  <2>3. CASE ListOk(t) \/ ListNo(t) \/ ListFails(t)
    BY <2>3 DEF ListOk, ListNo, ListFails, ListFrame, Goto, connection
  <2>4. CASE Move(t)
    BY <2>4 DEF Move, Goto, connection
  <2>5. CASE AllOk(t) \/ AllBroken(t) \/ AllRefused(t)
    BY <2>5 DEF AllOk, AllBroken, AllRefused, AllFrame, Finish, Over, After, Goto, connection
  <2> QED BY <1>1, <2>1, <2>2, <2>3, <2>4, <2>5 DEF SyncStep
<1>2. CASE Periodic
  BY <1>2 DEF Periodic, Goto, connection
<1>3. CASE WatchStep /\ ~IdleStart
  <2>1. CASE Respawn \/ Connect \/ ConnectFails \/ ConnectRefused \/ BackoffOver \/ Signalled
    BY <2>1 DEF Respawn, Connect, ConnectFails, ConnectRefused, BackoffOver, Signalled, Watch,
                Goto, connection
  <2>2. CASE BeginPass \/ SkipPass \/ (\E f \in Folder : Subscribe(f)) \/ EndPass
    BY <2>2 DEF BeginPass, SkipPass, Subscribe, EndPass, Pass, Goto, connection
  <2> QED BY <1>3, <2>1, <2>2 DEF WatchStep
<1>4. CASE IdleStart
  BY <1>4 DEF IdleStart, Watch, Goto
<1>5. CASE WatchEnds \/ Crash
  BY <1>5 DEF WatchEnds, Crash
<1>6. CASE Environment
  BY <1>6 DEF Environment, Deliver, Rename, ChangePassword, Reenroll, MakeFolder, File,
              ClientFrame, DaemonFrame, connection
<1>7. CASE UNCHANGED vars
  BY <1>7 DEF vars, connection
<1> QED BY <1>1, <1>2, <1>3, <1>4, <1>5, <1>6, <1>7 DEF Next

(* A push is missed at one place only: _idle_wait throws away a line that the server
   sends before its continuation.  Every other signal that comes while the watcher
   syncs, subscribes or waits for the lock is read once it idles, or an INBOX sync of
   either thread has been there first.  (SignalNotMissed is what that place refutes.) *)
THEOREM MissedOnlyAtIdleStart ==
    Spec => [][SignalNotMissed /\ ~SignalNotMissed' => IdleStart /\ news /\ ~news']_vars
<1>1. ThreadOK /\ Heard /\ [Next]_vars => Heard'
  BY HeardStep
<1>2. ThreadOK /\ Heard /\ [Next]_vars
        => [SignalNotMissed /\ ~SignalNotMissed' => IdleStart /\ news /\ ~news']_vars
  BY HeardStep
<1>3. SyncInv => ThreadOK
  BY DEF SyncInv
<1> QED BY <1>1, <1>2, <1>3, HeardInit, SyncInvariant, PTL DEF Spec
=============================================================================
