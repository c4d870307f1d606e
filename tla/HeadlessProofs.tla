--------------------------- MODULE HeadlessProofs ---------------------------
(***************************************************************************)
(* Theorems about HeadlessAuth, for every number of steps and every clock: *)
(* the types, that it implements SignIn, that the right credentials get    *)
(* in, and that its steps run out.                                         *)
(***************************************************************************)
EXTENDS HeadlessAuth, TLAPS

-----------------------------------------------------------------------------
(* How often the credentials have been shown, by the place the sign-in is at. *)
Bounds ==
    /\ shown <= Budget
    /\ pc \in {"start", "script"} => shown = 0
    /\ pc \in {"open", "entra", "probe", "password", "realm", "soap"} => shown <= 1
    /\ pc = "page" => step <= MAX_STEPS /\ shown <= 1 + step
    /\ pc = "challenge" => step <= ENTRA_STEPS /\ shown <= 2 + step

(* Where a sign-in can be that has been refused, and what it knows of it. *)
Refusals ==
    /\ refused => pc \in {"challenge", "callback", "error", "refused"}
    /\ pc = "challenge" /\ refused => page.refused
    /\ pc = "callback" /\ refused => rejected
    /\ rejected => refused

HInv == TypeOK /\ Bounds /\ Refusals

LEMMA PageFacts ==
    ASSUME NEW p \in Pages
    PROVE  /\ p.kind \in Kinds /\ p.refused \in BOOLEAN /\ p.cookie \in BOOLEAN
           /\ p.refused => p.kind \in {"login", "code", "plain", "blank"}
  BY DEF Pages

LEMMA KnownPages ==
    ASSUME NEW k \in Kinds
    PROVE  /\ Page(k) \in Pages
           /\ k = "code" => [Page(k) EXCEPT !.refused = TRUE] \in Pages
           /\ k = "blank" => [Page(k) EXCEPT !.cookie = TRUE] \in Pages
  BY DEF Page, Pages, Places

LEMMA AnswersArePages ==
    ASSUME NEW q, q \in Pages, NEW p \in Answers(q)
    PROVE  p \in Pages
  BY DEF Answers

LEMMA PolitePages == ASSUME NEW q PROVE PoliteAnswer(q) \in Pages
  <1>1. {"code", "relay", "csrf", "blank"} \subseteq Kinds
    BY DEF Kinds
  <1>2. /\ Page("code") \in Pages /\ Page("relay") \in Pages /\ Page("csrf") \in Pages
        /\ Page("blank") \in Pages
        /\ [Page("code") EXCEPT !.refused = TRUE] \in Pages
        /\ [Page("blank") EXCEPT !.cookie = TRUE] \in Pages
    BY <1>1, KnownPages
  <1>3. CASE q.kind = "login" BY <1>2, <1>3 DEF PoliteAnswer
  <1>4. CASE q.kind = "code"
    <2>1. CASE Fields(q) # {} /\ CodeTaken BY <1>2, <1>4, <2>1 DEF PoliteAnswer
    <2>2. CASE ~(Fields(q) # {} /\ CodeTaken) BY <1>2, <1>4, <2>2 DEF PoliteAnswer
    <2> QED BY <2>1, <2>2
  <1>5. CASE q.kind = "relay"
    <2>1. CASE Fields(q) = {} BY <1>2, <1>5, <2>1 DEF PoliteAnswer
    <2>2. CASE Fields(q) # {} BY <1>2, <1>5, <2>2 DEF PoliteAnswer
    <2> QED BY <2>1, <2>2
  <1>6. CASE q.kind = "csrf"
    <2>1. CASE Fields(q) = {} BY <1>2, <1>6, <2>1 DEF PoliteAnswer
    <2>2. CASE Fields(q) # {} BY <1>2, <1>6, <2>2 DEF PoliteAnswer
    <2> QED BY <2>1, <2>2
  <1>7. CASE q.kind \notin {"login", "code", "relay", "csrf"}
    BY <1>2, <1>7 DEF PoliteAnswer
  <1> QED BY <1>3, <1>4, <1>5, <1>6, <1>7

LEMMA ReceiveType ==
    ASSUME TypeOK, NEW p \in Pages, Receive(p)
    PROVE  page' \in Pages /\ jar' \in BOOLEAN /\ offset' \in {0, Skew}
  <1>1. conf.skew \in {0, Skew}
    BY DEF TypeOK, Confs
  <1> QED BY <1>1, PageFacts DEF TypeOK, Receive

LEMMA InitHInv == Init => HInv
  <1> SUFFICES ASSUME Init PROVE HInv
    OBVIOUS
  <1>1. page \in Pages
    BY KnownPages DEF Init, Kinds
  <1>2. conf.justSetUp \in BOOLEAN /\ conf \in Confs
    BY DEF Init, Confs
  <1>3. pc \in Steps
    BY DEF Init, Steps
  <1>4. Budget \in Nat
    BY StepAssumption DEF Budget
  <1>5. step \in 0 .. MAX_STEPS + ENTRA_STEPS /\ shown \in 0 .. 2 + MAX_STEPS + ENTRA_STEPS
    BY StepAssumption DEF Init
  <1>6. window \in 0 .. MaxWindow /\ offset \in {0, Skew}
    BY ClockAssumption DEF Init
  <1>7. TypeOK
    BY <1>1, <1>2, <1>3, <1>5, <1>6, Zenon DEF Init, TypeOK
  <1>8. Bounds
    BY <1>4, StepAssumption DEF Init, Bounds
  <1>9. Refusals
    BY DEF Init, Refusals
  <1> QED
    BY <1>7, <1>8, <1>9 DEF HInv

-----------------------------------------------------------------------------
(* The answer to any request is a page. *)

LEMMA AnswerTypes ==
    ASSUME TypeOK, NEW q \in Pages, NEW p \in Answers(q), Receive(p)
    PROVE  /\ p \in Pages /\ page' = p /\ p.refused \in BOOLEAN
           /\ page' \in Pages /\ jar' \in BOOLEAN /\ offset' \in {0, Skew}
           /\ p.refused => p.kind \in {"login", "code", "plain", "blank"}
  BY AnswersArePages, PageFacts, ReceiveType DEF Receive

(* Every action keeps the types: one case per action. *)
LEMMA TypeStep == HInv /\ [Next]_vars => TypeOK'
  <1> SUFFICES ASSUME HInv, [Next]_vars PROVE TypeOK'
    OBVIOUS
  <1>a. TypeOK /\ Bounds /\ Refusals
    BY DEF HInv
  <1>b. Page("login") \in Pages /\ Page("blank") \in Pages /\ PoliteAnswer(page) \in Pages
    BY KnownPages, PolitePages DEF Kinds
  <1>c. /\ step \in Nat /\ shown \in Nat /\ Budget \in Nat
        /\ Budget >= 2 + MAX_STEPS /\ Budget >= 2 + ENTRA_STEPS
    BY <1>a, StepAssumption DEF TypeOK, Budget
  <1> USE <1>a, <1>c, StepAssumption
  <1> USE DEF TypeOK, Steps, Bounds, Refusals, dialogue, clock, callback,
              history, EntraFrame, CallbackFrame, Goto, Look, AfterScript, Ends
  <1>1. CASE Start BY <1>1 DEF Start
  <1>2. CASE RunScript BY <1>2 DEF RunScript
  <1>3. CASE Open BY <1>3, <1>b, AnswerTypes DEF Open, Show
  <1>4. CASE GiveUp BY <1>4 DEF GiveUp
  <1>5. CASE SignedIn BY <1>5 DEF SignedIn
  <1>6. CASE FollowHop BY <1>6, <1>b, AnswerTypes DEF FollowHop, Show
  <1>7. CASE SubmitAsIs BY <1>7, <1>b, AnswerTypes DEF SubmitAsIs, Show
  <1>8. CASE SubmitFilled BY <1>8, <1>b, AnswerTypes DEF SubmitFilled, Show
  <1>9. CASE EntraOpen BY <1>9, <1>b, AnswerTypes DEF EntraOpen, Show
  <1>10. CASE EntraNoPassword BY <1>10 DEF EntraNoPassword
  <1>11. CASE Probe BY <1>11 DEF Probe
  <1>12. CASE EntraPassword BY <1>12, <1>b, AnswerTypes DEF EntraPassword, Show
  <1>13. CASE EntraReply BY <1>13, <1>b, AnswerTypes DEF EntraReply, Show
  <1>14. CASE EntraAssertion BY <1>14, <1>b, AnswerTypes DEF EntraAssertion, Show
  <1>15. CASE EntraGiveUp BY <1>15 DEF EntraGiveUp
  <1>16. CASE Realm BY <1>16 DEF Realm
  <1>17. CASE SoapLogin BY <1>17 DEF SoapLogin
  <1>18. CASE PostAssertion BY <1>18, <1>b, AnswerTypes DEF PostAssertion, Show
  <1>19. CASE Listen BY <1>19 DEF Listen
  <1>20. CASE AbortFast BY <1>20 DEF AbortFast
  <1>21. CASE CallbackTimeout BY <1>21 DEF CallbackTimeout
  <1>22. CASE BrowserConnects BY <1>22 DEF BrowserConnects
  <1>23. CASE BrowserSends BY <1>23 DEF BrowserSends
  <1>24. CASE DeadlinePasses BY <1>24 DEF DeadlinePasses
  <1>25. CASE WindowPasses BY <1>25, ClockAssumption DEF WindowPasses
  <1>26. CASE UNCHANGED vars BY <1>26 DEF vars
  <1> QED
    BY <1>1, <1>2, <1>3, <1>4, <1>5, <1>6, <1>7, <1>8, <1>9, <1>10, <1>11,
       <1>12, <1>13, <1>14, <1>15, <1>16, <1>17, <1>18, <1>19, <1>20, <1>21,
       <1>22, <1>23, <1>24, <1>25, <1>26
    DEF Next, Program, Generic, Entra

(* The credentials are shown once for a script, once for a password, once a turn. *)
LEMMA BoundStep == HInv /\ [Next]_vars => Bounds'
  <1> SUFFICES ASSUME HInv, [Next]_vars PROVE Bounds'
    OBVIOUS
  <1>a. TypeOK /\ Bounds /\ Refusals
    BY DEF HInv
  <1>b. Page("login") \in Pages /\ Page("blank") \in Pages /\ PoliteAnswer(page) \in Pages
    BY KnownPages, PolitePages DEF Kinds
  <1>c. /\ step \in Nat /\ shown \in Nat /\ Budget \in Nat
        /\ Budget >= 2 + MAX_STEPS /\ Budget >= 2 + ENTRA_STEPS
    BY <1>a, StepAssumption DEF TypeOK, Budget
  <1> USE <1>a, <1>c, StepAssumption
  <1> USE DEF Bounds, Budget, dialogue, clock, callback, history, EntraFrame,
              CallbackFrame, Goto, Look, AfterScript, Ends
  <1>1. CASE Start BY <1>1 DEF Start
  <1>2. CASE RunScript BY <1>2 DEF RunScript
  <1>3. CASE Open BY <1>3, <1>b, AnswerTypes DEF Open, Show
  <1>4. CASE GiveUp BY <1>4 DEF GiveUp
  <1>5. CASE SignedIn BY <1>5 DEF SignedIn
  <1>6. CASE FollowHop BY <1>6, <1>b, AnswerTypes DEF FollowHop, Show
  <1>7. CASE SubmitAsIs BY <1>7, <1>b, AnswerTypes DEF SubmitAsIs, Show
  <1>8. CASE SubmitFilled BY <1>8, <1>b, AnswerTypes DEF SubmitFilled, Show
  <1>9. CASE EntraOpen BY <1>9, <1>b, AnswerTypes DEF EntraOpen, Show
  <1>10. CASE EntraNoPassword BY <1>10 DEF EntraNoPassword
  <1>11. CASE Probe BY <1>11 DEF Probe
  <1>12. CASE EntraPassword BY <1>12, <1>b, AnswerTypes DEF EntraPassword, Show
  <1>13. CASE EntraReply BY <1>13, <1>b, AnswerTypes DEF EntraReply, Show
  <1>14. CASE EntraAssertion BY <1>14, <1>b, AnswerTypes DEF EntraAssertion, Show
  <1>15. CASE EntraGiveUp BY <1>15 DEF EntraGiveUp
  <1>16. CASE Realm BY <1>16 DEF Realm
  <1>17. CASE SoapLogin BY <1>17 DEF SoapLogin
  <1>18. CASE PostAssertion BY <1>18, <1>b, AnswerTypes DEF PostAssertion, Show
  <1>19. CASE Listen BY <1>19 DEF Listen
  <1>20. CASE AbortFast BY <1>20 DEF AbortFast
  <1>21. CASE CallbackTimeout BY <1>21 DEF CallbackTimeout
  <1>22. CASE BrowserConnects BY <1>22 DEF BrowserConnects
  <1>23. CASE BrowserSends BY <1>23 DEF BrowserSends
  <1>24. CASE DeadlinePasses BY <1>24 DEF DeadlinePasses
  <1>25. CASE WindowPasses BY <1>25, ClockAssumption DEF WindowPasses
  <1>26. CASE UNCHANGED vars BY <1>26 DEF vars
  <1> QED
    BY <1>1, <1>2, <1>3, <1>4, <1>5, <1>6, <1>7, <1>8, <1>9, <1>10, <1>11,
       <1>12, <1>13, <1>14, <1>15, <1>16, <1>17, <1>18, <1>19, <1>20, <1>21,
       <1>22, <1>23, <1>24, <1>25, <1>26
    DEF Next, Program, Generic, Entra

(* A refusal is acted on before anything else is done. *)
LEMMA RefusalStep == HInv /\ [Next]_vars => Refusals'
  <1> SUFFICES ASSUME HInv, [Next]_vars PROVE Refusals'
    OBVIOUS
  <1>a. TypeOK /\ Bounds /\ Refusals
    BY DEF HInv
  <1>b. Page("login") \in Pages /\ Page("blank") \in Pages /\ PoliteAnswer(page) \in Pages
    BY KnownPages, PolitePages DEF Kinds
  <1>c. /\ step \in Nat /\ shown \in Nat /\ Budget \in Nat
        /\ Budget >= 2 + MAX_STEPS /\ Budget >= 2 + ENTRA_STEPS
    BY <1>a, StepAssumption DEF TypeOK, Budget
  <1> USE <1>a, <1>c, StepAssumption
  <1> USE DEF Refusals, CarriesAssertion, Answerable, Relays, Receive, TypeOK,
              Pages, dialogue, clock, callback, history, EntraFrame,
              CallbackFrame, Goto, Look, AfterScript, Ends
  <1>1. CASE Start BY <1>1 DEF Start
  <1>2. CASE RunScript BY <1>2 DEF RunScript
  <1>3. CASE Open BY <1>3, <1>b, AnswerTypes DEF Open, Show
  <1>4. CASE GiveUp BY <1>4 DEF GiveUp
  <1>5. CASE SignedIn BY <1>5 DEF SignedIn
  <1>6. CASE FollowHop BY <1>6, <1>b, AnswerTypes DEF FollowHop, Show
  <1>7. CASE SubmitAsIs BY <1>7, <1>b, AnswerTypes DEF SubmitAsIs, Show
  <1>8. CASE SubmitFilled BY <1>8, <1>b, AnswerTypes DEF SubmitFilled, Show
  <1>9. CASE EntraOpen BY <1>9, <1>b, AnswerTypes DEF EntraOpen, Show
  <1>10. CASE EntraNoPassword BY <1>10 DEF EntraNoPassword
  <1>11. CASE Probe BY <1>11 DEF Probe
  <1>12. CASE EntraPassword BY <1>12, <1>b, AnswerTypes DEF EntraPassword, Show
  <1>13. CASE EntraReply BY <1>13, <1>b, AnswerTypes DEF EntraReply, Show
  <1>14. CASE EntraAssertion BY <1>14, <1>b, AnswerTypes DEF EntraAssertion, Show
  <1>15. CASE EntraGiveUp BY <1>15 DEF EntraGiveUp
  <1>16. CASE Realm BY <1>16 DEF Realm
  <1>17. CASE SoapLogin BY <1>17 DEF SoapLogin
  <1>18. CASE PostAssertion BY <1>18, <1>b, AnswerTypes DEF PostAssertion, Show
  <1>19. CASE Listen BY <1>19 DEF Listen
  <1>20. CASE AbortFast BY <1>20 DEF AbortFast
  <1>21. CASE CallbackTimeout BY <1>21 DEF CallbackTimeout
  <1>22. CASE BrowserConnects BY <1>22 DEF BrowserConnects
  <1>23. CASE BrowserSends BY <1>23 DEF BrowserSends
  <1>24. CASE DeadlinePasses BY <1>24 DEF DeadlinePasses
  <1>25. CASE WindowPasses BY <1>25, ClockAssumption DEF WindowPasses
  <1>26. CASE UNCHANGED vars BY <1>26 DEF vars
  <1> QED
    BY <1>1, <1>2, <1>3, <1>4, <1>5, <1>6, <1>7, <1>8, <1>9, <1>10, <1>11,
       <1>12, <1>13, <1>14, <1>15, <1>16, <1>17, <1>18, <1>19, <1>20, <1>21,
       <1>22, <1>23, <1>24, <1>25, <1>26
    DEF Next, Program, Generic, Entra

(* Every action is one of SignIn's, or none. *)
LEMMA PromiseStep == HInv /\ [Next]_vars => [Promise!Next]_<<Phase, shown, refused>>
  <1> SUFFICES ASSUME HInv, [Next]_vars PROVE [Promise!Next]_<<Phase, shown, refused>>
    OBVIOUS
  <1>a. TypeOK /\ Bounds /\ Refusals
    BY DEF HInv
  <1>b. Page("login") \in Pages /\ Page("blank") \in Pages /\ PoliteAnswer(page) \in Pages
    BY KnownPages, PolitePages DEF Kinds
  <1>c. /\ step \in Nat /\ shown \in Nat /\ Budget \in Nat
        /\ Budget >= 2 + MAX_STEPS /\ Budget >= 2 + ENTRA_STEPS
    BY <1>a, StepAssumption DEF TypeOK, Budget
  <1> USE <1>a, <1>c, StepAssumption
  <1> USE DEF Promise!Next, Promise!Show, Promise!Ask, Promise!End, Phase,
              Bounds, Refusals, CarriesAssertion, Answerable, Relays, Receive,
              TypeOK, Pages, dialogue, clock, callback, history, EntraFrame,
              CallbackFrame, Goto, Look, AfterScript, Ends
  <1>1. CASE Start BY <1>1 DEF Start
  <1>2. CASE RunScript BY <1>2 DEF RunScript
  <1>3. CASE Open BY <1>3, <1>b, AnswerTypes DEF Open, Show
  <1>4. CASE GiveUp BY <1>4 DEF GiveUp
  <1>5. CASE SignedIn BY <1>5 DEF SignedIn
  <1>6. CASE FollowHop BY <1>6, <1>b, AnswerTypes DEF FollowHop, Show
  <1>7. CASE SubmitAsIs BY <1>7, <1>b, AnswerTypes DEF SubmitAsIs, Show
  <1>8. CASE SubmitFilled BY <1>8, <1>b, AnswerTypes DEF SubmitFilled, Show
  <1>9. CASE EntraOpen BY <1>9, <1>b, AnswerTypes DEF EntraOpen, Show
  <1>10. CASE EntraNoPassword BY <1>10 DEF EntraNoPassword
  <1>11. CASE Probe BY <1>11 DEF Probe
  <1>12. CASE EntraPassword BY <1>12, <1>b, AnswerTypes DEF EntraPassword, Show
  <1>13. CASE EntraReply BY <1>13, <1>b, AnswerTypes DEF EntraReply, Show
  <1>14. CASE EntraAssertion BY <1>14, <1>b, AnswerTypes DEF EntraAssertion, Show
  <1>15. CASE EntraGiveUp BY <1>15 DEF EntraGiveUp
  <1>16. CASE Realm BY <1>16 DEF Realm
  <1>17. CASE SoapLogin BY <1>17 DEF SoapLogin
  <1>18. CASE PostAssertion BY <1>18, <1>b, AnswerTypes DEF PostAssertion, Show
  <1>19. CASE Listen BY <1>19 DEF Listen
  <1>20. CASE AbortFast BY <1>20 DEF AbortFast
  <1>21. CASE CallbackTimeout BY <1>21 DEF CallbackTimeout
  <1>22. CASE BrowserConnects BY <1>22 DEF BrowserConnects
  <1>23. CASE BrowserSends BY <1>23 DEF BrowserSends
  <1>24. CASE DeadlinePasses BY <1>24 DEF DeadlinePasses
  <1>25. CASE WindowPasses BY <1>25, ClockAssumption DEF WindowPasses
  <1>26. CASE UNCHANGED vars BY <1>26 DEF vars
  <1> QED
    BY <1>1, <1>2, <1>3, <1>4, <1>5, <1>6, <1>7, <1>8, <1>9, <1>10, <1>11,
       <1>12, <1>13, <1>14, <1>15, <1>16, <1>17, <1>18, <1>19, <1>20, <1>21,
       <1>22, <1>23, <1>24, <1>25, <1>26
    DEF Next, Program, Generic, Entra

-----------------------------------------------------------------------------
(* Every variable keeps to its range, for every number of steps. *)
THEOREM SignInTyped == Spec => []TypeOK
  <1>1. HInv /\ [Next]_vars => HInv'
    BY TypeStep, BoundStep, RefusalStep DEF HInv
  <1>2. HInv => TypeOK
    BY DEF HInv
  <1> QED BY <1>1, <1>2, InitHInv, PTL DEF Spec

(* A sign-in keeps its promise, whatever the provider answers: the credentials are
   shown at most Budget times and not again after a refusal, which is neither
   followed by a request to sign in by hand nor reported without cause. *)
THEOREM PromiseKept == Spec => KeepsPromise
  <1>1. HInv /\ [Next]_vars => HInv'
    BY TypeStep, BoundStep, RefusalStep DEF HInv
  <1>2. Init => Promise!Init
    BY DEF Init, Promise!Init, Phase, Ends
  <1> QED BY <1>1, <1>2, InitHInv, PromiseStep, PTL DEF Spec, KeepsPromise, Promise!Spec

-----------------------------------------------------------------------------
(* The right credentials. *)

Good ==
    /\ conf.polite /\ conf.totp # "none"
    /\ conf.skew = 0 \/ (conf.dated /\ conf.totp = "raw")

(* The dialogue with a polite provider, page by page. *)
Dialogue ==
    /\ page.kind \in {"login", "code", "relay", "csrf", "blank"}
    /\ page.kind = "login" => step = 0 /\ ~jar
    /\ page.kind = "code" => step = 1 /\ ~jar
    /\ page.kind = "relay" => step = 2 /\ ~jar
    /\ page.kind = "csrf" => step = 3 /\ ~jar
    /\ page.kind = "blank" => step = 4 /\ jar
    /\ conf.dated => offset = conf.skew
    /\ page.kind \in {"login", "code"} /\ conf.justSetUp => cooldown

GoodInv ==
    /\ conf.polite =>
          conf.creds = "full" /\ ~conf.entra /\ ~conf.script /\ ~conf.whitelist
    /\ offset \in {0, conf.skew}
    /\ Good => pc \in {"start", "open", "page", "token"}
    /\ Good /\ pc \in {"start", "open"} => ~jar /\ (conf.justSetUp => cooldown)
    /\ Good /\ pc = "page" => Dialogue

LEMMA CodeFits ==
    ASSUME TypeOK, GoodInv, Good, Dialogue, page.kind = "code", cooldown => window > 0
    PROVE  Fields(page) # {} /\ CodeTaken
  <1>1. Code = window
    <2>1. window \in Int /\ conf.skew \in Int /\ offset \in Int
      BY ClockAssumption DEF TypeOK, Confs
    <2>2. CASE conf.dated /\ conf.totp = "raw"
      BY <2>1, <2>2 DEF Code, Dialogue
    <2>3. CASE conf.skew = 0 /\ conf.totp # "raw"
      BY <2>1, <2>3 DEF Code
    <2>4. CASE conf.skew = 0 /\ conf.totp = "raw"
      BY <2>1, <2>4 DEF Code, GoodInv
    <2> QED BY <2>2, <2>3, <2>4 DEF Good
  <1>2. window \in (window - 1) .. (window + 1)
    BY ClockAssumption DEF TypeOK
  <1>3. conf.justSetUp => window # 0
    BY DEF Dialogue
  <1> QED BY <1>1, <1>2, <1>3 DEF CodeTaken, Fields, Good

LEMMA PoliteStep ==
    ASSUME HInv, GoodInv, Good, Look, ~jar, page.kind \in Forms, CooledDown,
           NEW p \in Answers(PoliteAnswer(page)), pc = "page"
    PROVE  /\ p = PoliteAnswer(page) /\ ~p.refused /\ p.kind # "lost"
           /\ page.kind \in {"login", "code", "relay", "csrf"}
           /\ page.kind = "login" => p.kind = "code" /\ ~p.cookie
           /\ page.kind = "code" => p.kind = "relay" /\ ~p.cookie
           /\ page.kind = "relay" => p.kind = "csrf" /\ ~p.cookie
           /\ page.kind = "csrf" => p.kind = "blank" /\ p.cookie
  <1>1. p = PoliteAnswer(page)
    BY DEF Answers, Good
  <1>2. Dialogue /\ TypeOK
    BY DEF GoodInv, HInv
  <1>3. page.kind \in {"login", "code", "relay", "csrf"}
    BY <1>2 DEF Forms, Dialogue
  <1>4. CASE page.kind = "login" BY <1>1, <1>4 DEF PoliteAnswer, Page
  <1>5. CASE page.kind = "code"
    BY <1>1, <1>2, <1>5, CodeFits DEF PoliteAnswer, Page, CooledDown
  <1>6. CASE page.kind = "relay" BY <1>1, <1>6 DEF PoliteAnswer, Page, Fields
  <1>7. CASE page.kind = "csrf" BY <1>1, <1>7 DEF PoliteAnswer, Page, Fields
  <1> QED BY <1>1, <1>3, <1>4, <1>5, <1>6, <1>7

LEMMA GoodStep ==
    ASSUME HInv, GoodInv, [Next]_vars, MAX_STEPS >= 5
    PROVE  GoodInv'
  <1>0. conf' = conf
    BY DEF Next, Program, Generic, Entra, vars, EntraFrame, CallbackFrame, Start, RunScript,
           Open, GiveUp, SignedIn, FollowHop, SubmitAsIs, SubmitFilled, EntraOpen,
           EntraNoPassword, Probe, EntraPassword, EntraReply, EntraAssertion, EntraGiveUp,
           Realm, SoapLogin, PostAssertion, Listen, AbortFast, CallbackTimeout,
           BrowserConnects, BrowserSends, DeadlinePasses, WindowPasses
  <1>e. offset' \in {0, conf.skew}
    BY <1>0 DEF GoodInv, Next, Program, Generic, Entra, vars, dialogue, EntraFrame,
           CallbackFrame, Receive, Start, RunScript,
           Open, GiveUp, SignedIn, FollowHop, SubmitAsIs, SubmitFilled, EntraOpen,
           EntraNoPassword, Probe, EntraPassword, EntraReply, EntraAssertion, EntraGiveUp,
           Realm, SoapLogin, PostAssertion, Listen, AbortFast, CallbackTimeout,
           BrowserConnects, BrowserSends, DeadlinePasses, WindowPasses
  <1>1. SUFFICES ASSUME Good
        PROVE  /\ pc' \in {"start", "open", "page", "token"}
               /\ pc' \in {"start", "open"} => ~jar' /\ (conf.justSetUp => cooldown')
               /\ pc' = "page" => Dialogue'
    BY <1>0, <1>e DEF GoodInv, Good
  <1>2. pc \in {"start", "open", "page", "token"} /\ conf.polite
    BY <1>1 DEF GoodInv, Good
  <1>3. TypeOK /\ ~conf.entra /\ ~conf.script /\ ~conf.whitelist /\ conf.creds = "full"
    BY <1>2 DEF GoodInv, HInv
  <1>4. step \in Nat
    BY <1>3, StepAssumption DEF TypeOK
  <1> USE <1>0, <1>2, <1>3, <1>4 DEF dialogue, clock, callback, Goto
  <1>5. CASE Start BY <1>5, <1>1 DEF Start, AfterScript, GoodInv
  <1>6. CASE Open
    <2>1. PICK p \in Answers(Page("login")) :
              Receive(p) /\ Goto(IF p.kind = "lost" THEN "callback" ELSE "page")
      BY <1>6 DEF Open
    <2>2. p = Page("login")
      BY <2>1 DEF Answers
    <2>3. p.kind = "login" /\ ~p.cookie
      BY <2>2 DEF Page
    <2>4. step' = 0 /\ pc = "open" /\ UNCHANGED cooldown /\ ~jar
      BY <1>6, <1>1 DEF Open, GoodInv
    <2> QED BY <2>1, <2>3, <2>4, <1>1 DEF Receive, Dialogue, GoodInv
  <1>7. CASE SubmitAsIs
    <2>1. PICK p \in Answers(PoliteAnswer(page)) :
              Receive(p) /\ Goto(IF p.kind = "lost" THEN "callback" ELSE "page")
      BY <1>7 DEF SubmitAsIs
    <2>2. pc = "page" /\ Dialogue /\ step' = step + 1 /\ UNCHANGED cooldown
      BY <1>7, <1>1 DEF SubmitAsIs, Look, GoodInv
    <2>3. page.kind \notin {"login", "code"}
      BY <1>7, <1>1 DEF SubmitAsIs, Fields, Good
    <2>4. CooledDown
      BY <2>3 DEF CooledDown
    <2>5. Look /\ ~jar /\ page.kind \in Forms
      BY <1>7 DEF SubmitAsIs
    <2>6. /\ p.kind # "lost"
          /\ page.kind = "relay" => p.kind = "csrf" /\ ~p.cookie
          /\ page.kind = "csrf" => p.kind = "blank" /\ p.cookie
          /\ page.kind \in {"relay", "csrf"}
      BY <1>1, <2>1, <2>2, <2>3, <2>4, <2>5, PoliteStep
    <2>7. /\ pc' = "page" /\ page' = p /\ (jar' <=> jar \/ p.cookie)
          /\ conf.dated => offset' = conf.skew
      BY <2>1, <2>6 DEF Receive
    <2> QED BY <2>2, <2>5, <2>6, <2>7 DEF Dialogue
  <1>8. CASE SubmitFilled
    <2>1. PICK p \in Answers(PoliteAnswer(page)) :
              /\ Receive(p)
              /\ Goto(IF p.kind = "lost" \/ p.refused THEN "callback" ELSE "page")
      BY <1>8 DEF SubmitFilled
    <2>2. pc = "page" /\ Dialogue /\ step' = step + 1 /\ CooledDown
      BY <1>8, <1>1 DEF SubmitFilled, Look, GoodInv
    <2>3. cooldown' = (cooldown /\ page.kind # "code")
      BY <1>8 DEF SubmitFilled
    <2>4. Look /\ ~jar /\ page.kind \in Forms /\ Fields(page) # {}
      BY <1>8 DEF SubmitFilled
    <2>5. /\ p.kind # "lost" /\ ~p.refused
          /\ page.kind = "login" => p.kind = "code" /\ ~p.cookie
          /\ page.kind = "code" => p.kind = "relay" /\ ~p.cookie
          /\ page.kind \in {"login", "code"}
      BY <1>1, <2>1, <2>2, <2>4, PoliteStep DEF Fields
    <2>6. /\ pc' = "page" /\ page' = p /\ (jar' <=> jar \/ p.cookie)
          /\ conf.dated => offset' = conf.skew
      BY <2>1, <2>5 DEF Receive
    <2>7. page.kind = "login" => (cooldown' <=> cooldown)
      BY <2>3
    <2> QED BY <2>2, <2>4, <2>5, <2>6, <2>7 DEF Dialogue
  <1>9. CASE GiveUp
    BY <1>1, <1>9 DEF GiveUp, HostAllowed, GoodInv, Dialogue
  <1>10. CASE SignedIn BY <1>10, <1>1 DEF SignedIn
  <1>11. CASE FollowHop BY <1>11, <1>1 DEF FollowHop, Look, GoodInv, Dialogue
  <1>12. CASE WindowPasses
    BY <1>12, <1>1 DEF WindowPasses, GoodInv, Dialogue
  <1>13. CASE UNCHANGED vars
    BY <1>13, <1>1 DEF vars, GoodInv, Dialogue
  <1>14. ASSUME RunScript \/ Entra \/ Listen \/ AbortFast \/ CallbackTimeout
                \/ BrowserConnects \/ BrowserSends \/ DeadlinePasses
         PROVE  FALSE
    BY <1>14 DEF Entra, RunScript, EntraOpen, EntraNoPassword, Probe, EntraPassword,
           EntraReply, EntraAssertion, EntraGiveUp, Realm, SoapLogin, PostAssertion, Listen,
           AbortFast, CallbackTimeout, BrowserConnects, BrowserSends, DeadlinePasses
  <1> QED BY <1>5, <1>6, <1>7, <1>8, <1>9, <1>10, <1>11, <1>12, <1>13, <1>14
          DEF Next, Program, Generic

(* Five turns of the loop are enough for the right credentials, whatever the local
   clock says and whatever time passes. *)
THEOREM GoodSignsIn == MAX_STEPS >= 5 /\ Spec => []GoodSignInSucceeds
  <1>1. Init => GoodInv
    BY DEF Init, GoodInv, Good
  <1>2. GoodInv => GoodSignInSucceeds
    BY DEF GoodInv, Good, GoodSignInSucceeds
  <1>3. HInv /\ [Next]_vars => HInv'
    BY TypeStep, BoundStep, RefusalStep DEF HInv
  <1>4. SUFFICES ASSUME MAX_STEPS >= 5 PROVE Spec => []GoodSignInSucceeds
    OBVIOUS
  <1>5. HInv /\ GoodInv /\ [Next]_vars => GoodInv'
    BY <1>4, GoodStep
  <1> QED BY <1>1, <1>2, <1>3, <1>5, InitHInv, PTL DEF Spec

-----------------------------------------------------------------------------
(* The end. *)

(* How many steps of its own the sign-in has left at most, wherever it is. *)
Left ==
    CASE pc = "start" -> 8 + MAX_STEPS + ENTRA_STEPS
      [] pc = "script" -> 7 + MAX_STEPS + ENTRA_STEPS
      [] pc = "open" -> 4 + MAX_STEPS
      [] pc = "page" -> 3 + MAX_STEPS - step
      [] pc = "callback" -> 2
      [] pc = "entra" -> 6 + ENTRA_STEPS
      [] pc = "probe" -> 5 + ENTRA_STEPS
      [] pc = "password" -> 2 + ENTRA_STEPS
      [] pc = "challenge" -> 1 + ENTRA_STEPS - step
      [] pc = "realm" -> 4
      [] pc = "soap" -> 3
      [] pc = "assertion" -> 2
      [] pc \in {"federated", "listening"} -> 1
      [] OTHER -> 0

LEMMA LeftCounts ==
    ASSUME step \in Nat, pc = "page" => step <= MAX_STEPS, pc = "challenge" => step <= ENTRA_STEPS,
           pc \in Steps
    PROVE  Left \in 0 .. 8 + MAX_STEPS + ENTRA_STEPS /\ (Left = 0 <=> pc \in Ends)
  <1>1. Left \in Int
    BY StepAssumption DEF Left
  <1>2. Left >= 0
    BY StepAssumption DEF Left
  <1>3. Left <= 8 + MAX_STEPS + ENTRA_STEPS
    BY StepAssumption DEF Left
  <1>4. Left = 0 <=> pc \in Ends
    BY StepAssumption DEF Left, Steps, Ends
  <1> QED BY <1>1, <1>2, <1>3, <1>4, StepAssumption

LEMMA LeftBounded ==
    HInv => Left \in 0 .. 8 + MAX_STEPS + ENTRA_STEPS /\ (Left = 0 <=> pc \in Ends)
  BY LeftCounts, StepAssumption DEF HInv, TypeOK, Bounds

(* Whatever the provider answers, a step uses up one of those left. *)
LEMMA ProgramStep == HInv /\ Program => Left' < Left
  <1> SUFFICES ASSUME HInv, Program PROVE Left' < Left
    OBVIOUS
  <1>a. step \in Nat /\ (pc = "page" => step <= MAX_STEPS) /\ (pc = "challenge" => step <= ENTRA_STEPS)
    BY StepAssumption DEF HInv, TypeOK, Bounds
  <1> USE <1>a, StepAssumption
  <1> USE DEF Left, Ends, dialogue, Goto, Look, AfterScript
  <1>1. CASE Start BY <1>1 DEF Start
  <1>2. CASE RunScript BY <1>2 DEF RunScript
  <1>3. CASE Open BY <1>3 DEF Open
  <1>4. CASE GiveUp BY <1>4 DEF GiveUp
  <1>5. CASE SignedIn BY <1>5 DEF SignedIn
  <1>6. CASE FollowHop BY <1>6 DEF FollowHop
  <1>7. CASE SubmitAsIs BY <1>7 DEF SubmitAsIs
  <1>8. CASE SubmitFilled BY <1>8 DEF SubmitFilled
  <1>9. CASE EntraOpen BY <1>9 DEF EntraOpen
  <1>10. CASE EntraNoPassword BY <1>10 DEF EntraNoPassword
  <1>11. CASE Probe BY <1>11 DEF Probe
  <1>12. CASE EntraPassword BY <1>12 DEF EntraPassword
  <1>13. CASE EntraReply BY <1>13 DEF EntraReply
  <1>14. CASE EntraAssertion BY <1>14 DEF EntraAssertion
  <1>15. CASE EntraGiveUp BY <1>15 DEF EntraGiveUp
  <1>16. CASE Realm BY <1>16 DEF Realm
  <1>17. CASE SoapLogin BY <1>17 DEF SoapLogin
  <1>18. CASE PostAssertion BY <1>18 DEF PostAssertion
  <1>19. CASE Listen BY <1>19 DEF Listen
  <1>20. CASE AbortFast BY <1>20 DEF AbortFast
  <1>21. CASE CallbackTimeout BY <1>21 DEF CallbackTimeout
  <1> QED
    BY <1>1, <1>2, <1>3, <1>4, <1>5, <1>6, <1>7, <1>8, <1>9, <1>10, <1>11,
       <1>12, <1>13, <1>14, <1>15, <1>16, <1>17, <1>18, <1>19, <1>20, <1>21
    DEF Program, Generic, Entra

(* Time and browsers give it no step back. *)
LEMMA OthersStep ==
    HInv /\ (BrowserConnects \/ BrowserSends \/ DeadlinePasses \/ WindowPasses) => Left' <= Left
  <1> SUFFICES ASSUME HInv, BrowserConnects \/ BrowserSends \/ DeadlinePasses \/ WindowPasses
               PROVE  Left' <= Left
    OBVIOUS
  <1>1. Left \in Int
    BY LeftBounded, StepAssumption
  <1>2. ASSUME UNCHANGED <<pc, step>> PROVE Left' <= Left
    <2>1. Left' = Left
      BY <1>2 DEF Left
    <2> QED BY <1>1, <2>1
  <1>3. CASE BrowserSends BY <1>3 DEF BrowserSends, Goto, Left, Ends
  <1>4. CASE BrowserConnects \/ DeadlinePasses \/ WindowPasses
    BY <1>2, <1>4 DEF BrowserConnects, DeadlinePasses, WindowPasses, CallbackFrame, dialogue
  <1> QED BY <1>3, <1>4

(* No provider can keep a sign-in going: authenticate() takes at most
   8 + MAX_STEPS + ENTRA_STEPS steps of its own, through all the ways it tries,
   whatever pages it is sent, and neither time nor a browser adds one.  (That it
   takes them is fairness: SignInEnds.) *)
THEOREM StepsRunOut ==
    Spec => /\ []( Left \in 0 .. 8 + MAX_STEPS + ENTRA_STEPS /\ (Left = 0 <=> pc \in Ends) )
            /\ [][IF Program THEN Left' < Left ELSE Left' <= Left]_vars
  <1>1. HInv /\ [Next]_vars => HInv'
    BY TypeStep, BoundStep, RefusalStep DEF HInv
  <1>2. HInv /\ [Next]_vars => [IF Program THEN Left' < Left ELSE Left' <= Left]_vars
    BY ProgramStep, OthersStep DEF Next
  <1> QED BY <1>1, <1>2, LeftBounded, InitHInv, PTL DEF Spec
=============================================================================
