---------------------------- MODULE HeadlessAuth ----------------------------
(***************************************************************************)
(* vpn/headless.py: one sign-in, HeadlessAuthenticator.authenticate().  It *)
(* follows whatever pages the identity provider sends: an external script, *)
(* the scripted Microsoft flow or the generic form scraper, and in the end *)
(* a callback server for a human with a browser.                           *)
(*                                                                         *)
(* A step is one request with its answer and the checks made on it.  A     *)
(* page is what the code looks at in it: the kind of its first form or of  *)
(* its text, whether its hosts are on the whitelist, whether it refuses    *)
(* the credentials in words the code knows, whether it sets the session    *)
(* cookie; a page bears the marks of one kind only.  "polite" is a         *)
(* provider like the university's, a Keycloak in front of a Cisco gateway; *)
(* any other may answer anything.                                          *)
(*                                                                         *)
(* Time is counted in one-time-code windows of 30 s at the provider.       *)
(***************************************************************************)
EXTENDS Integers

CONSTANTS
    MAX_STEPS,      \* max_steps of the form scraper (20)
    ENTRA_STEPS,    \* steps of the Microsoft flow (8)
    Skew,           \* windows the local clock is behind the provider's
    MaxWindow       \* bound: windows that pass during the sign-in

ASSUME StepAssumption == MAX_STEPS \in Nat /\ ENTRA_STEPS \in Nat
ASSUME ClockAssumption == Skew \in Int /\ MaxWindow \in Nat

VARIABLES
    conf,         \* how the sign-in was set up, and by whom it is answered
    pc,           \* where authenticate() is, or how it ended
    page,         \* the last response
    step,         \* turns of the loop over pages
    jar,          \* the session holds the gateway's cookie
    offset,       \* _server_clock_offset, in windows
    window,       \* the provider's clock
    cooldown,     \* the totp_cooldown file exists
    rejected,     \* _easyunivpn_rejected
    serving,      \* the callback server is busy with a connection
    late,         \* callback_timeout has passed
    shown,        \* history: requests that carried the password or a code
    refused       \* history: the answer to one of them refused it

dialogue == <<page, step, jar, offset>>
clock == <<window, cooldown>>
callback == <<serving, late>>
history == <<shown, refused>>
vars == <<conf, pc, dialogue, clock, rejected, callback, history>>

Kinds == {"login", "code", "plain", "relay", "csrf", "hop", "blank", "binary",
          "stay", "lost"}
Forms == {"login", "code", "plain", "relay", "csrf", "stay"}
Relays == {"relay", "csrf"}   \* the form carries a SAMLResponse or SAMLRequest
Places == {"own", "strayed", "aimsOut"}   \* its host, or the address it sends us to

(* Words of refusal count on a page that arrived and does not hand on an assertion:
   an error status raises before the text is looked at. *)
Pages ==
    {p \in [kind : Kinds, place : Places, refused : BOOLEAN, cookie : BOOLEAN] :
        /\ p.refused => p.kind \in {"login", "code", "plain", "blank"}
        /\ p.kind = "lost" => ~p.cookie}

Confs ==
    [script : BOOLEAN, creds : {"none", "nameless", "noPassword", "full"},
     totp : {"none", "remote", "raw"}, entra : BOOLEAN, whitelist : BOOLEAN,
     polite : BOOLEAN, dated : BOOLEAN, skew : {0, Skew}, justSetUp : BOOLEAN]

Ends == {"token", "error", "refused"}
Steps == {"start", "script", "open", "page", "entra", "probe", "password", "challenge",
          "realm", "soap", "assertion", "federated", "callback", "listening"} \cup Ends

Page(k) == [kind |-> k, place |-> "own", refused |-> FALSE, cookie |-> FALSE]

TypeOK ==
    /\ conf \in Confs /\ pc \in Steps /\ page \in Pages
    /\ step \in 0 .. MAX_STEPS + ENTRA_STEPS
    /\ jar \in BOOLEAN /\ offset \in {0, Skew}
    /\ window \in 0 .. MaxWindow /\ cooldown \in BOOLEAN
    /\ rejected \in BOOLEAN /\ serving \in BOOLEAN /\ late \in BOOLEAN
    /\ shown \in 0 .. 2 + MAX_STEPS + ENTRA_STEPS /\ refused \in BOOLEAN

Init ==
    /\ conf \in Confs
    /\ conf.polite => conf.creds = "full" /\ ~conf.entra /\ ~conf.script /\ ~conf.whitelist
    /\ ~conf.polite => conf.skew = 0 /\ conf.dated /\ ~conf.justSetUp /\ conf.totp # "remote"
    /\ pc = "start"
    /\ page = Page("blank") /\ step = 0
    /\ jar = FALSE /\ offset = 0
    /\ window = (IF conf.polite THEN 0 ELSE MaxWindow)
    /\ cooldown = conf.justSetUp
    /\ rejected = FALSE /\ serving = FALSE /\ late = FALSE
    /\ shown = 0 /\ refused = FALSE

-----------------------------------------------------------------------------
(* Requests and answers. *)

HostAllowed(p) == conf.whitelist => p.place # "strayed"
TargetAllowed(p) == conf.whitelist => p.place # "aimsOut"

(* Mutant of Code: the code of the local clock. *)
LocalCode == window - conf.skew

(* _compute_totp_at_server_time; without the raw secret, credentials.totp. *)
Code == window - conf.skew + (IF conf.totp = "raw" THEN offset ELSE 0)

(* The provider takes a code of the neighbouring windows too, but none twice:
   the setup that wrote totp_cooldown has used up that of window 0. *)
CodeTaken == Code \in (window - 1) .. (window + 1) /\ ~(conf.justSetUp /\ Code = 0)

(* Mutant of Fields: a relay form is filled in like any other. *)
FieldsOfAny(p) ==
    IF p.kind \in {"login", "csrf"} THEN {"user", "password"}
    ELSE IF p.kind = "code" /\ conf.totp # "none" THEN {"code"} ELSE {}

(* _fill_form: what of the credentials the form is given. *)
Fields(p) ==
    IF p.kind = "login"
    THEN IF conf.creds = "full" THEN {"user", "password"} ELSE {"user"}
    ELSE IF p.kind = "code" /\ conf.totp # "none" THEN {"code"} ELSE {}

(* What a polite provider answers to the form of page p, filled in. *)
PoliteAnswer(p) ==
    CASE p.kind = "login" -> Page("code")
      [] p.kind = "code" /\ Fields(p) # {} /\ CodeTaken -> Page("relay")
      [] p.kind = "code" /\ ~(Fields(p) # {} /\ CodeTaken) ->
            [Page("code") EXCEPT !.refused = TRUE]
      [] p.kind = "relay" /\ Fields(p) = {} -> Page("csrf")
      [] p.kind = "csrf" /\ Fields(p) = {} -> [Page("blank") EXCEPT !.cookie = TRUE]
      [] OTHER -> Page("blank")

Answers(polite) == IF conf.polite THEN {polite} ELSE {p \in Pages : conf.whitelist \/ p.place = "own"}

(* The session takes the response's cookies and _record_server_clock its date. *)
Receive(p) ==
    /\ page' = p
    /\ jar' = (jar \/ p.cookie)
    /\ offset' = IF conf.dated /\ p.kind # "lost" THEN conf.skew ELSE offset

Goto(next) == pc' = next

(* A request that carries credentials, and its answer. *)
Show(p) == shown' = shown + 1 /\ refused' = p.refused

-----------------------------------------------------------------------------
(* authenticate(): which way to try first, and what comes after it. *)

AfterScript ==
    IF conf.creds \in {"none", "nameless"} THEN "callback"
    ELSE IF conf.entra THEN "entra" ELSE "open"

(* Without credentials a script cannot even be considered: AttributeError. *)
Start ==
    /\ pc = "start"
    /\ Goto(IF ~conf.script THEN AfterScript
            ELSE IF conf.creds = "none" THEN "error"
            ELSE IF conf.creds = "full" THEN "script" ELSE AfterScript)
    /\ UNCHANGED <<conf, dialogue, clock, rejected, callback, history>>

(* A script that fails, for whatever reason, is followed by the next way. *)
RunScript ==
    /\ pc = "script"
    /\ Goto("token") \/ Goto(AfterScript)
    /\ shown' = shown + 1
    /\ UNCHANGED <<conf, dialogue, clock, rejected, callback, refused>>

-----------------------------------------------------------------------------
(* _auto_authenticate: whatever goes wrong here leads to the callback server. *)

Open ==
    /\ pc = "open"
    /\ \E p \in Answers(Page("login")) :
        /\ Receive(p)
        /\ Goto(IF p.kind = "lost" THEN "callback" ELSE "page")
    /\ step' = 0
    /\ UNCHANGED <<conf, clock, rejected, callback, history>>

(* Mutant of Look: the steps are not counted out. *)
LookForEver == pc = "page" /\ HostAllowed(page)

Look == pc = "page" /\ step < MAX_STEPS /\ HostAllowed(page)

GiveUp ==
    /\ pc = "page"
    /\ \/ step = MAX_STEPS
       \/ ~HostAllowed(page)
       \/ ~jar /\ page.kind \in {"blank", "binary"}
    /\ Goto("callback")
    /\ UNCHANGED <<conf, dialogue, clock, rejected, callback, history>>

SignedIn ==
    /\ Look /\ jar
    /\ Goto("token")
    /\ UNCHANGED <<conf, dialogue, clock, rejected, callback, history>>

(* Mutant of FollowHop: a redirection does not count as a step. *)
FollowHopForEver ==
    /\ Look /\ ~jar /\ page.kind = "hop"
    /\ \E p \in Answers(Page("blank")) :
        /\ Receive(p)
        /\ Goto(IF p.kind = "lost" THEN "callback" ELSE "page")
    /\ UNCHANGED <<conf, step, clock, rejected, callback, history>>

(* A page without forms: a meta refresh, or a form that a script submits. *)
FollowHop ==
    /\ Look /\ ~jar /\ page.kind = "hop"
    /\ \E p \in Answers(Page("blank")) :
        /\ Receive(p)
        /\ Goto(IF p.kind = "lost" THEN "callback" ELSE "page")
    /\ step' = step + 1
    /\ UNCHANGED <<conf, clock, rejected, callback, history>>

(* A form nothing is filled into: a relay, whose CSRFtoken cookie is set, or one
   without a field the code knows. *)
SubmitAsIs ==
    /\ Look /\ ~jar /\ page.kind \in Forms /\ Fields(page) = {}
    /\ \E p \in Answers(PoliteAnswer(page)) :
        /\ Receive(p)
        /\ Goto(IF p.kind = "lost" THEN "callback" ELSE "page")
    /\ step' = step + 1
    /\ UNCHANGED <<conf, clock, rejected, callback, history>>

(* _get_totp_after_cooldown waits until the code setup has used is over. *)
CooledDown == page.kind = "code" => (cooldown => window > 0)

(* Mutant of SubmitFilled: the refusal is raised but not remembered. *)
SubmitFilledForgets ==
    /\ Look /\ ~jar /\ page.kind \in Forms /\ Fields(page) # {} /\ CooledDown
    /\ \E p \in Answers(PoliteAnswer(page)) :
        /\ Receive(p) /\ Show(p)
        /\ Goto(IF p.kind = "lost" \/ p.refused THEN "callback" ELSE "page")
    /\ step' = step + 1
    /\ cooldown' = (cooldown /\ page.kind # "code")
    /\ UNCHANGED <<conf, window, rejected, callback>>

(* _raise_if_credentials_rejected looks at the answer. *)
SubmitFilled ==
    /\ Look /\ ~jar /\ page.kind \in Forms /\ Fields(page) # {} /\ CooledDown
    /\ \E p \in Answers(PoliteAnswer(page)) :
        /\ Receive(p) /\ Show(p)
        /\ Goto(IF p.kind = "lost" \/ p.refused THEN "callback" ELSE "page")
        /\ rejected' = (rejected \/ p.refused)
    /\ step' = step + 1
    /\ cooldown' = (cooldown /\ page.kind # "code")
    /\ UNCHANGED <<conf, window, callback>>

-----------------------------------------------------------------------------
(* _auto_authenticate_entra: whatever goes wrong here is an error. *)

EntraFrame == UNCHANGED <<conf, clock, rejected, callback>>

EntraOpen ==
    /\ pc = "entra" /\ conf.creds = "full"
    /\ \E p \in Answers(Page("login")) :
        /\ Receive(p)
        /\ Goto(IF p.kind = "lost" \/ ~HostAllowed(p) THEN "error" ELSE "probe")
    /\ UNCHANGED <<step, history>> /\ EntraFrame

EntraNoPassword ==
    /\ pc = "entra" /\ conf.creds # "full"
    /\ Goto("error")
    /\ UNCHANGED <<dialogue, history>> /\ EntraFrame

(* GetCredentialType: federated, passwordless, no answer, or go on. *)
Probe ==
    /\ pc = "probe"
    /\ \E next \in {"realm", "error", "password"} : Goto(next)
    /\ UNCHANGED <<dialogue, history>> /\ EntraFrame

(* The page names the address the password is sent to. *)
EntraPassword ==
    /\ pc = "password" /\ TargetAllowed(page)
    /\ \E p \in Answers(Page("blank")) :
        /\ Receive(p) /\ Show(p)
        /\ Goto(IF p.kind = "lost" THEN "error" ELSE "challenge")
    /\ step' = 0
    /\ EntraFrame

CarriesAssertion == page.kind \in Relays /\ TargetAllowed(page)
Answerable ==
    /\ ~page.refused /\ HostAllowed(page) /\ TargetAllowed(page)
    /\ \/ page.kind = "code" /\ conf.totp # "none"
       \/ page.kind = "stay"

(* The code, taken from the local clock at the start, or "no" to staying signed in. *)
EntraReply ==
    /\ pc = "challenge" /\ step < ENTRA_STEPS
    /\ Answerable
    /\ \E p \in Answers(Page("blank")) :
        /\ Receive(p)
        /\ IF page.kind = "code" THEN Show(p) ELSE UNCHANGED history
        /\ Goto(IF p.kind = "lost" THEN "error" ELSE "challenge")
    /\ step' = step + 1
    /\ EntraFrame

(* _submit_saml_response_form; after a form that brings no cookie nothing is left
   to do with the page. *)
EntraAssertion ==
    /\ \/ pc = "challenge" /\ step < ENTRA_STEPS
       \/ pc = "federated"
    /\ CarriesAssertion
    /\ \E p \in Answers(Page("blank")) :
        /\ Receive(p)
        /\ Goto(IF p.kind # "lost" /\ (jar \/ p.cookie) THEN "token" ELSE "error")
    /\ UNCHANGED <<step, history>> /\ EntraFrame

(* Steps used up, credentials refused, a host that is not allowed, or a challenge
   that cannot be scripted. *)
EntraGiveUp ==
    /\ \/ pc = "password" /\ ~TargetAllowed(page)
       \/ pc = "challenge" /\ step = ENTRA_STEPS
       \/ pc = "challenge" /\ ~CarriesAssertion /\ ~Answerable
       \/ pc = "federated" /\ ~CarriesAssertion
    /\ Goto("error")
    /\ UNCHANGED <<dialogue, history>> /\ EntraFrame

(* _authenticate_via_ws_trust: the realm names an endpoint, or none that is
   allowed and encrypted. *)
Realm ==
    /\ pc = "realm"
    /\ \E next \in {"soap", "error"} : Goto(next)
    /\ UNCHANGED <<dialogue, history>> /\ EntraFrame

(* An assertion, a fault that refuses, or no usable answer. *)
SoapLogin ==
    /\ pc = "soap"
    /\ shown' = shown + 1
    /\ \/ Goto("assertion") /\ UNCHANGED refused
       \/ Goto("error") /\ refused' \in BOOLEAN
    /\ UNCHANGED dialogue /\ EntraFrame

PostAssertion ==
    /\ pc = "assertion"
    /\ \E p \in Answers(Page("blank")) :
        Receive(p) /\ Goto(IF p.kind = "lost" THEN "error" ELSE "federated")
    /\ UNCHANGED <<step, history>> /\ EntraFrame

-----------------------------------------------------------------------------
(* _callback_authenticate. *)

CallbackFrame == UNCHANGED <<conf, dialogue, clock, rejected, history>>

Listen ==
    /\ pc = "callback" /\ ~rejected
    /\ Goto("listening")
    /\ UNCHANGED callback /\ CallbackFrame

AbortFast ==
    /\ pc = "callback" /\ rejected
    /\ Goto("refused")
    /\ UNCHANGED callback /\ CallbackFrame

(* handle_request serves one connection at a time and has no time limit. *)
BrowserConnects ==
    /\ pc = "listening" /\ ~serving /\ ~late
    /\ serving' = TRUE
    /\ UNCHANGED <<pc, late>> /\ CallbackFrame

(* The request has a token among its parameters, or has none. *)
BrowserSends ==
    /\ pc = "listening" /\ serving
    /\ serving' = FALSE
    /\ Goto("token") \/ Goto("listening")
    /\ UNCHANGED late /\ CallbackFrame

CallbackTimeout ==
    /\ pc = "listening" /\ ~serving /\ late
    /\ Goto("error")
    /\ UNCHANGED callback /\ CallbackFrame

-----------------------------------------------------------------------------
(* Time. *)

DeadlinePasses ==
    /\ pc = "listening" /\ ~late
    /\ late' = TRUE
    /\ UNCHANGED <<pc, serving>> /\ CallbackFrame

WindowPasses ==
    /\ window < MaxWindow /\ pc \notin Ends
    /\ window' = window + 1
    /\ UNCHANGED <<conf, pc, dialogue, cooldown, rejected, callback, history>>

Generic == Open \/ GiveUp \/ SignedIn \/ FollowHop \/ SubmitAsIs \/ SubmitFilled
Entra ==
    \/ EntraOpen \/ EntraNoPassword \/ Probe \/ EntraPassword \/ EntraReply
    \/ EntraAssertion \/ EntraGiveUp \/ Realm \/ SoapLogin \/ PostAssertion
Program ==
    \/ Start \/ RunScript \/ Generic \/ Entra
    \/ Listen \/ AbortFast \/ CallbackTimeout
Next == Program \/ BrowserConnects \/ BrowserSends \/ DeadlinePasses \/ WindowPasses

Spec == Init /\ [][Next]_vars

(* The process runs, every request has a timeout, and time passes; nothing is
   assumed of a browser. *)
FairSpec == Spec /\ WF_vars(Program) /\ WF_vars(DeadlinePasses) /\ WF_vars(WindowPasses)

-----------------------------------------------------------------------------
(* Properties. *)

(* The right credentials get in: at a provider like the university's no sign-in
   fails, be the local clock wrong, be a code just used up by the setup, and
   whatever time passes in between (_fill_form leaves the gateway's relay forms
   alone, the code is the server's, the cooldown is waited out). *)
GoodSignInSucceeds ==
    /\ conf.polite /\ conf.totp # "none"
    /\ conf.skew = 0 \/ (conf.dated /\ conf.totp = "raw")
    => pc \notin {"callback", "listening", "error", "refused"}

(* The sign-in ends, whatever pages it is sent, so that the supervisor gets to
   try again; only a browser that keeps its connection open can hold it up. *)
SignInEnds == <>[](pc \in Ends \/ serving)

(* It keeps what SignIn promises. *)
Phase == IF pc \in Ends THEN pc ELSE IF pc = "listening" THEN "asking" ELSE "trying"
Budget == 2 + (IF MAX_STEPS > ENTRA_STEPS THEN MAX_STEPS ELSE ENTRA_STEPS)
Promise == INSTANCE SignIn WITH phase <- Phase
KeepsPromise == Promise!Spec
=============================================================================
