------------------------------ MODULE Session -------------------------------
(***************************************************************************)
(* Logging in, signing up, and the session that follows:                   *)
(* LoginViewController, LogInViewModel, SignUpViewController,              *)
(* AuthenticationViewModel, AppleAuthenticationViewModel, SessionTimer,    *)
(* MyApplication and the two switches of the root screen.                  *)
(* Every log-in is a Task; several can be under way at once (the button    *)
(* alone starts two, one of them from didSet of password), and they belong *)
(* to the view model of the log-in screen that started them, which session *)
(* expiry, a shake, a log-out or a success replaces by another one.  A     *)
(* sign-up is such a Task too, of the view model of its sign-up screen:    *)
(* createUser makes the new account current, and what follows until the    *)
(* profile is written is one step here and the four of module SignUp.      *)
(*                                                                         *)
(* An e-mail stands for its Firebase account and for its password.  A      *)
(* social identity that signs in on its own is an account of its own name. *)
(* The loader is left out: a tap hides it at any time, so it guards        *)
(* nothing.                                                                *)
(***************************************************************************)
EXTENDS Naturals

CONSTANTS
    Emails,       \* accounts with a password
    Identities,   \* accounts at Google, Facebook, Apple or Zalo
    Provider,     \* the provider of an identity
    Enrolled,     \* e-mails whose password is in the keychain
    Before,       \* what UserDefaults and Firebase may have kept of earlier runs
    Screens,      \* LoginViewControllers, each with its view model
    Logins,       \* Tasks; bounds the log-ins and sign-ups
    MaxSwitches,  \* bound: closures waiting on the main queue
    None          \* nil

ASSUME SetsAssumption ==
    /\ Emails \cap Identities = {}
    /\ {"email", "new"} \cap Identities = {}
    /\ None \notin Emails \cup Identities \cup Screens \cup Logins
    /\ Enrolled \subseteq Emails
ASSUME ProviderAssumption ==
    Provider \in [Identities -> {"google", "facebook", "apple", "zalo"}]
ASSUME BeforeAssumption ==
    Before \subseteq [saved : BOOLEAN,
                      accounts : SUBSET Emails,
                      user : Emails \cup Identities \cup {None},
                      linked : [Identities -> Emails \cup Identities \cup {None}]]
ASSUME BoundAssumption == MaxSwitches \in Nat

VARIABLES
    root,         \* what the window shows: the log-in or the home screen
    screen,       \* the latest log-in screen
    observing,    \* its KVO observation is registered
    form,         \* per screen: email and password of its view model
    success,      \* screens whose view model has logInUserSuccessfully
    prefilling,   \* screens whose background fetch of the saved user is due
    evaluating,   \* screens with a Face ID evaluation under way
    delegate,     \* per screen: the log-in that delegateContinuation serves
    switches,     \* closures of the log-in screen's observer on the main queue
    signUps,      \* the Tasks of the sign-up screen that is on display
    arrivals,     \* closures of the sign-up screen's observer on the main queue
    savedLogin,   \* UserDefaults.isSavedLogin
    armed,        \* the session timer is scheduled
    pc,           \* where a log-in is
    job,          \* per log-in: its screen and what it logs in with
    currentUser,  \* Auth.auth().currentUser
    accounts,     \* Firebase: the e-mails that have an account
    linked,       \* Firebase: the account an identity is attached to
    quiet,        \* history: nothing was started since the last log-out
    late,         \* history: log-ins and sign-ups under way at the last log-out
    raced,        \* history: the timer last fired with one of them under way
    overtaken     \* history: switches were waiting at the last log-out

screenVars == <<root, screen, observing, form, success, prefilling, evaluating, delegate>>
loginVars  == <<pc, job>>
authVars   == <<currentUser, accounts, linked>>
queueVars  == <<switches, signUps, arrivals>>
history    == <<quiet, late, raced, overtaken>>
vars       == <<screenVars, queueVars, savedLogin, armed, loginVars, authVars, history>>

Empty    == "empty"   \* a text that opens nothing
Typed    == Emails \cup {Empty}
Accounts == Emails \cup Identities
\* "lost": gone with the process.
Idle     == {"none", "ended", "failed", "done", "lost"}
\* "hung": suspended on a continuation that nobody will resume.
Under    == {"started", "signIn", "provider", "credential", "signInWith", "link",
             "profile", "returning", "hung"}

TypeOK ==
    /\ root \in {"login", "home"}
    /\ screen \in Screens
    /\ observing \in BOOLEAN
    /\ form \in [Screens -> [email : Typed \cup {None}, password : Typed \cup {None}]]
    /\ success \subseteq Screens
    /\ prefilling \subseteq Screens
    /\ evaluating \subseteq Screens
    /\ delegate \in [Screens -> Logins \cup {None}]
    /\ switches \in Nat
    /\ signUps \subseteq Logins
    /\ arrivals \in Nat
    /\ savedLogin \in BOOLEAN
    /\ armed \in BOOLEAN
    /\ pc \in [Logins -> Idle \cup Under]
    /\ job \in [Logins -> [screen : Screens \cup {None},
                           with : Identities \cup {"email", "new"},
                           user : Accounts \cup {None, Empty},
                           password : Typed \cup {None}]]
    /\ currentUser \in Accounts \cup {None}
    /\ accounts \subseteq Emails
    /\ linked \in [Identities -> Accounts \cup {None}]
    /\ quiet \in BOOLEAN
    /\ late \subseteq Logins
    /\ raced \in BOOLEAN
    /\ overtaken \in BOOLEAN

NoForm == [email |-> None, password |-> None]
NoJob  == [screen |-> None, with |-> "email", user |-> None, password |-> None]

\* The process is launched.  Firebase knows identities from before and has kept
\* the current user; the log-in screen is shown all the same.
Init ==
    /\ root = "login"
    /\ screen \in Screens
    /\ observing = TRUE
    /\ form = [s \in Screens |-> NoForm]
    /\ success = {}
    /\ prefilling = {screen}
    /\ evaluating = {}
    /\ delegate = [s \in Screens |-> None]
    /\ switches = 0
    /\ signUps = {}
    /\ arrivals = 0
    /\ armed = FALSE
    /\ pc = [t \in Logins |-> "none"]
    /\ job = [t \in Logins |-> NoJob]
    /\ \E b \in Before : /\ savedLogin = b.saved
                         /\ currentUser = b.user
                         /\ accounts = b.accounts
                         /\ linked = b.linked
    /\ quiet = FALSE
    /\ late = {}
    /\ raced = FALSE
    /\ overtaken = FALSE

Busy(t) == pc[t] \in Under

-----------------------------------------------------------------------------
(***************************************************************************)
(* The session timer, and the switches of the root screen.                 *)
(***************************************************************************)

\* Fault: the end of a touch does not schedule the timer.
TouchIgnored == UNCHANGED <<armed, raced>>

\* sendEvent: the end of a touch schedules the timer anew.
TouchEnds == armed' = TRUE /\ raced' = FALSE

\* A log-in screen is made, with a view model of its own; the observation of
\* the one before it, or of its sign-up screen, is invalidated; their Tasks go on.
NewLoginScreen ==
    \E s \in Screens \ ({screen} \cup prefilling \cup evaluating) :
        /\ \A t \in Logins : job[t].screen = s => ~Busy(t)
        /\ root' = "login"
        /\ screen' = s
        /\ observing' = TRUE
        /\ form' = [form EXCEPT ![s] = NoForm]
        /\ success' = success \ {s}
        /\ prefilling' = prefilling \cup {s}
        /\ delegate' = [delegate EXCEPT ![s] = None]
        /\ signUps' = {}
        /\ UNCHANGED <<evaluating, switches, arrivals>>

\* Something is on its way to home.
UnderWay == switches > 0 \/ arrivals > 0 \/ evaluating # {} \/ \E t \in Logins : Busy(t)

\* The timer fires: the observers of the notification switch to a log-in
\* screen.  Nobody is signed out.
Expire ==
    /\ armed
    /\ armed' = FALSE
    /\ NewLoginScreen
    /\ raced' = UnderWay
    /\ UNCHANGED <<savedLogin, loginVars, authVars, quiet, late, overtaken>>

\* A shake posts the same notification.
Shake ==
    /\ NewLoginScreen
    /\ UNCHANGED <<savedLogin, armed, loginVars, authVars, history>>

\* A touch that does nothing else: one of them is the log-in or the sign-up button
\* while networkMonitor reports no connection, which only shows an alert.
Touch ==
    /\ TouchEnds
    /\ UNCHANGED <<screenVars, queueVars, savedLogin, loginVars, authVars, quiet, late, overtaken>>

\* Fault: the screen is switched before, and without, signing out.
LogOutOnly ==
    /\ root = "home"
    /\ TouchEnds
    /\ NewLoginScreen
    /\ quiet' = TRUE
    /\ late' = {t \in Logins : Busy(t)}
    /\ overtaken' = (switches > 0 \/ arrivals > 0)
    /\ UNCHANGED <<savedLogin, loginVars, authVars>>

\* logOut: signOut, then the log-in screen.
LogOut ==
    /\ root = "home"
    /\ TouchEnds
    /\ currentUser' = None
    /\ NewLoginScreen
    /\ quiet' = TRUE
    /\ late' = {t \in Logins : Busy(t)}
    /\ overtaken' = (switches > 0 \/ arrivals > 0)
    /\ UNCHANGED <<savedLogin, loginVars, accounts, linked>>

\* The window gets the tab bar: whatever screen was on display disappears.
ShowArtHome ==
    /\ root' = "home"
    /\ observing' = FALSE
    /\ signUps' = {}
    /\ UNCHANGED <<screen, form, success, prefilling, evaluating, delegate, armed,
                   loginVars, authVars, history>>

\* The closure of the log-in screen's observer: the log-in is remembered, home shown.
SwitchToArtHome ==
    /\ switches > 0
    /\ switches' = switches - 1
    /\ savedLogin' = TRUE
    /\ ShowArtHome
    /\ UNCHANGED arrivals

\* The closure of the sign-up screen's observer: home is shown.  The log-in is remembered
\* if the user then enrols for Face ID (see Profile); nothing reads savedLogin before the
\* next log-in screen.
ArriveAtArtHome ==
    /\ arrivals > 0
    /\ arrivals' = arrivals - 1
    /\ savedLogin' \in {savedLogin, TRUE}
    /\ ShowArtHome
    /\ UNCHANGED switches

-----------------------------------------------------------------------------
(***************************************************************************)
(* The log-in screen and the sign-up screen over it.                       *)
(***************************************************************************)
OnLogin == root = "login" /\ observing

\* Logins started together, with the same provider or by e-mail.
Starts(ts, s, with) ==
    /\ \A t \in ts : pc[t] = "none"
    /\ pc' = [t \in Logins |-> IF t \in ts THEN "started" ELSE pc[t]]
    /\ job' = [t \in Logins |-> IF t \in ts
                                THEN [screen |-> s, with |-> with, user |-> None,
                                      password |-> None]
                                ELSE job[t]]
    /\ quiet' = FALSE

\* The background fetch of checkUserDidLogInAndUpdateUI ends: it overwrites the
\* e-mail of the view model, whatever was typed and stored there before.
Prefill(s, e) ==
    /\ s \in prefilling
    /\ prefilling' = prefilling \ {s}
    /\ form' = [form EXCEPT ![s].email = IF savedLogin /\ e # None THEN e ELSE @]
    /\ UNCHANGED <<root, screen, observing, success, evaluating, delegate, queueVars,
                   savedLogin, armed, loginVars, authVars, history>>

\* The log-in button with no e-mail.
PressWithoutEmail ==
    /\ OnLogin
    /\ TouchEnds
    /\ form' = [form EXCEPT ![screen].email = Empty]
    /\ UNCHANGED <<root, screen, observing, success, prefilling, evaluating, delegate,
                   queueVars, savedLogin, loginVars, authVars, quiet, late, overtaken>>

\* The log-in button with no password: it is assigned before it is checked, and
\* didSet starts a log-in.
PressWithoutPassword(e, t) ==
    /\ OnLogin
    /\ TouchEnds
    /\ form' = [form EXCEPT ![screen] = [email |-> e, password |-> Empty]]
    /\ Starts({t}, screen, "email")
    /\ UNCHANGED <<root, screen, observing, success, prefilling, evaluating, delegate,
                   queueVars, savedLogin, authVars, late, overtaken>>

\* The log-in button: didSet of the password starts a log-in, the end of the
\* handler a second one.
PressLogIn(e, p, t, u) ==
    /\ OnLogin
    /\ TouchEnds
    /\ t # u
    /\ form' = [form EXCEPT ![screen] = [email |-> e, password |-> p]]
    /\ Starts({t, u}, screen, "email")
    /\ UNCHANGED <<root, screen, observing, success, prefilling, evaluating, delegate,
                   queueVars, savedLogin, authVars, late, overtaken>>

PressFaceID ==
    /\ OnLogin
    /\ TouchEnds
    /\ evaluating' = evaluating \cup {screen}
    /\ UNCHANGED <<root, screen, observing, form, success, prefilling, delegate,
                   queueVars, savedLogin, loginVars, authVars, quiet, late, overtaken>>

\* Face ID: a right face and an e-mail: the password found in the keychain (or
\* nil) is assigned, and didSet starts a log-in.
FaceIsRight(s, t) ==
    /\ s \in evaluating
    /\ evaluating' = evaluating \ {s}
    /\ form[s].email # None
    /\ form' = [form EXCEPT ![s].password = IF form[s].email \in Enrolled
                                            THEN form[s].email ELSE None]
    /\ Starts({t}, s, "email")
    /\ UNCHANGED <<root, screen, observing, success, prefilling, delegate, queueVars,
                   savedLogin, armed, authVars, late, raced, overtaken>>

\* A wrong face, or no e-mail.
FaceIsWrong(s) ==
    /\ s \in evaluating
    /\ evaluating' = evaluating \ {s}
    /\ UNCHANGED <<root, screen, observing, form, success, prefilling, delegate,
                   queueVars, savedLogin, armed, loginVars, authVars, history>>

PressSocial(i, t) ==
    /\ OnLogin
    /\ TouchEnds
    /\ Starts({t}, screen, i)
    /\ UNCHANGED <<screenVars, queueVars, savedLogin, authVars, late, overtaken>>

\* The sign-up screen is pushed: viewDidDisappear invalidates the observation of
\* the log-in screen, and the sign-up screen observes a view model of its own.
PushSignUp ==
    /\ OnLogin
    /\ TouchEnds
    /\ observing' = FALSE
    /\ UNCHANGED <<root, screen, form, success, prefilling, evaluating, delegate,
                   queueVars, savedLogin, loginVars, authVars, quiet, late, overtaken>>

OnSignUp == root = "login" /\ ~observing

\* The sign-up button, all checks passed.
PressSignUp(t) ==
    /\ OnSignUp
    /\ TouchEnds
    /\ Starts({t}, None, "new")
    /\ signUps' = signUps \cup {t}
    /\ UNCHANGED <<screenVars, switches, arrivals, savedLogin, authVars, late, overtaken>>

\* Fault: the observer does not test the value it is given with .initial.
PopSignUpUntested ==
    /\ OnSignUp
    /\ TouchEnds
    /\ observing' = TRUE
    /\ switches' = switches + 1
    /\ switches' <= MaxSwitches
    /\ signUps' = {}
    /\ UNCHANGED <<root, screen, form, success, prefilling, evaluating, delegate, arrivals,
                   savedLogin, loginVars, authVars, quiet, late, overtaken>>

\* Back to the log-in screen: the sign-ups go on unobserved, and viewWillAppear
\* registers the log-in screen's observation again, with .initial: a success that
\* came meanwhile is reported now.
PopSignUp ==
    /\ OnSignUp
    /\ TouchEnds
    /\ observing' = TRUE
    /\ switches' = IF screen \in success THEN switches + 1 ELSE switches
    /\ switches' <= MaxSwitches
    /\ signUps' = {}
    /\ UNCHANGED <<root, screen, form, success, prefilling, evaluating, delegate, arrivals,
                   savedLogin, loginVars, authVars, quiet, late, overtaken>>

-----------------------------------------------------------------------------
(***************************************************************************)
(* A log-in.                                                               *)
(***************************************************************************)
Go(t, from, to) ==
    /\ pc[t] = from
    /\ pc' = [pc EXCEPT ![t] = to]

With(t)     == job[t].with
Social(t)   == With(t) \in Identities
SignsUp(t)  == With(t) = "new"
Mode(t)     == IF Social(t) THEN Provider[With(t)] ELSE With(t)
LoginOnly   == <<screenVars, queueVars, savedLogin, armed, history>>

\* logInBasedOn(.authEmail) copies e-mail and password as they are now; without
\* one of them it returns.
ReadForm(t) ==
    LET f == form[job[t].screen]
    IN  /\ Mode(t) = "email"
        /\ Go(t, "started", IF None \in {f.email, f.password} THEN "ended" ELSE "signIn")
        /\ job' = IF None \in {f.email, f.password} THEN job
                  ELSE [job EXCEPT ![t] = [screen |-> @.screen, with |-> @.with,
                                           user |-> f.email, password |-> f.password]]
        /\ UNCHANGED <<LoginOnly, authVars>>

\* signIn(withEmail:password:): the answer also makes the account current.
SignIn(t) ==
    /\ Go(t, "signIn", "returning")
    /\ job[t].user \in accounts
    /\ job[t].password = job[t].user
    /\ currentUser' = job[t].user
    /\ UNCHANGED <<LoginOnly, job, accounts, linked>>

\* The provider's screen is shown; for Apple, the delegate of a log-in that still
\* waits on this screen is replaced and released.
AskProvider(t) ==
    /\ Social(t)
    /\ Go(t, "started", "provider")
    /\ delegate' = [delegate EXCEPT ![job[t].screen] = IF Mode(t) = "apple" THEN t ELSE @]
    /\ UNCHANGED <<root, screen, observing, form, success, prefilling, evaluating,
                   queueVars, savedLogin, armed, history, job, authVars>>

\* The log-in can still hear from its provider.
Heard(t) == Mode(t) = "apple" => delegate[job[t].screen] = t

ProviderGrants(t) ==
    /\ Heard(t)
    /\ Go(t, "provider", IF Mode(t) = "zalo" THEN "returning" ELSE "credential")
    /\ UNCHANGED <<LoginOnly, job, authVars>>

\* Fault: the provider is asked again, and again.
ProviderErrsRetried(t) ==
    /\ Heard(t)
    /\ Mode(t) # "zalo"
    /\ Go(t, "provider", "started")
    /\ UNCHANGED <<LoginOnly, job, authVars>>

ProviderErrs(t) ==
    /\ Heard(t)
    /\ Mode(t) # "zalo"
    /\ Go(t, "provider", "failed")
    /\ UNCHANGED <<LoginOnly, job, authVars>>

\* Fault: the observer does not test the new value.
ZaloRefusesObserved(t) ==
    /\ Mode(t) = "zalo"
    /\ Go(t, "provider", "failed")
    /\ success' = success \ {job[t].screen}
    /\ switches' = IF job[t].screen = screen /\ OnLogin THEN switches + 1 ELSE switches
    /\ UNCHANGED <<root, screen, observing, form, prefilling, evaluating, delegate, signUps,
                   arrivals, savedLogin, armed, history, job, authVars>>

\* Zalo's refusal is assigned to logInUserSuccessfully; the observer ignores it.
ZaloRefuses(t) ==
    /\ Mode(t) = "zalo"
    /\ Go(t, "provider", "failed")
    /\ success' = success \ {job[t].screen}
    /\ UNCHANGED <<root, screen, observing, form, prefilling, evaluating, delegate,
                   queueVars, savedLogin, armed, history, job, authVars>>

\* Google without a token, Facebook cancelled, or a credential of Apple's that is of
\* another type: the callback returns and the continuation is never resumed.
ProviderGivesNothing(t) ==
    /\ Heard(t)
    /\ Mode(t) # "zalo"
    /\ Go(t, "provider", "hung")
    /\ UNCHANGED <<LoginOnly, job, authVars>>

\* The process ends and is launched again.  Firebase keeps the current user.
Relaunched ==
    /\ pc' = [u \in Logins |-> IF pc[u] = "none" THEN "none" ELSE "lost"]
    /\ root' = "login"
    /\ observing' = TRUE
    /\ form' = [s \in Screens |-> NoForm]
    /\ success' = {}
    /\ prefilling' = {screen}
    /\ evaluating' = {}
    /\ delegate' = [s \in Screens |-> None]
    /\ switches' = 0
    /\ signUps' = {}
    /\ arrivals' = 0
    /\ armed' = FALSE
    /\ UNCHANGED <<screen, savedLogin, job, authVars, history>>

\* Apple's answer without a usable token: the cast of a String to Error traps.
AppleTraps(t) ==
    /\ Mode(t) = "apple"
    /\ Heard(t)
    /\ pc[t] = "provider"
    /\ Relaunched

\* firebaseLogin: whoever is current gets the credential linked to them.
FirebaseLogin(t) ==
    /\ Go(t, "credential", IF currentUser = None THEN "signInWith" ELSE "link")
    /\ job' = [job EXCEPT ![t].user = currentUser]
    /\ UNCHANGED <<LoginOnly, authVars>>

\* signIn(with:): an identity not seen before is attached to a new account.
SignInWith(t) ==
    LET i == With(t)
        u == IF linked[i] = None THEN i ELSE linked[i]
    IN  /\ Go(t, "signInWith", "returning")
        /\ linked' = [linked EXCEPT ![i] = u]
        /\ currentUser' = u
        /\ UNCHANGED <<LoginOnly, job, accounts>>

\* user.link(with:): refused if the identity is attached to any account, even to
\* this one.
Link(t) ==
    /\ Go(t, "link", "returning")
    /\ linked[With(t)] = None
    /\ linked' = [linked EXCEPT ![With(t)] = job[t].user]
    /\ UNCHANGED <<LoginOnly, job, accounts, currentUser>>

\* Any call to Firebase may fail; the error is dropped with the Task and its locals.
FirebaseFails(t) ==
    /\ \E p \in {"signIn", "signInWith", "link"} : Go(t, p, "failed")
    /\ job' = [job EXCEPT ![t] = [screen |-> @.screen, with |-> @.with,
                                  user |-> None, password |-> None]]
    /\ UNCHANGED <<LoginOnly, authVars>>

\* Fault: the success is not reported to the observer.
ReturnUnobserved(t) ==
    /\ Go(t, "returning", "done")
    /\ ~SignsUp(t)
    /\ success' = success \cup {job[t].screen}
    /\ UNCHANGED <<root, screen, observing, form, prefilling, evaluating, delegate,
                   queueVars, savedLogin, armed, history, job, authVars>>

\* logInUserSuccessfully = true; a registered observer posts the switch.
Return(t) ==
    /\ Go(t, "returning", "done")
    /\ ~SignsUp(t)
    /\ success' = success \cup {job[t].screen}
    /\ switches' = IF job[t].screen = screen /\ OnLogin THEN switches + 1 ELSE switches
    /\ UNCHANGED <<root, screen, observing, form, prefilling, evaluating, delegate, signUps,
                   arrivals, savedLogin, armed, history, job, authVars>>

-----------------------------------------------------------------------------
(***************************************************************************)
(* A sign-up.                                                              *)
(***************************************************************************)

\* createUser: the answer makes the new account current, whatever screen is shown by
\* then and whether or not the sign-up succeeds in the end.
CreateUser(t, e) ==
    /\ SignsUp(t)
    /\ e \notin accounts
    /\ Go(t, "started", "profile")
    /\ job' = [job EXCEPT ![t].user = e]
    /\ accounts' = accounts \cup {e}
    /\ currentUser' = e
    /\ UNCHANGED <<LoginOnly, linked>>

\* The account is made, but the answer is lost and the sign-up fails.
CreateUserUnanswered(t, e) ==
    /\ SignsUp(t)
    /\ e \notin accounts
    /\ Go(t, "started", "failed")
    /\ accounts' = accounts \cup {e}
    /\ UNCHANGED <<LoginOnly, job, currentUser, linked>>

\* The avatar and the document are stored: createNewUserNameInFireBase returns true.
StoreProfile(t) ==
    /\ Go(t, "profile", "returning")
    /\ UNCHANGED <<LoginOnly, job, authVars>>

\* createUser refuses, or one of the later calls fails: the error is swallowed, and
\* in the second case the account stays current.
SignUpFails(t) ==
    /\ SignsUp(t)
    /\ \E p \in {"started", "profile"} : Go(t, p, "failed")
    /\ UNCHANGED <<LoginOnly, job, authVars>>

\* downloadURL fails: the cast of a String to Error traps.
SignUpTraps(t) ==
    /\ pc[t] = "profile"
    /\ Relaunched

\* createUserSuccessfully = true: the sign-up screen posts the switch if it is still
\* on display and the camera did not cover it.
SignUpReturns(t) ==
    /\ Go(t, "returning", "done")
    /\ SignsUp(t)
    /\ arrivals' \in {arrivals, arrivals + 1}
    /\ t \notin signUps => arrivals' = arrivals
    /\ UNCHANGED <<screenVars, switches, signUps, savedLogin, armed, history, job, authVars>>

-----------------------------------------------------------------------------
User ==
    \/ Touch \/ Shake \/ LogOut
    \/ PressWithoutEmail \/ PressFaceID \/ PushSignUp \/ PopSignUp
    \/ \E e \in Emails, t \in Logins : PressWithoutPassword(e, t)
    \/ \E e, p \in Emails, t, u \in Logins : PressLogIn(e, p, t, u)
    \/ \E i \in Identities, t \in Logins : PressSocial(i, t)
    \/ \E t \in Logins : PressSignUp(t)

Face(s) == FaceIsWrong(s) \/ \E t \in Logins : FaceIsRight(s, t)

Fetch(s) == \E e \in Emails \cup {None} : Prefill(s, e)

Answer(t) ==
    \/ ProviderGrants(t) \/ ProviderErrs(t) \/ ZaloRefuses(t)
    \/ ProviderGivesNothing(t) \/ AppleTraps(t)

Step(t) ==
    \/ ReadForm(t) \/ SignIn(t) \/ AskProvider(t) \/ Answer(t) \/ FirebaseLogin(t)
    \/ SignInWith(t) \/ Link(t) \/ FirebaseFails(t) \/ Return(t)
    \/ \E e \in Emails : CreateUser(t, e) \/ CreateUserUnanswered(t, e)
    \/ StoreProfile(t) \/ SignUpFails(t) \/ SignUpTraps(t) \/ SignUpReturns(t)

Next ==
    \/ User
    \/ Expire
    \/ SwitchToArtHome
    \/ ArriveAtArtHome
    \/ \E s \in Screens : Face(s) \/ Fetch(s)
    \/ \E t \in Logins : Step(t)

Spec == Init /\ [][Next]_vars

\* Tasks, the main queue and the background queue are scheduled, Firebase Auth answers
\* or times out, and whoever is asked by a provider's sheet or by Face ID answers or
\* cancels.  Nothing is assumed of the buttons, and nothing of the writes of a profile:
\* Firestore has no timeout.
FairSpec ==
    /\ Spec
    /\ WF_vars(SwitchToArtHome)
    /\ WF_vars(ArriveAtArtHome)
    /\ \A s \in Screens : WF_vars(Face(s)) /\ WF_vars(Fetch(s))
    /\ \A t \in Logins : WF_vars(pc[t] # "profile" /\ Step(t))

-----------------------------------------------------------------------------
(***************************************************************************)
(* Properties.                                                             *)
(***************************************************************************)

Succeeded(t) == pc[t] = "done"

\* Home is shown with nobody signed in only after Zalo granted a log-in, which does
\* not go through Firebase, or when a log-out overtook a switch that was waiting: a
\* refusal, a late Task of a replaced or popped screen or a restart never leads there.
SignedInAtHome ==
    root = "home" /\ currentUser = None =>
        overtaken \/ \E t \in Logins : Succeeded(t) /\ Mode(t) = "zalo"

\* The Task has signed somebody in, or may have before the process ended.
SignedIn(t) ==
    \/ pc[t] \in {"returning", "done", "lost"}
    \/ SignsUp(t) /\ job[t].user # None

\* After a log-out, as long as the user starts nothing, somebody is signed in only
\* through the late answer of a log-in or a sign-up that was under way when signOut
\* ran (createUser signs the new account in even if the sign-up then fails).
LogOutHolds ==
    quiet /\ currentUser # None => \E t \in late : SignedIn(t)

\* An identity is linked by one log-in at most, and is then never moved: once it is
\* attached, it gets in only through signIn(with:), that is while nobody is
\* current.  Since expiry does not sign out, a social user whose session expired
\* is refused by link until somebody logs out.
LinkedOnce ==
    \A t, u \in Logins :
        /\ pc[t] \in {"returning", "done"} /\ pc[u] \in {"returning", "done"}
        /\ Social(t) /\ Social(u) /\ With(t) = With(u)
        /\ Provider[With(t)] # "zalo"
        /\ job[t].user # None /\ job[u].user # None
        => t = u

\* How far a log-in or a sign-up is for someone who only waits for its answer.
Stage ==
    [t \in Logins |->
        IF pc[t] = "none" THEN "new"
        ELSE IF pc[t] \in {"returning", "done"} THEN "granted"
        ELSE IF pc[t] = "profile" THEN "registered"
        ELSE IF Busy(t) THEN "asked"
        ELSE IF pc[t] = "lost" THEN "lost"
        ELSE "over"]

By == [t \in Logins |-> With(t)]

ZaloIdentities == {i \in Identities : Provider[i] = "zalo"}

Auth == INSTANCE Authentication WITH user <- currentUser, attached <- linked,
            held <- accounts, stage <- Stage, by <- By, shown <- root, Outside <- ZaloIdentities

\* Logging in and signing up as Authentication promises it: through racing Tasks,
\* replaced screens, expiry and the traps, home is entered only after a log-in was
\* granted or a sign-up completed since the launch, nobody is signed in or out but by
\* a grant, a new account or a log-out, an e-mail gets an account once, and an
\* identity is attached once and never moved.
ImplementsAuthentication == Auth!Spec

\* Home without a running session timer is reached only when the timer fired
\* while a log-in or a sign-up was still under way.
WatchedUnlessRaced ==
    root = "home" /\ ~armed => raced

\* A log-in that nobody will resume: its callback returned without resuming, or
\* another Apple log-in took the delegate.
Hung(t) == pc[t] = "hung" \/ (pc[t] = "provider" /\ ~Heard(t))

\* Every log-in ends or is one of the hung ones; a sign-up ends or gets to its writes.
LoginEnds ==
    \A t \in Logins : pc[t] = "started" ~> (pc[t] \in Idle \cup {"profile"} \/ Hung(t))

\* A success on the log-in screen that is displayed leads to home, unless that
\* screen is replaced first or covered by the sign-up screen, or a trap in another
\* Task ends the process.
SuccessReachesHome ==
    \A t \in Logins, s \in Screens :
        (pc[t] = "returning" /\ job[t].screen = s /\ screen = s /\ OnLogin) ~>
            (root = "home" \/ screen # s \/ ~observing \/ pc[t] = "lost")
=============================================================================
