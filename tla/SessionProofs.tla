---------------------------- MODULE SessionProofs ---------------------------
(***************************************************************************)
(* The safety of log-in and session, for any number of accounts, screens,  *)
(* log-ins and closures in flight.  Each property has its own inductive    *)
(* part; all of them rest on the types and on what a log-in is made of at  *)
(* each of its steps (StepsInv).                                           *)
(***************************************************************************)
EXTENDS Session, TLAPS

Forms == [email : Typed \cup {None}, password : Typed \cup {None}]
Jobs  == [screen : Screens \cup {None}, with : Identities \cup {"email", "new"},
          user : Accounts \cup {None, Empty}, password : Typed \cup {None}]

Zalo(t) == Social(t) /\ Provider[With(t)] = "zalo"

\* A trap of either kind.
Traps(t) == AppleTraps(t) \/ SignUpTraps(t)

\* Only a social log-in asks a provider; one that links has found somebody, one that
\* signs in has found nobody.  Only a sign-up writes a profile, and it has no log-in
\* screen.
StepsInv ==
    \A t \in Logins :
        /\ pc[t] \in {"provider", "credential", "signInWith", "link"} => Social(t)
        /\ pc[t] = "signIn" => With(t) = "email"
        /\ pc[t] = "profile" => SignsUp(t)
        /\ pc[t] = "none" => ~SignsUp(t)
        /\ pc[t] = "link" => job[t].user \in Accounts
        /\ pc[t] = "signInWith" => job[t].user = None
        /\ Busy(t) /\ ~SignsUp(t) => job[t].screen \in Screens

\* Zalo granted a log-in, or a log-out overtook a switch.
Excused == overtaken \/ \E t \in Logins : Succeeded(t) /\ Zalo(t)

\* With nobody signed in and no excuse, nothing is on its way to home: no switch waits,
\* neither the screen on display nor a log-in of it has a success to report, and no
\* sign-up of the sign-up screen on display has got past createUser.
HomeInv ==
    currentUser = None /\ ~Excused =>
        /\ root # "home"
        /\ switches = 0
        /\ arrivals = 0
        /\ screen \notin success
        /\ \A t \in Logins : pc[t] \in {"link", "returning"} /\ ~Zalo(t) /\ ~SignsUp(t) =>
                             job[t].screen # screen
        /\ \A t \in signUps : SignsUp(t) => pc[t] \notin {"profile", "returning"}

\* While the timer is off and did not fire during a log-in, nothing is under way.
WatchInv ==
    ~armed /\ ~raced =>
        /\ root # "home"
        /\ switches = 0
        /\ arrivals = 0
        /\ evaluating = {}
        /\ \A t \in Logins : ~Busy(t)

\* Since the last log-out nothing was started: what is under way was so then.
QuietInv ==
    quiet => /\ \A t \in Logins : Busy(t) => t \in late
             /\ LogOutHolds

\* The log-ins that have linked their identity.
HasLinked(t) ==
    pc[t] \in {"returning", "done"} /\ Social(t) /\ ~Zalo(t) /\ job[t].user # None

\* What was linked stays attached.
LinkInv ==
    /\ \A t \in Logins : HasLinked(t) => linked[With(t)] # None
    /\ \A t, u \in Logins : HasLinked(t) /\ HasLinked(u) /\ With(t) = With(u) => t = u

IInv == TypeOK /\ StepsInv /\ HomeInv /\ WatchInv /\ QuietInv /\ LinkInv

-----------------------------------------------------------------------------
(***************************************************************************)
(* Types, and what a log-in is made of.                                    *)
(***************************************************************************)

\* The launched process is well typed, and nothing is under way.
LEMMA TypeInit == Init => TypeOK /\ StepsInv
<1> SUFFICES ASSUME Init PROVE TypeOK /\ StepsInv
    OBVIOUS
<1> USE SetsAssumption, BeforeAssumption
<1>1. PICK b \in Before : /\ savedLogin = b.saved /\ currentUser = b.user
                         /\ accounts = b.accounts /\ linked = b.linked
    BY DEF Init
<1>2. savedLogin \in BOOLEAN /\ currentUser \in Accounts \cup {None} /\ accounts \subseteq Emails
      /\ linked \in [Identities -> Accounts \cup {None}]
    BY <1>1 DEF Accounts
<1>3. form \in [Screens -> Forms]
    BY DEF Init, NoForm, Forms
<1>4. job \in [Logins -> Jobs]
    BY DEF Init, NoJob, Jobs
<1>5. pc \in [Logins -> Idle \cup Under]
    BY DEF Init, Idle
<1>6. TypeOK
    BY <1>2, <1>3, <1>4, <1>5 DEF Init, TypeOK, Forms, Jobs
<1>7. StepsInv
    BY DEF Init, StepsInv, Busy, Under, SignsUp, With, NoJob
<1> QED BY <1>6, <1>7

\* A new log-in screen is a screen, with an empty form and no delegate.
LEMMA NewScreenType ==
    ASSUME TypeOK, NewLoginScreen
    PROVE  /\ root' \in {"login", "home"} /\ screen' \in Screens /\ observing' \in BOOLEAN
           /\ form' \in [Screens -> Forms]
           /\ success' \subseteq Screens /\ prefilling' \subseteq Screens
           /\ evaluating' \subseteq Screens /\ delegate' \in [Screens -> Logins \cup {None}]
           /\ switches' \in Nat /\ arrivals' \in Nat /\ signUps' \subseteq Logins
BY DEF TypeOK, NewLoginScreen, NoForm, Forms

\* Log-ins that are started are well typed and have asked nobody yet.
LEMMA StartsType ==
    ASSUME TypeOK, StepsInv, NEW ts \in SUBSET Logins, NEW s \in Screens \cup {None},
           NEW w \in Identities \cup {"email", "new"}, s \in Screens \/ w = "new",
           Starts(ts, s, w)
    PROVE  /\ pc' \in [Logins -> Idle \cup Under]
           /\ job' \in [Logins -> Jobs]
           /\ quiet' \in BOOLEAN
           /\ StepsInv'
<1> USE SetsAssumption
<1>1. [screen |-> s, with |-> w, user |-> None, password |-> None] \in Jobs
    BY DEF Jobs
<1>2. pc' \in [Logins -> Idle \cup Under] /\ quiet' \in BOOLEAN
    BY DEF Starts, TypeOK, Under
<1>3. job' \in [Logins -> Jobs]
    BY <1>1 DEF Starts, TypeOK, Jobs
<1>4. ASSUME NEW t \in Logins
      PROVE  /\ t \in ts => pc'[t] = "started" /\ job'[t].screen = s /\ job'[t].with = w
             /\ t \notin ts => pc'[t] = pc[t] /\ job'[t] = job[t]
    BY DEF Starts, TypeOK
<1>5. StepsInv'
    BY <1>4 DEF StepsInv, Social, SignsUp, With, Busy, Under
<1> QED BY <1>2, <1>3, <1>5

\* Where a log-in that moves is, and what it takes along.
LEMMA MoveType ==
    ASSUME TypeOK, NEW t \in Logins, NEW a \in Idle \cup Under, NEW b \in Idle \cup Under,
           Go(t, a, b)
    PROVE  /\ pc[t] = a
           /\ pc' \in [Logins -> Idle \cup Under]
           /\ pc'[t] = b
           /\ \A u \in Logins : u # t => pc'[u] = pc[u]
BY DEF Go, TypeOK

\* The log-ins under way have a screen, and a social one has an identity.
LEMMA JobType ==
    ASSUME TypeOK, StepsInv, NEW t \in Logins
    PROVE  /\ job[t] \in Jobs
           /\ Busy(t) /\ ~SignsUp(t) => job[t].screen \in Screens
           /\ Social(t) => With(t) \in Identities /\ ~SignsUp(t)
BY SetsAssumption DEF TypeOK, StepsInv, Jobs, Social, SignsUp, With

\* A log-in that moves on with what it has keeps to its steps.
LEMMA MoveSteps ==
    ASSUME TypeOK, StepsInv, NEW t \in Logins, NEW a \in Under,
           NEW b \in {"provider", "credential", "returning", "failed", "done", "hung"},
           b \in {"provider", "credential"} => Social(t),
           Go(t, a, b), UNCHANGED job
    PROVE  pc' \in [Logins -> Idle \cup Under] /\ StepsInv'
<1>1. pc[t] = a /\ pc' \in [Logins -> Idle \cup Under] /\ pc'[t] = b
      /\ \A u \in Logins : u # t => pc'[u] = pc[u]
    BY MoveType DEF Idle, Under
<1> QED BY <1>1 DEF StepsInv, Busy, Social, SignsUp, With, Under

\* What happens elsewhere leaves the log-ins as they are.
LEMMA SameSteps ==
    ASSUME StepsInv, UNCHANGED loginVars
    PROVE  StepsInv'
BY DEF StepsInv, loginVars, Busy, Social, SignsUp, With

\* The account of a job, the e-mail of a form and nothing else is replaced.
LEMMA ReplaceUser ==
    ASSUME NEW j \in Jobs, NEW u
    PROVE  [j EXCEPT !.user = u] = [screen |-> j.screen, with |-> j.with, user |-> u,
                                    password |-> j.password]
BY DEF Jobs

LEMMA ReplaceEmail ==
    ASSUME NEW f \in Forms, NEW e
    PROVE  [f EXCEPT !.email = e] = [email |-> e, password |-> f.password]
BY DEF Forms

LEMMA TypeStep ==
    ASSUME TypeOK, StepsInv, [Next]_vars
    PROVE  TypeOK' /\ StepsInv'
<1> USE SetsAssumption
<1>1. CASE UNCHANGED vars
    BY <1>1 DEF vars, screenVars, queueVars, loginVars, authVars, history, TypeOK, StepsInv, Busy,
                Social, SignsUp, With
<1>2. CASE Touch \/ PressFaceID \/ PushSignUp
  <2>1. armed' \in BOOLEAN /\ raced' \in BOOLEAN /\ observing' \in BOOLEAN
        /\ evaluating' \subseteq Screens
      BY <1>2 DEF Touch, PressFaceID, PushSignUp, TouchEnds, screenVars, TypeOK
  <2>2. UNCHANGED <<root, screen, form, success, prefilling, delegate, queueVars, savedLogin,
                    loginVars, authVars, quiet, late, overtaken>>
      BY <1>2 DEF Touch, PressFaceID, PushSignUp, screenVars
  <2> QED BY <2>1, <2>2, SameSteps DEF queueVars, loginVars, authVars, TypeOK
<1>22. CASE PressWithoutEmail
  <2>1. form[screen] \in Forms /\ armed' \in BOOLEAN /\ raced' \in BOOLEAN
      BY <1>22 DEF PressWithoutEmail, TouchEnds, TypeOK, Forms
  <2>2. form' = [form EXCEPT ![screen] = [form[screen] EXCEPT !.email = Empty]]
      BY <1>22, Zenon DEF PressWithoutEmail
  <2>3. [form[screen] EXCEPT !.email = Empty] \in Forms
      BY <2>1, ReplaceEmail DEF Forms, Typed
  <2> HIDE DEF Forms
  <2>5. form \in [Screens -> Forms]
      BY DEF TypeOK, Forms
  <2>4. form' \in [Screens -> Forms]
      BY <2>2, <2>3, <2>5
  <2> QED BY <1>22, <2>1, <2>4, SameSteps DEF PressWithoutEmail, queueVars, loginVars, authVars, TypeOK, Forms
<1>3. CASE PopSignUp
  <2>1. armed' \in BOOLEAN /\ raced' \in BOOLEAN /\ observing' \in BOOLEAN
      BY <1>3, Zenon DEF PopSignUp, TouchEnds
  <2>2. switches \in Nat /\ switches + 1 \in Nat
      BY DEF TypeOK
  <2>3. switches' \in Nat
      BY <1>3, <2>2, Zenon DEF PopSignUp
  <2>4. signUps' \subseteq Logins
      BY <1>3 DEF PopSignUp
  <2> QED BY <1>3, <2>1, <2>3, <2>4, SameSteps DEF PopSignUp, loginVars, authVars, TypeOK
<1>4. CASE Expire \/ Shake \/ LogOut
  <2>1. NewLoginScreen
      BY <1>4 DEF Expire, Shake, LogOut
  <2>2. /\ armed' \in BOOLEAN /\ quiet' \in BOOLEAN
        /\ late' \subseteq Logins /\ currentUser' \in Accounts \cup {None}
      BY <1>4 DEF Expire, Shake, LogOut, TouchEnds, authVars, history, TypeOK
  <2>4. raced' \in BOOLEAN /\ overtaken' \in BOOLEAN
    <3>1. CASE Expire
      <4>1. raced' = (switches > 0 \/ arrivals > 0 \/ evaluating # {} \/ \E t \in Logins : Busy(t))
            /\ overtaken' = overtaken
          BY <3>1, Zenon DEF Expire, UnderWay
      <4>2. overtaken \in BOOLEAN
          BY DEF TypeOK
      <4> QED BY <4>1, <4>2, Zenon
    <3>2. CASE Shake
        BY <3>2, Zenon DEF Shake, history, TypeOK
    <3>3. CASE LogOut
      <4>1. raced' = FALSE /\ overtaken' = (switches > 0 \/ arrivals > 0)
          BY <3>3, Zenon DEF LogOut, TouchEnds
      <4> QED BY <4>1, Zenon
    <3> QED BY <1>4, <3>1, <3>2, <3>3
  <2>3. UNCHANGED <<savedLogin, loginVars, accounts, linked>>
      BY <1>4 DEF Expire, Shake, LogOut, authVars
  <2> QED BY <2>1, <2>2, <2>3, <2>4, NewScreenType, SameSteps DEF loginVars, TypeOK, Forms
<1>5. CASE SwitchToArtHome \/ ArriveAtArtHome
  <2>0. ShowArtHome
      BY <1>5 DEF SwitchToArtHome, ArriveAtArtHome
  <2>1. root' \in {"login", "home"} /\ observing' \in BOOLEAN /\ signUps' \subseteq Logins
      BY <2>0 DEF ShowArtHome
  <2>2. savedLogin' \in BOOLEAN
      BY <1>5, Zenon DEF SwitchToArtHome, ArriveAtArtHome, TypeOK
  <2>3. \/ switches > 0 /\ switches' = switches - 1 /\ arrivals' = arrivals
        \/ arrivals > 0 /\ arrivals' = arrivals - 1 /\ switches' = switches
      BY <1>5, Zenon DEF SwitchToArtHome, ArriveAtArtHome
  <2>4. switches' \in Nat /\ arrivals' \in Nat
      BY <2>3 DEF TypeOK
  <2> QED BY <2>0, <2>1, <2>2, <2>4, SameSteps DEF ShowArtHome, loginVars, authVars, history, TypeOK
<1>6. ASSUME NEW s \in Screens, NEW e \in Emails \cup {None}, Prefill(s, e)
      PROVE  TypeOK' /\ StepsInv'
    BY <1>6 DEF Prefill, queueVars, loginVars, authVars, history, TypeOK, StepsInv, Busy, Social, SignsUp, With, Typed
<1>7. ASSUME NEW s \in Screens, FaceIsWrong(s)
      PROVE  TypeOK' /\ StepsInv'
    BY <1>7 DEF FaceIsWrong, queueVars, loginVars, authVars, history, TypeOK, StepsInv, Busy, Social, SignsUp, With
<1>8. ASSUME NEW e \in Emails, NEW t \in Logins, PressWithoutPassword(e, t)
      PROVE  TypeOK' /\ StepsInv'
  <2>1. Starts({t}, screen, "email") /\ screen \in Screens
      BY <1>8 DEF PressWithoutPassword, TypeOK
  <2>2. form' \in [Screens -> Forms] /\ armed' \in BOOLEAN /\ raced' \in BOOLEAN
      BY <1>8 DEF PressWithoutPassword, TouchEnds, TypeOK, Typed, Forms
  <2> QED BY <1>8, <2>1, <2>2, StartsType DEF PressWithoutPassword, queueVars, authVars, TypeOK, Forms, Jobs
<1>9. ASSUME NEW e \in Emails, NEW p \in Emails, NEW t \in Logins, NEW u \in Logins,
             PressLogIn(e, p, t, u)
      PROVE  TypeOK' /\ StepsInv'
  <2>1. Starts({t, u}, screen, "email") /\ screen \in Screens
      BY <1>9 DEF PressLogIn, TypeOK
  <2>2. form' \in [Screens -> Forms] /\ armed' \in BOOLEAN /\ raced' \in BOOLEAN
      BY <1>9 DEF PressLogIn, TouchEnds, TypeOK, Typed, Forms
  <2> QED BY <1>9, <2>1, <2>2, StartsType DEF PressLogIn, queueVars, authVars, TypeOK, Forms, Jobs
<1>10. ASSUME NEW i \in Identities, NEW t \in Logins, PressSocial(i, t)
       PROVE  TypeOK' /\ StepsInv'
  <2>1. Starts({t}, screen, i) /\ screen \in Screens
      BY <1>10 DEF PressSocial, TypeOK
  <2>2. armed' \in BOOLEAN /\ raced' \in BOOLEAN
      BY <1>10 DEF PressSocial, TouchEnds
  <2> QED BY <1>10, <2>1, <2>2, StartsType DEF PressSocial, screenVars, queueVars, authVars, TypeOK, Jobs
<1>11. ASSUME NEW s \in Screens, NEW t \in Logins, FaceIsRight(s, t)
       PROVE  TypeOK' /\ StepsInv'
  <2>1. Starts({t}, s, "email")
      BY <1>11 DEF FaceIsRight
  <2>2. form' \in [Screens -> Forms] /\ evaluating' \subseteq Screens
      BY <1>11 DEF FaceIsRight, TypeOK, Typed, Forms
  <2> QED BY <1>11, <2>1, <2>2, StartsType DEF FaceIsRight, queueVars, authVars, TypeOK, Forms, Jobs
<1>23. ASSUME NEW t \in Logins, PressSignUp(t)
       PROVE  TypeOK' /\ StepsInv'
  <2>1. Starts({t}, None, "new")
      BY <1>23 DEF PressSignUp
  <2>2. armed' \in BOOLEAN /\ raced' \in BOOLEAN /\ signUps' \subseteq Logins
      BY <1>23 DEF PressSignUp, TouchEnds, TypeOK
  <2> QED BY <1>23, <2>1, <2>2, StartsType DEF PressSignUp, screenVars, authVars, TypeOK, Jobs
<1>12. ASSUME NEW t \in Logins, ReadForm(t)
       PROVE  TypeOK' /\ StepsInv'
  <2> DEFINE f == form[job[t].screen]
             b == IF None \in {f.email, f.password} THEN "ended" ELSE "signIn"
  <2>1. Go(t, "started", b) /\ b \in {"ended", "signIn"}
      BY <1>12 DEF ReadForm
  <2>2. job[t] \in Jobs /\ job[t].screen \in Screens /\ With(t) = "email"
      BY <1>12, <2>1, JobType, ProviderAssumption DEF Go, Busy, Under, ReadForm, Mode, SignsUp
  <2>3. f.email \in Typed \cup {None} /\ f.password \in Typed \cup {None}
      BY <2>2 DEF TypeOK
  <2> DEFINE j == [screen |-> job[t].screen, with |-> job[t].with, user |-> f.email,
                   password |-> f.password]
  <2>4. job' = job \/ job' = [job EXCEPT ![t] = j]
      BY <1>12 DEF ReadForm
  <2> HIDE DEF f, b
  <2>5. pc' \in [Logins -> Idle \cup Under] /\ pc'[t] = b
        /\ \A u \in Logins : u # t => pc'[u] = pc[u]
      BY <2>1, MoveType DEF Idle, Under
  <2>8. j \in Jobs
      BY <2>2, <2>3 DEF Jobs, Typed, Accounts
  <2>6. job' \in [Logins -> Jobs] /\ job'[t].with = job[t].with /\ job'[t].screen = job[t].screen
        /\ \A u \in Logins : u # t => job'[u] = job[u]
      BY <2>4, <2>8 DEF TypeOK, Jobs
  <2>7. StepsInv'
      BY <2>1, <2>2, <2>5, <2>6 DEF StepsInv, Busy, Social, SignsUp, With
  <2> QED BY <1>12, <2>5, <2>6, <2>7 DEF ReadForm, LoginOnly, screenVars, queueVars, authVars, history,
                                         TypeOK, Jobs
<1>13. ASSUME NEW t \in Logins, FirebaseLogin(t)
       PROVE  TypeOK' /\ StepsInv'
  <2> DEFINE b == IF currentUser = None THEN "signInWith" ELSE "link"
  <2>1. Go(t, "credential", b) /\ job' = [job EXCEPT ![t].user = currentUser]
      BY <1>13 DEF FirebaseLogin
  <2>2. pc[t] = "credential" /\ pc' \in [Logins -> Idle \cup Under] /\ pc'[t] = b
        /\ \A u \in Logins : u # t => pc'[u] = pc[u]
      BY <2>1, MoveType DEF Idle, Under
  <2>3. job' \in [Logins -> Jobs] /\ job'[t].with = job[t].with /\ job'[t].screen = job[t].screen
        /\ job'[t].user = currentUser /\ \A u \in Logins : u # t => job'[u] = job[u]
    <3>1. job' = [job EXCEPT ![t] = [job[t] EXCEPT !.user = currentUser]]
        BY <2>1, Zenon
    <3>2. job[t] \in Jobs
        BY JobType
    <3> DEFINE j == [screen |-> job[t].screen, with |-> job[t].with, user |-> currentUser,
                     password |-> job[t].password]
    <3>3. job' = [job EXCEPT ![t] = j]
        BY <3>1, <3>2, ReplaceUser, Zenon
    <3>4. j \in Jobs
        BY <3>2 DEF Jobs, TypeOK
    <3> QED BY <3>3, <3>4 DEF TypeOK, Jobs
  <2>4. Social(t) /\ job[t].screen \in Screens /\ currentUser \in Accounts \cup {None}
      BY <2>2, JobType DEF StepsInv, Busy, Under, TypeOK
  <2>5. StepsInv'
      BY <2>2, <2>3, <2>4 DEF StepsInv, Busy, Social, SignsUp, With
  <2> QED BY <1>13, <2>2, <2>3, <2>5 DEF FirebaseLogin, LoginOnly, screenVars, queueVars, authVars, history,
                                         TypeOK, Jobs
<1>14. ASSUME NEW t \in Logins, AskProvider(t)
       PROVE  TypeOK' /\ StepsInv'
  <2>1. Go(t, "started", "provider") /\ Social(t) /\ UNCHANGED job
      BY <1>14 DEF AskProvider
  <2>2. pc' \in [Logins -> Idle \cup Under] /\ StepsInv'
      BY <2>1, MoveSteps DEF Under
  <2>3. delegate' \in [Screens -> Logins \cup {None}]
      BY <1>14 DEF AskProvider, TypeOK
  <2> QED BY <1>14, <2>2, <2>3 DEF AskProvider, queueVars, authVars, history, TypeOK
<1>15. ASSUME NEW t \in Logins,
              ProviderGrants(t) \/ ProviderErrs(t) \/ ProviderGivesNothing(t)
       PROVE  TypeOK' /\ StepsInv'
  <2>1. PICK b \in {"returning", "credential", "failed", "hung"} : Go(t, "provider", b)
      BY <1>15 DEF ProviderGrants, ProviderErrs, ProviderGivesNothing
  <2>2. UNCHANGED <<LoginOnly, job, authVars>>
      BY <1>15 DEF ProviderGrants, ProviderErrs, ProviderGivesNothing
  <2>3. b = "credential" => Social(t)
      BY <2>1 DEF Go, StepsInv
  <2>4. pc' \in [Logins -> Idle \cup Under] /\ StepsInv'
      BY <2>1, <2>2, <2>3, MoveSteps DEF Under
  <2> QED BY <2>2, <2>4 DEF LoginOnly, screenVars, queueVars, authVars, history, TypeOK
<1>24. ASSUME NEW t \in Logins, FirebaseFails(t)
       PROVE  TypeOK' /\ StepsInv'
  <2> DEFINE j == [screen |-> job[t].screen, with |-> job[t].with, user |-> None, password |-> None]
  <2>1. job' = [job EXCEPT ![t] = j] /\ job[t] \in Jobs
      BY <1>24, JobType DEF FirebaseFails
  <2>2. j \in Jobs
      BY <2>1 DEF Jobs
  <2>3. job' \in [Logins -> Jobs] /\ \A u \in Logins : u # t => job'[u] = job[u]
      BY <2>1, <2>2 DEF TypeOK, Jobs
  <2>4. /\ pc' \in [Logins -> Idle \cup Under] /\ pc'[t] = "failed"
        /\ \A u \in Logins : u # t => pc'[u] = pc[u]
      BY <1>24 DEF FirebaseFails, Go, TypeOK, Idle
  <2>5. StepsInv'
      BY <2>3, <2>4 DEF StepsInv, Busy, Social, SignsUp, With, Under
  <2> QED BY <1>24, <2>3, <2>4, <2>5 DEF FirebaseFails, LoginOnly, screenVars, queueVars, authVars,
                                         history, TypeOK, Jobs
<1>16. ASSUME NEW t \in Logins, ZaloRefuses(t)
       PROVE  TypeOK' /\ StepsInv'
  <2>1. pc' \in [Logins -> Idle \cup Under] /\ StepsInv'
      BY <1>16, MoveSteps DEF ZaloRefuses, Under
  <2> QED BY <1>16, <2>1 DEF ZaloRefuses, queueVars, authVars, history, TypeOK
<1>17. ASSUME NEW t \in Logins, Return(t)
       PROVE  TypeOK' /\ StepsInv'
  <2>1. pc' \in [Logins -> Idle \cup Under] /\ StepsInv'
      BY <1>17, MoveSteps DEF Return, Under
  <2>2. job[t].screen \in Screens /\ switches' \in Nat
      BY <1>17, JobType DEF Return, Go, Busy, Under, TypeOK
  <2> QED BY <1>17, <2>1, <2>2 DEF Return, authVars, history, TypeOK
<1>18. ASSUME NEW t \in Logins, SignIn(t)
       PROVE  TypeOK' /\ StepsInv'
  <2>1. pc' \in [Logins -> Idle \cup Under] /\ StepsInv'
      BY <1>18, MoveSteps DEF SignIn, Under
  <2> QED BY <1>18, <2>1 DEF SignIn, LoginOnly, screenVars, queueVars, history, TypeOK, Accounts
<1>19. ASSUME NEW t \in Logins, SignInWith(t)
       PROVE  TypeOK' /\ StepsInv'
  <2>1. Go(t, "signInWith", "returning") /\ UNCHANGED <<LoginOnly, job, accounts>>
      BY <1>19 DEF SignInWith
  <2>2. pc' \in [Logins -> Idle \cup Under] /\ StepsInv'
      BY <2>1, MoveSteps DEF Under
  <2>3. With(t) \in Identities
      BY <2>1, JobType DEF Go, StepsInv
  <2>4. linked' \in [Identities -> Accounts \cup {None}] /\ currentUser' \in Accounts \cup {None}
      BY <1>19, <2>3 DEF SignInWith, TypeOK, Accounts
  <2> QED BY <2>1, <2>2, <2>4 DEF LoginOnly, screenVars, queueVars, history, TypeOK
<1>20. ASSUME NEW t \in Logins, Link(t)
       PROVE  TypeOK' /\ StepsInv'
  <2>1. pc' \in [Logins -> Idle \cup Under] /\ StepsInv'
      BY <1>20, MoveSteps DEF Link, Under
  <2>2. job[t].user \in Accounts
      BY <1>20 DEF Link, Go, StepsInv
  <2>3. linked' \in [Identities -> Accounts \cup {None}]
      BY <1>20, <2>2 DEF Link, TypeOK
  <2> QED BY <1>20, <2>1, <2>3 DEF Link, LoginOnly, screenVars, queueVars, history, TypeOK
<1>21. ASSUME NEW t \in Logins, Traps(t)
       PROVE  TypeOK' /\ StepsInv'
  <2>0. Relaunched
      BY <1>21 DEF Traps, AppleTraps, SignUpTraps
  <2>1. /\ pc' \in [Logins -> Idle \cup Under] /\ job' = job
        /\ \A u \in Logins : pc'[u] \in {"none", "lost"} /\ (pc'[u] = "none" => pc[u] = "none")
      BY <2>0 DEF Relaunched, TypeOK, Idle
  <2>2. StepsInv'
      BY <2>1 DEF StepsInv, Busy, Under, SignsUp, With
  <2>3. form' \in [Screens -> Forms]
      BY <2>0 DEF Relaunched, NoForm, Forms
  <2> QED BY <2>0, <2>1, <2>2, <2>3 DEF Relaunched, authVars, history, TypeOK, Forms, Jobs
<1>25. ASSUME NEW t \in Logins, NEW e \in Emails, CreateUser(t, e)
       PROVE  TypeOK' /\ StepsInv'
  <2>1. pc' \in [Logins -> Idle \cup Under] /\ pc'[t] = "profile" /\ SignsUp(t)
        /\ \A u \in Logins : u # t => pc'[u] = pc[u]
      BY <1>25 DEF CreateUser, Go, TypeOK, Under
  <2>2. job[t] \in Jobs
      BY JobType
  <2>3. job' = [job EXCEPT ![t] = [job[t] EXCEPT !.user = e]]
      BY <1>25, Zenon DEF CreateUser
  <2> DEFINE j == [screen |-> job[t].screen, with |-> job[t].with, user |-> e,
                   password |-> job[t].password]
  <2>4. job' = [job EXCEPT ![t] = j]
      BY <2>2, <2>3, ReplaceUser, Zenon
  <2>5. j \in Jobs
      BY <2>2 DEF Jobs, Accounts
  <2>6. job' \in [Logins -> Jobs] /\ job'[t].with = job[t].with
        /\ \A u \in Logins : u # t => job'[u] = job[u]
      BY <2>4, <2>5 DEF TypeOK, Jobs
  <2>7. StepsInv'
      BY <2>1, <2>6 DEF StepsInv, Busy, Social, SignsUp, With
  <2>8. accounts' \subseteq Emails /\ currentUser' \in Accounts
      BY <1>25 DEF CreateUser, TypeOK, Accounts
  <2> QED BY <1>25, <2>1, <2>6, <2>7, <2>8 DEF CreateUser, LoginOnly, screenVars, queueVars, history,
                                               TypeOK, Jobs
<1>26. ASSUME NEW t \in Logins,
              \/ \E e \in Emails : CreateUserUnanswered(t, e)
              \/ StoreProfile(t) \/ SignUpFails(t) \/ SignUpReturns(t)
       PROVE  TypeOK' /\ StepsInv'
  <2>1. PICK a \in {"started", "profile", "returning"}, b \in {"returning", "failed", "done"} : Go(t, a, b)
      BY <1>26 DEF CreateUserUnanswered, StoreProfile, SignUpFails, SignUpReturns
  <2>2. UNCHANGED <<screenVars, switches, signUps, savedLogin, armed, history, job, currentUser, linked>>
      BY <1>26 DEF CreateUserUnanswered, StoreProfile, SignUpFails, SignUpReturns, LoginOnly, queueVars,
                   authVars
  <2>3. pc' \in [Logins -> Idle \cup Under] /\ StepsInv'
      BY <2>1, <2>2, MoveSteps DEF Under
  <2>4. accounts' \subseteq Emails /\ arrivals' \in Nat
      BY <1>26 DEF CreateUserUnanswered, StoreProfile, SignUpFails, SignUpReturns, LoginOnly, queueVars,
                   authVars, TypeOK
  <2> QED BY <2>2, <2>3, <2>4 DEF screenVars, history, TypeOK
<1> QED
    BY <1>1, <1>2, <1>22, <1>3, <1>4, <1>5, <1>6, <1>7, <1>8, <1>9, <1>10, <1>11, <1>12, <1>13, <1>14,
       <1>15, <1>16, <1>17, <1>18, <1>19, <1>20, <1>21, <1>23, <1>24, <1>25, <1>26
       DEF Next, User, Face, Fetch, Step, Answer, Traps

-----------------------------------------------------------------------------
(***************************************************************************)
(* What each kind of step does to the log-ins.                             *)
(***************************************************************************)
Unmoved == <<root, screen, observing, armed, evaluating, signUps, history>>

\* An answer or an own step moves one log-in that was under way; it keeps its screen
\* and what it logs in with.
LEMMA StepMoves ==
    ASSUME TypeOK, StepsInv, NEW t \in Logins, Step(t), ~Traps(t)
    PROVE  /\ Busy(t)
           /\ \A u \in Logins : u # t => pc'[u] = pc[u] /\ job'[u] = job[u]
           /\ job'[t].screen = job[t].screen /\ job'[t].with = job[t].with
           /\ pc[t] = "returning" => pc'[t] = "done"
           /\ UNCHANGED Unmoved
<1>1. job[t] \in Jobs /\ job \in [Logins -> Jobs]
    BY JobType DEF TypeOK, Jobs
<1>2. CASE ReadForm(t)
  <2>1. UNCHANGED Unmoved
      BY <1>2 DEF ReadForm, LoginOnly, screenVars, queueVars, Unmoved
  <2>2. pc[t] = "started" /\ \A u \in Logins : u # t => pc'[u] = pc[u]
      BY <1>2 DEF ReadForm, Go, TypeOK
  <2> DEFINE f == form[job[t].screen]
             j == [screen |-> job[t].screen, with |-> job[t].with, user |-> f.email,
                   password |-> f.password]
  <2>3. job' = job \/ job' = [job EXCEPT ![t] = j]
      BY <1>2 DEF ReadForm
  <2>4. job'[t] \in {job[t], j} /\ \A u \in Logins : u # t => job'[u] = job[u]
      BY <1>1, <2>3
  <2> QED BY <2>1, <2>2, <2>4 DEF Busy, Under
<1>3. CASE FirebaseLogin(t)
  <2>1. UNCHANGED Unmoved
      BY <1>3 DEF FirebaseLogin, LoginOnly, screenVars, queueVars, Unmoved
  <2>2. pc[t] = "credential" /\ \A u \in Logins : u # t => pc'[u] = pc[u]
      BY <1>3 DEF FirebaseLogin, Go, TypeOK
  <2>3. job' = [job EXCEPT ![t] = [job[t] EXCEPT !.user = currentUser]]
      BY <1>3, Zenon DEF FirebaseLogin
  <2> DEFINE j == [screen |-> job[t].screen, with |-> job[t].with, user |-> currentUser,
                   password |-> job[t].password]
  <2>4. job' = [job EXCEPT ![t] = j]
      BY <1>1, <2>3, ReplaceUser, Zenon
  <2>5. job'[t] = j /\ \A u \in Logins : u # t => job'[u] = job[u]
      BY <1>1, <2>4
  <2> QED BY <2>1, <2>2, <2>4, <2>5 DEF Busy, Under
<1>4. CASE AskProvider(t) \/ ZaloRefuses(t) \/ Return(t)
  <2>1. UNCHANGED Unmoved /\ UNCHANGED job
      BY <1>4 DEF AskProvider, ZaloRefuses, Return, queueVars, history, Unmoved
  <2>2. PICK a \in {"started", "provider", "returning"}, b \in Idle \cup Under :
             Go(t, a, b) /\ (a = "returning" => b = "done")
      BY <1>4 DEF AskProvider, ZaloRefuses, Return, Idle, Under
  <2> QED BY <2>1, <2>2 DEF Go, TypeOK, Busy, Under
<1>5. CASE \/ SignIn(t) \/ ProviderGrants(t) \/ ProviderErrs(t) \/ ProviderGivesNothing(t)
           \/ SignInWith(t) \/ Link(t)
  <2>1. UNCHANGED Unmoved /\ UNCHANGED job
      BY <1>5 DEF SignIn, ProviderGrants, ProviderErrs, ProviderGivesNothing, SignInWith, Link,
                  LoginOnly, screenVars, queueVars, Unmoved
  <2>2. PICK a \in {"signIn", "provider", "signInWith", "link"}, b \in Idle \cup Under : Go(t, a, b)
      BY <1>5 DEF SignIn, ProviderGrants, ProviderErrs, ProviderGivesNothing, SignInWith, Link,
                  Idle, Under
  <2> QED BY <2>1, <2>2 DEF Go, TypeOK, Busy, Under
<1>6. CASE FirebaseFails(t)
  <2>1. UNCHANGED Unmoved
      BY <1>6 DEF FirebaseFails, LoginOnly, screenVars, queueVars, Unmoved
  <2>2. pc[t] \in {"signIn", "signInWith", "link"} /\ \A u \in Logins : u # t => pc'[u] = pc[u]
      BY <1>6 DEF FirebaseFails, Go, TypeOK
  <2> DEFINE j == [screen |-> job[t].screen, with |-> job[t].with, user |-> None, password |-> None]
  <2>3. job' = [job EXCEPT ![t] = j]
      BY <1>6 DEF FirebaseFails
  <2>4. job'[t] = j /\ \A u \in Logins : u # t => job'[u] = job[u]
      BY <1>1, <2>3
  <2> QED BY <2>1, <2>2, <2>4 DEF Busy, Under
<1>7. ASSUME NEW e \in Emails, CreateUser(t, e)
      PROVE  /\ Busy(t) /\ pc[t] = "started" /\ UNCHANGED Unmoved
             /\ \A u \in Logins : u # t => pc'[u] = pc[u] /\ job'[u] = job[u]
             /\ job'[t].screen = job[t].screen /\ job'[t].with = job[t].with
  <2>1. UNCHANGED Unmoved
      BY <1>7 DEF CreateUser, LoginOnly, screenVars, queueVars, Unmoved
  <2>2. pc[t] = "started" /\ \A u \in Logins : u # t => pc'[u] = pc[u]
      BY <1>7 DEF CreateUser, Go, TypeOK
  <2>3. job' = [job EXCEPT ![t] = [job[t] EXCEPT !.user = e]]
      BY <1>7, Zenon DEF CreateUser
  <2> DEFINE j == [screen |-> job[t].screen, with |-> job[t].with, user |-> e,
                   password |-> job[t].password]
  <2>4. job' = [job EXCEPT ![t] = j]
      BY <1>1, <2>3, ReplaceUser, Zenon
  <2>5. job'[t] = j /\ \A u \in Logins : u # t => job'[u] = job[u]
      BY <1>1, <2>4
  <2> QED BY <2>1, <2>2, <2>5 DEF Busy, Under
<1>8. CASE \/ \E e \in Emails : CreateUserUnanswered(t, e)
           \/ StoreProfile(t) \/ SignUpFails(t) \/ SignUpReturns(t)
  <2>1. UNCHANGED Unmoved /\ UNCHANGED job
      BY <1>8 DEF CreateUserUnanswered, StoreProfile, SignUpFails, SignUpReturns, LoginOnly, screenVars,
                  queueVars, history, Unmoved
  <2>2. PICK a \in {"started", "profile", "returning"}, b \in Idle \cup Under :
             Go(t, a, b) /\ (a = "returning" => b = "done")
      BY <1>8 DEF CreateUserUnanswered, StoreProfile, SignUpFails, SignUpReturns, Idle, Under
  <2> QED BY <2>1, <2>2 DEF Go, TypeOK, Busy, Under
<1> QED BY <1>2, <1>3, <1>4, <1>5, <1>6, <1>7, <1>8 DEF Step, Answer, Traps

\* A press or a right face starts log-ins that were not used before.
LEMMA StartMoves ==
    ASSUME TypeOK, NEW ts \in SUBSET Logins, NEW s, NEW w, Starts(ts, s, w)
    PROVE  \A t \in Logins : \/ pc[t] = "none" /\ pc'[t] = "started"
                             \/ pc'[t] = pc[t] /\ job'[t] = job[t]
BY DEF Starts, TypeOK

\* The trap leaves nothing under way and nothing to report.
LEMMA TrapMoves ==
    ASSUME TypeOK, NEW t \in Logins, Traps(t)
    PROVE  /\ \A u \in Logins : pc'[u] = IF pc[u] = "none" THEN "none" ELSE "lost"
           /\ \A u \in Logins : ~Busy(u)'
           /\ root' = "login" /\ success' = {} /\ evaluating' = {} /\ signUps' = {}
           /\ switches' = 0 /\ arrivals' = 0
           /\ UNCHANGED <<job, authVars, history>>
<1>1. Relaunched
    BY DEF Traps, AppleTraps, SignUpTraps
<1> QED BY <1>1 DEF Relaunched, TypeOK, Busy, Under

-----------------------------------------------------------------------------
(***************************************************************************)
(* The timer.                                                              *)
(***************************************************************************)
LEMMA WatchStep ==
    ASSUME TypeOK, StepsInv, WatchInv, [Next]_vars
    PROVE  WatchInv'
<1> SUFFICES ASSUME ~armed', ~raced'
             PROVE  /\ root' # "home" /\ switches' = 0 /\ arrivals' = 0 /\ evaluating' = {}
                    /\ \A t \in Logins : ~Busy(t)'
    BY DEF WatchInv, Busy
<1> DEFINE Calm == /\ root # "home" /\ switches = 0 /\ arrivals = 0 /\ evaluating = {}
                   /\ \A t \in Logins : ~Busy(t)
<1>0. armed' = armed /\ raced' = raced => Calm
    BY DEF WatchInv, Busy, TypeOK
<1> HIDE DEF Calm
<1>1. CASE UNCHANGED vars
  <2>1. Calm
      BY <1>0, <1>1 DEF vars, history
  <2> QED BY <1>1, <2>1 DEF Calm, vars, screenVars, queueVars, loginVars, Busy
<1>2. CASE TouchEnds
    BY <1>2, Zenon DEF TouchEnds
<1>3. CASE Expire
  <2>1. ~(switches > 0 \/ arrivals > 0 \/ evaluating # {} \/ \E t \in Logins : Busy(t))
      BY <1>3, Zenon DEF Expire, UnderWay
  <2>2. /\ root' = "login" /\ evaluating' = evaluating /\ switches' = switches
        /\ arrivals' = arrivals /\ pc' = pc
      BY <1>3 DEF Expire, NewLoginScreen, loginVars
  <2>3. switches = 0 /\ arrivals = 0
      BY <2>1 DEF TypeOK
  <2> QED BY <2>1, <2>2, <2>3 DEF Busy
<1>4. CASE Shake
  <2>1. Calm
      BY <1>0, <1>4 DEF Shake, history
  <2> QED BY <1>4, <2>1 DEF Calm, Shake, NewLoginScreen, loginVars, Busy
<1>5. CASE SwitchToArtHome \/ ArriveAtArtHome
  <2>1. Calm /\ (switches > 0 \/ arrivals > 0)
      BY <1>0, <1>5 DEF SwitchToArtHome, ArriveAtArtHome, ShowArtHome, history
  <2> QED BY <2>1 DEF Calm
<1>6. ASSUME NEW s \in Screens, NEW e \in Emails \cup {None}, Prefill(s, e)
      PROVE  /\ root' # "home" /\ switches' = 0 /\ arrivals' = 0 /\ evaluating' = {}
             /\ \A t \in Logins : ~Busy(t)'
  <2>1. Calm
      BY <1>0, <1>6 DEF Prefill, history
  <2> QED BY <1>6, <2>1 DEF Calm, Prefill, queueVars, loginVars, Busy
<1>7. ASSUME NEW s \in Screens, NEW t \in Logins, FaceIsRight(s, t)
      PROVE  FALSE
  <2>1. Calm /\ s \in evaluating
      BY <1>0, <1>7 DEF FaceIsRight
  <2> QED BY <2>1 DEF Calm
<1>8. ASSUME NEW t \in Logins, Traps(t)
      PROVE  /\ root' # "home" /\ switches' = 0 /\ arrivals' = 0 /\ evaluating' = {}
             /\ \A u \in Logins : ~Busy(u)'
    BY <1>8, TrapMoves
<1>9. ASSUME NEW t \in Logins, Step(t), ~Traps(t)
      PROVE  FALSE
  <2>1. Busy(t) /\ armed' = armed /\ raced' = raced
      BY <1>9, StepMoves DEF Unmoved, history
  <2> QED BY <1>0, <2>1 DEF Calm
<1>10. Touch \/ LogOut \/ PressWithoutEmail \/ PressFaceID \/ PushSignUp \/ PopSignUp => TouchEnds
    BY DEF Touch, LogOut, PressWithoutEmail, PressFaceID, PushSignUp, PopSignUp
<1>11. /\ \A e \in Emails, t \in Logins : PressWithoutPassword(e, t) => TouchEnds
       /\ \A e, p \in Emails, t, u \in Logins : PressLogIn(e, p, t, u) => TouchEnds
       /\ \A i \in Identities, t \in Logins : PressSocial(i, t) => TouchEnds
       /\ \A t \in Logins : PressSignUp(t) => TouchEnds
    BY DEF PressWithoutPassword, PressLogIn, PressSocial, PressSignUp
<1>12. ASSUME NEW s \in Screens, FaceIsWrong(s)
       PROVE  FALSE
  <2>1. Calm /\ s \in evaluating
      BY <1>0, <1>12 DEF FaceIsWrong, history
  <2> QED BY <2>1 DEF Calm
<1> QED
    BY <1>1, <1>2, <1>3, <1>4, <1>5, <1>6, <1>7, <1>8, <1>9, <1>10, <1>11, <1>12
       DEF Next, User, Face, Fetch

-----------------------------------------------------------------------------
(***************************************************************************)
(* The log-out.                                                            *)
(***************************************************************************)

\* Nothing is quiet any more once a log-in is started.
LEMMA StartsBreakQuiet ==
    ASSUME NEW ts, NEW s, NEW w, Starts(ts, s, w)
    PROVE  QuietInv'
BY Zenon DEF Starts, QuietInv

\* A step that makes somebody current is one of a Task that has signed in, and a Task
\* that has stays so.
LEMMA UserMoves ==
    ASSUME TypeOK, StepsInv, NEW t \in Logins, Step(t), ~Traps(t)
    PROVE  /\ currentUser' = currentUser \/ SignedIn(t)'
           /\ SignedIn(t) => SignedIn(t)'
<1> USE SetsAssumption
<1>0. /\ Busy(t) /\ job'[t].with = job[t].with /\ (pc[t] = "returning" => pc'[t] = "done")
      /\ SignsUp(t)' <=> SignsUp(t)
    BY StepMoves DEF SignsUp, With
<1>1. CASE \/ AskProvider(t) \/ ZaloRefuses(t) \/ Return(t) \/ ProviderGrants(t) \/ ProviderErrs(t)
           \/ ProviderGivesNothing(t) \/ Link(t) \/ StoreProfile(t) \/ SignUpFails(t)
           \/ SignUpReturns(t) \/ \E e \in Emails : CreateUserUnanswered(t, e)
  <2>1. currentUser' = currentUser /\ job' = job
      BY <1>1 DEF AskProvider, ZaloRefuses, Return, ProviderGrants, ProviderErrs,
                  ProviderGivesNothing, Link, StoreProfile, SignUpFails, SignUpReturns,
                  CreateUserUnanswered, authVars
  <2> QED BY <1>0, <2>1 DEF SignedIn, Busy, Under
<1>2. CASE ReadForm(t) \/ FirebaseLogin(t) \/ FirebaseFails(t)
  <2>1. currentUser' = currentUser
      BY <1>2 DEF ReadForm, FirebaseLogin, FirebaseFails, authVars
  <2>2. pc[t] \notin {"returning", "done", "lost"}
      BY <1>2 DEF ReadForm, FirebaseLogin, FirebaseFails, Go
  <2>3. ~SignsUp(t)
      BY <1>2, ProviderAssumption DEF ReadForm, FirebaseLogin, FirebaseFails, Go, StepsInv, Mode, Social,
                                      SignsUp
  <2> QED BY <2>1, <2>2, <2>3 DEF SignedIn
<1>3. CASE SignIn(t) \/ SignInWith(t)
  <2>1. pc'[t] = "returning"
      BY <1>3 DEF SignIn, SignInWith, Go, TypeOK
  <2> QED BY <2>1 DEF SignedIn
<1>4. ASSUME NEW e \in Emails, CreateUser(t, e)
      PROVE  SignedIn(t)'
  <2>1. SignsUp(t) /\ job[t] \in Jobs
      BY <1>4, JobType DEF CreateUser
  <2>2. job' = [job EXCEPT ![t] = [job[t] EXCEPT !.user = e]]
      BY <1>4, Zenon DEF CreateUser
  <2> DEFINE j == [screen |-> job[t].screen, with |-> job[t].with, user |-> e,
                   password |-> job[t].password]
  <2>3. job' = [job EXCEPT ![t] = j]
      BY <2>1, <2>2, ReplaceUser, Zenon
  <2>4. job'[t].user = e
      BY <2>3 DEF TypeOK
  <2> QED BY <1>0, <2>1, <2>4 DEF SignedIn
<1> QED BY <1>1, <1>2, <1>3, <1>4 DEF Step, Answer, Traps

LEMMA QuietStep ==
    ASSUME TypeOK, StepsInv, QuietInv, [Next]_vars
    PROVE  QuietInv'
<1>1. ASSUME UNCHANGED <<quiet, late, pc, job, currentUser>>
      PROVE  QuietInv'
    BY <1>1 DEF QuietInv, LogOutHolds, SignedIn, SignsUp, With, Busy
<1>2. CASE LogOut
  <2>1. currentUser' = None /\ pc' = pc /\ late' = {t \in Logins : Busy(t)}
      BY <1>2 DEF LogOut, loginVars
  <2> QED BY <2>1 DEF QuietInv, LogOutHolds, Busy
<1>3. ASSUME NEW t \in Logins, Traps(t)
      PROVE  QuietInv'
  <2>1. quiet' = quiet /\ late' = late /\ currentUser' = currentUser
      BY <1>3, TrapMoves DEF history, authVars
  <2>2. \A u \in Logins : pc'[u] = IF pc[u] = "none" THEN "none" ELSE "lost"
      BY <1>3, TrapMoves
  <2>3. \A u \in Logins : ~Busy(u)'
      BY <1>3, TrapMoves
  <2>4. quiet /\ currentUser # None => \E u \in late : pc'[u] = "lost"
      BY <2>2 DEF QuietInv, LogOutHolds, SignedIn, StepsInv, TypeOK
  <2> QED BY <2>1, <2>3, <2>4 DEF QuietInv, LogOutHolds, SignedIn, Busy
<1>4. ASSUME NEW t \in Logins, Step(t), ~Traps(t)
      PROVE  QuietInv'
  <2>1. quiet' = quiet /\ late' = late /\ Busy(t)
      BY <1>4, StepMoves DEF Unmoved, history
  <2>2. \A u \in Logins : u # t => pc'[u] = pc[u] /\ (SignedIn(u)' <=> SignedIn(u))
      BY <1>4, StepMoves DEF SignedIn, SignsUp, With
  <2>3. quiet => t \in late /\ \A u \in Logins : Busy(u)' => u \in late
      BY <2>1, <2>2 DEF QuietInv, Busy
  <2>4. ASSUME quiet, currentUser' # None
        PROVE  \E u \in late : SignedIn(u)'
    <3>1. CASE SignedIn(t)'
        BY <2>3, <2>4, <3>1
    <3>2. CASE currentUser' = currentUser
      <4>1. PICK u \in late : SignedIn(u)
          BY <2>4, <3>2 DEF QuietInv, LogOutHolds
      <4>2. u \in Logins
          BY <4>1 DEF TypeOK
      <4>3. SignedIn(u)'
          BY <1>4, <2>2, <4>1, <4>2, UserMoves
      <4> QED BY <4>1, <4>3
    <3> QED BY <1>4, <3>1, <3>2, UserMoves
  <2>5. QuietInv' <=> (quiet' => /\ \A u \in Logins : Busy(u)' => u \in late'
                                 /\ (currentUser' # None => \E u \in late' : SignedIn(u)'))
      BY DEF QuietInv, LogOutHolds
  <2> QED BY <2>1, <2>3, <2>4, <2>5
<1>5. /\ \A e \in Emails, t \in Logins : PressWithoutPassword(e, t) => QuietInv'
      /\ \A e, p \in Emails, t, u \in Logins : PressLogIn(e, p, t, u) => QuietInv'
      /\ \A i \in Identities, t \in Logins : PressSocial(i, t) => QuietInv'
      /\ \A s \in Screens, t \in Logins : FaceIsRight(s, t) => QuietInv'
      /\ \A t \in Logins : PressSignUp(t) => QuietInv'
    BY StartsBreakQuiet DEF PressWithoutPassword, PressLogIn, PressSocial, FaceIsRight, PressSignUp
<1>6. UNCHANGED vars \/ Touch \/ Shake \/ PressWithoutEmail \/ PressFaceID \/ PushSignUp \/ PopSignUp
      \/ Expire \/ SwitchToArtHome \/ ArriveAtArtHome => UNCHANGED <<quiet, late, pc, job, currentUser>>
    BY DEF vars, Touch, Shake, PressWithoutEmail, PressFaceID, PushSignUp, PopSignUp, Expire,
           SwitchToArtHome, ArriveAtArtHome, ShowArtHome, loginVars, authVars, history
<1>7. ASSUME NEW s \in Screens, FaceIsWrong(s) \/ Fetch(s)
      PROVE  UNCHANGED <<quiet, late, pc, job, currentUser>>
    BY <1>7 DEF FaceIsWrong, Fetch, Prefill, loginVars, authVars, history
<1> QED BY <1>1, <1>2, <1>3, <1>4, <1>5, <1>6, <1>7 DEF Next, User, Face

-----------------------------------------------------------------------------
(***************************************************************************)
(* Linked identities.                                                      *)
(***************************************************************************)

\* An identity that is attached stays so.
LEMMA StaysAttached ==
    ASSUME TypeOK, StepsInv, [Next]_vars, NEW i \in Identities, linked[i] # None
    PROVE  linked'[i] # None
<1> USE SetsAssumption
<1>1. ASSUME NEW t \in Logins, SignInWith(t)
      PROVE  linked'[i] # None
  <2>1. With(t) \in Identities
      BY <1>1, JobType DEF SignInWith, Go, StepsInv
  <2> QED BY <1>1, <2>1 DEF SignInWith, TypeOK
<1>2. ASSUME NEW t \in Logins, Link(t)
      PROVE  linked'[i] # None
    BY <1>2 DEF Link, TypeOK
<1>3. ASSUME NEW t \in Logins, Step(t), ~SignInWith(t), ~Link(t)
      PROVE  linked' = linked
    BY <1>3 DEF Step, Answer, ReadForm, FirebaseLogin, AskProvider, ZaloRefuses, Return,
                ProviderGrants, ProviderErrs, ProviderGivesNothing, SignIn, AppleTraps, SignUpTraps,
                Relaunched, CreateUser, CreateUserUnanswered, StoreProfile, SignUpFails, SignUpReturns,
                FirebaseFails, authVars
<1>4. UNCHANGED vars \/ User \/ Expire \/ SwitchToArtHome \/ ArriveAtArtHome => linked' = linked
    BY DEF vars, User, Touch, Shake, LogOut, PressWithoutEmail, PressFaceID, PushSignUp, PopSignUp,
           PressWithoutPassword, PressLogIn, PressSocial, PressSignUp, Expire, SwitchToArtHome,
           ArriveAtArtHome, ShowArtHome, authVars
<1>5. ASSUME NEW s \in Screens, Face(s) \/ Fetch(s)
      PROVE  linked' = linked
    BY <1>5 DEF Face, FaceIsWrong, FaceIsRight, Fetch, Prefill, authVars
<1> QED BY <1>1, <1>2, <1>3, <1>4, <1>5 DEF Next

\* The presses and the right face that start log-ins.
Start ==
    \/ \E e \in Emails, t \in Logins : PressWithoutPassword(e, t)
    \/ \E e, p \in Emails, t, u \in Logins : PressLogIn(e, p, t, u)
    \/ \E i \in Identities, t \in Logins : PressSocial(i, t)
    \/ \E s \in Screens, t \in Logins : FaceIsRight(s, t)
    \/ \E t \in Logins : PressSignUp(t)

LEMMA StartStarts ==
    ASSUME TypeOK, Start
    PROVE  \E ts \in SUBSET Logins, s \in Screens \cup {None}, w \in Identities \cup {"email", "new"} :
              ts # {} /\ Starts(ts, s, w)
<1>1. CASE \E e \in Emails, t \in Logins : PressWithoutPassword(e, t)
  <2>1. PICK t \in Logins : Starts({t}, screen, "email")
      BY <1>1 DEF PressWithoutPassword
  <2> QED BY <2>1 DEF TypeOK
<1>2. CASE \E e, p \in Emails, t, u \in Logins : PressLogIn(e, p, t, u)
  <2>1. PICK t \in Logins, u \in Logins : Starts({t, u}, screen, "email")
      BY <1>2 DEF PressLogIn
  <2> QED BY <2>1 DEF TypeOK
<1>3. CASE \E i \in Identities, t \in Logins : PressSocial(i, t)
  <2>1. PICK i \in Identities, t \in Logins : Starts({t}, screen, i)
      BY <1>3 DEF PressSocial
  <2> QED BY <2>1 DEF TypeOK
<1>4. CASE \E s \in Screens, t \in Logins : FaceIsRight(s, t)
  <2>1. PICK s \in Screens, t \in Logins : Starts({t}, s, "email")
      BY <1>4 DEF FaceIsRight
  <2> QED BY <2>1
<1>5. CASE \E t \in Logins : PressSignUp(t)
  <2>1. PICK t \in Logins : Starts({t}, None, "new")
      BY <1>5 DEF PressSignUp
  <2> QED BY <2>1
<1> QED BY <1>1, <1>2, <1>3, <1>4, <1>5 DEF Start

LEMMA StartEffect ==
    ASSUME TypeOK, Start
    PROVE  /\ \A t \in Logins : \/ pc[t] = "none" /\ pc'[t] = "started"
                                \/ pc'[t] = pc[t] /\ job'[t] = job[t]
           /\ \A t \in signUps' : t \in signUps \/ pc'[t] = "started"
           /\ UNCHANGED <<root, screen, success, switches, arrivals, currentUser, accounts, linked,
                          overtaken>>
<1>1. PICK ts \in SUBSET Logins, s \in Screens \cup {None}, w \in Identities \cup {"email", "new"} :
           Starts(ts, s, w)
    BY StartStarts
<1>2. UNCHANGED <<root, screen, success, switches, arrivals, currentUser, accounts, linked, overtaken>>
    BY DEF Start, PressWithoutPassword, PressLogIn, PressSocial, FaceIsRight, PressSignUp, screenVars,
           queueVars, authVars
<1>3. \A t \in signUps' : t \in signUps \/ pc'[t] = "started"
    BY DEF Start, PressWithoutPassword, PressLogIn, PressSocial, FaceIsRight, PressSignUp, Starts,
           queueVars
<1> QED BY <1>1, <1>2, <1>3, StartMoves

\* The session's steps by what they do to the log-ins.
LEMMA NextKinds ==
    ASSUME TypeOK, StepsInv, [Next]_vars
    PROVE  UNCHANGED loginVars \/ Start \/ \E t \in Logins : Step(t)
<1>1. UNCHANGED vars \/ Touch \/ Shake \/ LogOut \/ PressWithoutEmail \/ PressFaceID \/ PushSignUp
      \/ PopSignUp \/ Expire \/ SwitchToArtHome \/ ArriveAtArtHome => UNCHANGED loginVars
    BY DEF vars, Touch, Shake, LogOut, PressWithoutEmail, PressFaceID, PushSignUp, PopSignUp, Expire,
           SwitchToArtHome, ArriveAtArtHome, ShowArtHome
<1>2. ASSUME NEW s \in Screens, FaceIsWrong(s) \/ Fetch(s)
      PROVE  UNCHANGED loginVars
    BY <1>2 DEF FaceIsWrong, Fetch, Prefill
<1> QED BY <1>1, <1>2 DEF Next, User, Face, Start

\* A log-in that has linked its identity had done so before, or does it now.
LEMMA LinkedBefore ==
    ASSUME TypeOK, StepsInv, [Next]_vars, NEW t \in Logins, HasLinked(t)'
    PROVE  /\ job'[t].with = job[t].with
           /\ With(t) \in Identities
           /\ HasLinked(t) \/ Link(t)
<1>1. /\ pc'[t] \in {"returning", "done"} /\ Social(t)' /\ ~Zalo(t)' /\ job'[t].user # None
    BY DEF HasLinked
<1>2. CASE pc'[t] = pc[t] /\ job'[t] = job[t]
  <2>1. HasLinked(t) /\ job'[t].with = job[t].with
      BY <1>1, <1>2 DEF HasLinked, Zalo, Social, With
  <2> QED BY <2>1, JobType DEF HasLinked
<1>3. CASE Step(t) /\ ~Traps(t)
  <2>1. job'[t].with = job[t].with
      BY <1>3, StepMoves
  <2>2. Social(t) /\ ~Zalo(t) /\ With(t) \in Identities
      BY <1>1, <2>1, JobType DEF Zalo, Social, With
  <2>3. ~(ReadForm(t) \/ FirebaseLogin(t) \/ AskProvider(t) \/ ZaloRefuses(t) \/ ProviderErrs(t)
          \/ ProviderGivesNothing(t) \/ FirebaseFails(t))
      BY <1>1 DEF ReadForm, FirebaseLogin, AskProvider, ZaloRefuses, ProviderErrs,
                  ProviderGivesNothing, FirebaseFails, Go, TypeOK
  <2>4. ~SignIn(t)
      BY <2>2, SetsAssumption DEF SignIn, Go, StepsInv
  <2>8. ~(SignUpFails(t) \/ StoreProfile(t) \/ SignUpReturns(t)
          \/ \E e \in Emails : CreateUser(t, e) \/ CreateUserUnanswered(t, e))
      BY <2>2, JobType DEF SignUpFails, StoreProfile, SignUpReturns, CreateUser, CreateUserUnanswered, Go,
                           StepsInv
  <2>5. ~ProviderGrants(t)
      BY <1>1, <2>2 DEF ProviderGrants, Go, TypeOK, Mode, Zalo
  <2>6. ~SignInWith(t)
      BY <1>1 DEF SignInWith, Go, StepsInv
  <2>7. Return(t) => HasLinked(t)
      BY <1>1, <2>2 DEF Return, Go, HasLinked
  <2> QED BY <1>3, <2>1, <2>2, <2>3, <2>4, <2>5, <2>6, <2>7, <2>8 DEF Step, Answer, Traps
<1>4. ASSUME NEW u \in Logins, Step(u), u # t, ~Traps(u)
      PROVE  pc'[t] = pc[t] /\ job'[t] = job[t]
    BY <1>4, StepMoves
<1>5. ASSUME NEW u \in Logins, Traps(u)
      PROVE  FALSE
    BY <1>1, <1>5, TrapMoves
<1>6. UNCHANGED loginVars => pc'[t] = pc[t] /\ job'[t] = job[t]
    BY DEF loginVars
<1> QED BY <1>1, <1>2, <1>3, <1>4, <1>5, <1>6, NextKinds, StartEffect

LEMMA LinkStep ==
    ASSUME TypeOK, StepsInv, LinkInv, [Next]_vars
    PROVE  LinkInv'
<1> USE SetsAssumption
<1>1. ASSUME NEW t \in Logins, Link(t), With(t) \in Identities
      PROVE  linked[With(t)] = None /\ linked'[With(t)] # None
  <2>1. job[t].user \in Accounts
      BY <1>1 DEF Link, Go, StepsInv
  <2> QED BY <1>1, <2>1 DEF Link, TypeOK, Accounts
<1>2. ASSUME NEW t \in Logins, NEW u \in Logins, Link(t), Link(u)
      PROVE  t = u
    BY <1>2 DEF Link, Go, TypeOK
<1>3. ASSUME NEW t \in Logins, HasLinked(t)'
      PROVE  linked'[job'[t].with] # None
  <2>1. /\ job'[t].with = With(t) /\ With(t) \in Identities
        /\ HasLinked(t) \/ Link(t)
      BY <1>3, LinkedBefore DEF With
  <2>2. HasLinked(t) => linked[With(t)] # None
      BY DEF LinkInv
  <2> QED BY <1>1, <2>1, <2>2, StaysAttached
<1>4. ASSUME NEW t \in Logins, NEW u \in Logins, HasLinked(t)', HasLinked(u)',
             job'[t].with = job'[u].with
      PROVE  t = u
  <2>1. /\ job'[t].with = With(t) /\ With(t) \in Identities
        /\ HasLinked(t) \/ Link(t)
      BY <1>4, LinkedBefore DEF With
  <2>2. /\ job'[u].with = With(u) /\ With(u) \in Identities
        /\ HasLinked(u) \/ Link(u)
      BY <1>4, LinkedBefore DEF With
  <2>3. /\ HasLinked(t) => linked[With(t)] # None
        /\ HasLinked(u) => linked[With(u)] # None
        /\ HasLinked(t) /\ HasLinked(u) => t = u
      BY <1>4, <2>1, <2>2 DEF LinkInv
  <2> QED BY <1>1, <1>2, <1>4, <2>1, <2>2, <2>3
<1> QED BY <1>3, <1>4 DEF LinkInv, With

-----------------------------------------------------------------------------
(***************************************************************************)
(* Home and who is signed in.                                              *)
(***************************************************************************)

\* What HomeInv says while it says anything.
NotOnTheWay ==
    /\ root # "home"
    /\ switches = 0
    /\ arrivals = 0
    /\ screen \notin success
    /\ \A t \in Logins : pc[t] \in {"link", "returning"} /\ ~Zalo(t) /\ ~SignsUp(t) =>
                         job[t].screen # screen
    /\ \A t \in signUps : SignsUp(t) => pc[t] \notin {"profile", "returning"}

\* A granted log-in stays an excuse while the log-ins that are over stay over.
LEMMA ExcuseStays ==
    ASSUME Excused, overtaken' = overtaken,
           \A t \in Logins : Succeeded(t) => pc'[t] = pc[t] /\ job'[t] = job[t]
    PROVE  Excused'
BY DEF Excused, Succeeded, Zalo, Social, With

LEMMA HomeStep ==
    ASSUME TypeOK, StepsInv, HomeInv, [Next]_vars
    PROVE  HomeInv'
<1> USE SetsAssumption
<1> SUFFICES ASSUME currentUser' = None, ~Excused'
             PROVE  NotOnTheWay'
    BY DEF HomeInv, NotOnTheWay
<1>0. ASSUME currentUser' = currentUser, overtaken' = overtaken,
             \A t \in Logins : Succeeded(t) => pc'[t] = pc[t] /\ job'[t] = job[t]
      PROVE  NotOnTheWay
    BY <1>0, ExcuseStays DEF HomeInv, NotOnTheWay
<1>1. ASSUME UNCHANGED <<root, screen, success, queueVars, currentUser, overtaken, pc, job>>
      PROVE  NotOnTheWay'
  <2>1. NotOnTheWay
      BY <1>0, <1>1
  <2> QED BY <1>1, <2>1 DEF NotOnTheWay, queueVars, Zalo, Social, SignsUp, With
<1>2. ASSUME NewLoginScreen, switches' = 0, arrivals' = 0, pc' = pc, job' = job
      PROVE  NotOnTheWay'
  <2>1. root' = "login" /\ screen' \notin success' /\ signUps' = {}
        /\ \A t \in Logins : job[t].screen = screen' => ~Busy(t)
      BY <1>2 DEF NewLoginScreen
  <2> QED BY <1>2, <2>1 DEF NotOnTheWay, Busy, Under
<1>3. CASE LogOut
  <2>1. overtaken' = (switches > 0 \/ arrivals > 0)
      BY <1>3 DEF LogOut
  <2>2. ~overtaken'
      BY Zenon DEF Excused
  <2>3. ~(switches > 0) /\ ~(arrivals > 0)
      BY <2>1, <2>2, Zenon
  <2>4. switches' = 0 /\ arrivals' = 0
      BY <1>3, <2>3 DEF LogOut, NewLoginScreen, TypeOK
  <2> QED BY <1>2, <1>3, <2>4 DEF LogOut, loginVars
<1>4. CASE Expire \/ Shake
  <2>1. UNCHANGED <<switches, arrivals, pc, job, currentUser, overtaken>> /\ NewLoginScreen
      BY <1>4 DEF Expire, Shake, NewLoginScreen, loginVars, authVars, history
  <2>2. switches = 0 /\ arrivals = 0
      BY <1>0, <2>1 DEF NotOnTheWay
  <2> QED BY <1>2, <2>1, <2>2
<1>5. CASE Start
  <2>1. /\ UNCHANGED <<root, screen, success, switches, arrivals, currentUser, overtaken>>
        /\ \A t \in signUps' : t \in signUps \/ pc'[t] = "started"
        /\ \A t \in Logins : \/ pc[t] = "none" /\ pc'[t] = "started"
                             \/ pc'[t] = pc[t] /\ job'[t] = job[t]
      BY <1>5, StartEffect
  <2>2. NotOnTheWay
      BY <1>0, <2>1 DEF Succeeded
  <2> QED BY <2>1, <2>2 DEF NotOnTheWay, Zalo, Social, SignsUp, With, TypeOK
<1>6. CASE PopSignUp
  <2>1. UNCHANGED <<root, screen, success, currentUser, overtaken, pc, job>>
      BY <1>6 DEF PopSignUp, loginVars, authVars
  <2>2. NotOnTheWay
      BY <1>0, <2>1
  <2>3. switches' = 0 /\ arrivals' = 0 /\ signUps' = {}
      BY <1>6, <2>2 DEF PopSignUp, NotOnTheWay
  <2> QED BY <2>1, <2>2, <2>3 DEF NotOnTheWay, Zalo, Social, SignsUp, With
<1>7. CASE SwitchToArtHome \/ ArriveAtArtHome
  <2>1. UNCHANGED <<currentUser, overtaken, pc, job>> /\ (switches > 0 \/ arrivals > 0)
      BY <1>7 DEF SwitchToArtHome, ArriveAtArtHome, ShowArtHome, loginVars, authVars, history
  <2> QED BY <1>0, <2>1 DEF NotOnTheWay
<1>8. ASSUME NEW t \in Logins, Traps(t)
      PROVE  NotOnTheWay'
  <2>1. root' = "login" /\ success' = {} /\ switches' = 0 /\ arrivals' = 0 /\ signUps' = {}
      BY <1>8, TrapMoves
  <2>2. \A u \in Logins : pc'[u] \notin {"link", "returning"}
      BY <1>8, TrapMoves
  <2> QED BY <2>1, <2>2 DEF NotOnTheWay
<1>9. ASSUME NEW t \in Logins, Step(t), ~Traps(t)
      PROVE  NotOnTheWay'
  <2>1. /\ Busy(t) /\ UNCHANGED <<root, screen, signUps, overtaken>>
        /\ \A u \in Logins : u # t => pc'[u] = pc[u] /\ job'[u] = job[u]
        /\ job'[t].screen = job[t].screen /\ job'[t].with = job[t].with
      BY <1>9, StepMoves DEF Unmoved, history
  <2>2. ~SignIn(t)
      BY DEF SignIn, TypeOK, SetsAssumption
  <2>3. ~SignInWith(t)
    <3>1. SignInWith(t) => With(t) \in Identities
        BY JobType DEF SignInWith, Go, StepsInv
    <3> QED BY <3>1 DEF SignInWith, TypeOK
  <2>10. \A e \in Emails : ~CreateUser(t, e)
      BY DEF CreateUser
  <2>4. currentUser' = currentUser
      BY <1>9, <2>2, <2>3, <2>10 DEF Step, Answer, Traps, ReadForm, FirebaseLogin, AskProvider,
         ZaloRefuses, Return, ProviderGrants, ProviderErrs, ProviderGivesNothing, Link, FirebaseFails,
         CreateUserUnanswered, StoreProfile, SignUpFails, SignUpReturns, authVars
  <2>5. NotOnTheWay
      BY <1>0, <2>1, <2>4 DEF Succeeded, Busy, Under
  <2>6. (Zalo(t)' <=> Zalo(t)) /\ (SignsUp(t)' <=> SignsUp(t))
      BY <2>1 DEF Zalo, Social, SignsUp, With
  <2>11. t \in signUps => pc'[t] \notin {"profile", "returning"} \/ ~SignsUp(t)
    <3>1. StoreProfile(t) => t \notin signUps
        BY <2>5 DEF StoreProfile, Go, StepsInv, NotOnTheWay
    <3>2. SignUpFails(t) \/ SignUpReturns(t) \/ (\E e \in Emails : CreateUserUnanswered(t, e))
          => pc'[t] \in {"failed", "done"}
        BY DEF SignUpFails, SignUpReturns, CreateUserUnanswered, Go, TypeOK
    <3>3. Return(t) \/ ReadForm(t) \/ SignIn(t) \/ AskProvider(t) \/ Answer(t) \/ FirebaseLogin(t)
          \/ SignInWith(t) \/ Link(t) \/ FirebaseFails(t) => ~SignsUp(t) \/ pc'[t] \notin {"profile", "returning"}
      <4>1. Return(t) => ~SignsUp(t)
          BY DEF Return
      <4>2. ReadForm(t) \/ AskProvider(t) => pc'[t] \notin {"profile", "returning"}
          BY DEF ReadForm, AskProvider, Go, TypeOK
      <4>3. SignIn(t) \/ Answer(t) \/ FirebaseLogin(t) \/ SignInWith(t) \/ Link(t) \/ FirebaseFails(t)
            => pc[t] \in {"signIn", "provider", "credential", "signInWith", "link"}
          BY DEF SignIn, Answer, ProviderGrants, ProviderErrs, ZaloRefuses, ProviderGivesNothing,
                 AppleTraps, FirebaseLogin, SignInWith, Link, FirebaseFails, Go
      <4>4. pc[t] \in {"signIn", "provider", "credential", "signInWith", "link"} => ~SignsUp(t)
          BY JobType DEF StepsInv, SignsUp
      <4> QED BY <4>1, <4>2, <4>3, <4>4
    <3> QED BY <1>9, <2>10, <3>1, <3>2, <3>3 DEF Step, Traps
  <2>7. pc'[t] \in {"link", "returning"} /\ ~Zalo(t) /\ ~SignsUp(t) => job[t].screen # screen
    <3>1. FirebaseLogin(t) => pc'[t] = "signInWith"
        BY <2>4 DEF FirebaseLogin, Go, TypeOK
    <3>2. ProviderGrants(t) /\ ~Zalo(t) => pc'[t] = "credential"
      <4>1. ~Social(t) => With(t) \in {"email", "new"}
          BY JobType DEF Social, With, TypeOK
      <4>2. ~Zalo(t) => Mode(t) # "zalo"
          BY <4>1 DEF Mode, Zalo
      <4> QED BY <4>2 DEF ProviderGrants, Go, TypeOK
    <3>3. ReadForm(t) \/ AskProvider(t) \/ ZaloRefuses(t) \/ ProviderErrs(t) \/ Return(t)
          \/ ProviderGivesNothing(t) \/ FirebaseFails(t) => pc'[t] \notin {"link", "returning"}
        BY DEF ReadForm, AskProvider, ZaloRefuses, ProviderErrs, Return, ProviderGivesNothing,
               FirebaseFails, Go, TypeOK
    <3>4. Link(t) /\ ~Zalo(t) /\ ~SignsUp(t) => job[t].screen # screen
        BY <2>5 DEF Link, Go, NotOnTheWay
    <3>5. StoreProfile(t) => SignsUp(t)
        BY DEF StoreProfile, Go, StepsInv
    <3>6. SignUpFails(t) \/ SignUpReturns(t) \/ (\E e \in Emails : CreateUserUnanswered(t, e))
          => SignsUp(t)
        BY DEF SignUpFails, SignUpReturns, CreateUserUnanswered
    <3> QED BY <1>9, <2>2, <2>3, <2>10, <3>1, <3>2, <3>3, <3>4, <3>5, <3>6 DEF Step, Answer, Traps
  <2>8. screen \notin success' /\ switches' = 0 /\ arrivals' = 0
    <3>1. CASE Return(t)
      <4>1. ~Zalo(t)
        <5>1. pc'[t] = "done"
            BY <3>1 DEF Return, Go, TypeOK
        <5>2. Zalo(t)' => Excused'
            BY <5>1 DEF Excused, Succeeded
        <5> QED BY <2>6, <5>2
      <4>2. job[t].screen # screen
          BY <2>5, <3>1, <4>1 DEF Return, Go, NotOnTheWay
      <4> QED BY <2>5, <3>1, <4>2 DEF Return, NotOnTheWay
    <3>2. CASE ZaloRefuses(t)
        BY <2>5, <3>2 DEF ZaloRefuses, queueVars, NotOnTheWay
    <3>4. CASE SignUpReturns(t)
      <4>1. t \notin signUps
          BY <2>5, <3>4 DEF SignUpReturns, Go, NotOnTheWay
      <4> QED BY <2>5, <3>4, <4>1 DEF SignUpReturns, screenVars, NotOnTheWay
    <3>3. CASE ~Return(t) /\ ~ZaloRefuses(t) /\ ~SignUpReturns(t)
      <4>1. success' = success /\ switches' = switches /\ arrivals' = arrivals
          BY <1>9, <2>2, <2>3, <2>10, <3>3 DEF Step, Answer, Traps, ReadForm, FirebaseLogin, AskProvider,
             ProviderGrants, ProviderErrs, ProviderGivesNothing, Link, FirebaseFails,
             CreateUserUnanswered, StoreProfile, SignUpFails, LoginOnly, screenVars, queueVars
      <4> QED BY <2>5, <4>1 DEF NotOnTheWay
    <3> QED BY <3>1, <3>2, <3>3, <3>4
  <2>9. ASSUME NEW u \in Logins, u # t
        PROVE  (Zalo(u)' <=> Zalo(u)) /\ (SignsUp(u)' <=> SignsUp(u))
      BY <2>1, <2>9 DEF Zalo, Social, SignsUp, With
  <2>13. ASSUME NEW u \in signUps', SignsUp(u)'
         PROVE  pc'[u] \notin {"profile", "returning"}
    <3>1. u \in signUps /\ u \in Logins
        BY <2>1 DEF TypeOK
    <3> QED BY <2>1, <2>5, <2>6, <2>9, <2>11, <2>13, <3>1 DEF NotOnTheWay
  <2>14. ASSUME NEW u \in Logins, pc'[u] \in {"link", "returning"}, ~Zalo(u)', ~SignsUp(u)'
         PROVE  job'[u].screen # screen'
    BY <2>1, <2>5, <2>6, <2>7, <2>9, <2>14 DEF NotOnTheWay
  <2> QED BY <2>1, <2>5, <2>8, <2>13, <2>14 DEF NotOnTheWay
<1>10. UNCHANGED vars \/ Touch \/ PressWithoutEmail \/ PressFaceID \/ PushSignUp
       => UNCHANGED <<root, screen, success, queueVars, currentUser, overtaken, pc, job>>
    BY DEF vars, Touch, PressWithoutEmail, PressFaceID, PushSignUp, screenVars, loginVars, authVars,
           history
<1>11. ASSUME NEW s \in Screens, FaceIsWrong(s) \/ Fetch(s)
       PROVE  UNCHANGED <<root, screen, success, queueVars, currentUser, overtaken, pc, job>>
    BY <1>11 DEF FaceIsWrong, Fetch, Prefill, loginVars, authVars, history
<1> QED
    BY <1>1, <1>3, <1>4, <1>5, <1>6, <1>7, <1>8, <1>9, <1>10, <1>11 DEF Next, User, Face, Start
-----------------------------------------------------------------------------
(***************************************************************************)
(* The theorems.                                                           *)
(***************************************************************************)
LEMMA IInvInit == Init => IInv
<1> SUFFICES ASSUME Init PROVE IInv
    OBVIOUS
<1>1. TypeOK /\ StepsInv
    BY TypeInit
<1>2. /\ \A t \in Logins : pc[t] = "none"
      /\ root = "login" /\ switches = 0 /\ arrivals = 0 /\ signUps = {} /\ success = {}
      /\ evaluating = {} /\ quiet = FALSE
    BY DEF Init
<1>3. HomeInv /\ WatchInv
    BY <1>2 DEF HomeInv, WatchInv, Busy, Under
<1>4. QuietInv
    BY <1>2, Zenon DEF QuietInv
<1>5. LinkInv
    BY <1>2 DEF LinkInv, HasLinked
<1> QED BY <1>1, <1>3, <1>4, <1>5 DEF IInv

LEMMA IInvStep == IInv /\ [Next]_vars => IInv'
BY TypeStep, HomeStep, WatchStep, QuietStep, LinkStep DEF IInv

\* Whatever log-ins, answers, expiries, log-outs and traps follow each other, IInv
\* holds.
THEOREM IInvHolds == Spec => []IInv
<1>1. Init => IInv
    BY IInvInit
<1>2. IInv /\ [Next]_vars => IInv'
    BY IInvStep
<1> QED BY <1>1, <1>2, PTL DEF Spec

\* The screens, the log-ins and what Firebase holds are well typed: in particular a
\* log-in that links always has an account to link to.
THEOREM TypeCorrect == Spec => []TypeOK
<1>1. IInv => TypeOK
    BY DEF IInv
<1> QED BY <1>1, IInvHolds, PTL

\* Home is shown with nobody signed in only after Zalo's grant or an overtaken log-out,
\* for any number of screens and log-ins (switchToArtHomeViewController).
THEOREM HomeHasUser == Spec => []SignedInAtHome
<1>1. IInv => SignedInAtHome
  <2> SUFFICES ASSUME IInv, root = "home", currentUser = None
               PROVE  overtaken \/ \E t \in Logins : Succeeded(t) /\ Mode(t) = "zalo"
      BY DEF SignedInAtHome
  <2>1. Excused
      BY DEF IInv, HomeInv
  <2> QED BY <2>1 DEF Excused, Zalo, Mode
<1> QED BY <1>1, IInvHolds, PTL

\* After logOut only the late answer of a log-in or of a sign-up that was under way then
\* signs somebody in, until the user starts another one.
THEOREM LogOutIsKept == Spec => []LogOutHolds
<1>1. IInv => LogOutHolds
    BY Zenon DEF IInv, QuietInv, LogOutHolds
<1> QED BY <1>1, IInvHolds, PTL

\* user.link(with:) succeeds once per identity, whatever log-ins race for it.
THEOREM IdentityLinkedOnce == Spec => []LinkedOnce
<1>1. IInv => LinkedOnce
  <2> SUFFICES ASSUME IInv, NEW t \in Logins, NEW u \in Logins,
                      pc[t] \in {"returning", "done"}, pc[u] \in {"returning", "done"},
                      Social(t), Social(u), With(t) = With(u), Provider[With(t)] # "zalo",
                      job[t].user # None, job[u].user # None
               PROVE  t = u
      BY DEF LinkedOnce
  <2>1. HasLinked(t) /\ HasLinked(u)
      BY DEF HasLinked, Zalo
  <2> QED BY <2>1 DEF IInv, LinkInv
<1> QED BY <1>1, IInvHolds, PTL

\* Home is shown without a running session timer only if the timer fired while a
\* log-in was under way (sendEvent, setupTimer).
THEOREM HomeIsWatched == Spec => []WatchedUnlessRaced
<1>1. IInv => WatchedUnlessRaced
    BY Zenon DEF IInv, WatchInv, WatchedUnlessRaced
<1> QED BY <1>1, IInvHolds, PTL

-----------------------------------------------------------------------------
(***************************************************************************)
(* Session implements Authentication.                                      *)
(***************************************************************************)

\* What is reported or on its way to home was granted or completed since the launch,
\* and Zalo's log-ins never come to Firebase.
AnswerInv ==
    /\ success # {} \/ switches > 0 \/ arrivals > 0 => \E t \in Logins : Succeeded(t)
    /\ \A t \in Logins : pc[t] \in {"credential", "signInWith", "link"} => ~Zalo(t)

LEMMA AnswerInit == Init => AnswerInv
BY DEF Init, AnswerInv

LEMMA ReportStep ==
    ASSUME TypeOK, StepsInv, AnswerInv, [Next]_vars, success' # {} \/ switches' > 0 \/ arrivals' > 0
    PROVE  \E t \in Logins : Succeeded(t)'
<1> DEFINE Reported == success # {} \/ switches > 0 \/ arrivals > 0
<1>1. ASSUME Reported, \A t \in Logins : Succeeded(t) => pc'[t] = pc[t]
      PROVE  \E t \in Logins : Succeeded(t)'
    BY <1>1 DEF AnswerInv, Succeeded
<1>2. CASE \/ UNCHANGED vars \/ Touch \/ PressWithoutEmail \/ PressFaceID \/ PushSignUp
           \/ \E s \in Screens : FaceIsWrong(s) \/ Fetch(s)
  <2>1. UNCHANGED <<success, switches, arrivals, pc>>
      BY <1>2 DEF vars, Touch, PressWithoutEmail, PressFaceID, PushSignUp, FaceIsWrong, Fetch, Prefill,
                  screenVars, queueVars, loginVars
  <2> QED BY <1>1, <2>1
<1>3. CASE Shake \/ Expire \/ LogOut
  <2>1. success' \subseteq success /\ UNCHANGED <<switches, arrivals, pc>>
      BY <1>3 DEF Shake, Expire, LogOut, NewLoginScreen, loginVars
  <2> QED BY <1>1, <2>1
<1>4. CASE PopSignUp
  <2>1. success' = success /\ pc' = pc /\ arrivals' = arrivals /\ (screen \in success \/ switches' = switches)
      BY <1>4 DEF PopSignUp, loginVars
  <2> QED BY <1>1, <2>1
<1>5. CASE SwitchToArtHome \/ ArriveAtArtHome
  <2>1. (switches > 0 \/ arrivals > 0) /\ pc' = pc
      BY <1>5 DEF SwitchToArtHome, ArriveAtArtHome, ShowArtHome, loginVars
  <2> QED BY <1>1, <2>1
<1>6. CASE Start
    BY <1>1, <1>6, StartEffect DEF Succeeded
<1>7. ASSUME NEW t \in Logins, Step(t), ~Traps(t)
      PROVE  \E u \in Logins : Succeeded(u)'
  <2>1. \A u \in Logins : Succeeded(u) => pc'[u] = pc[u]
      BY <1>7, StepMoves DEF Succeeded, Busy, Under
  <2>2. CASE Return(t) \/ SignUpReturns(t)
      BY <2>2 DEF Return, SignUpReturns, Go, TypeOK, Succeeded
  <2>3. CASE ~Return(t) /\ ~SignUpReturns(t)
    <3>1. success' \subseteq success /\ switches' = switches /\ arrivals' = arrivals
        BY <1>7, <2>3 DEF Step, Answer, Traps, ReadForm, SignIn, FirebaseLogin, AskProvider, ZaloRefuses,
           ProviderGrants, ProviderErrs, ProviderGivesNothing, SignInWith, Link, FirebaseFails,
           CreateUser, CreateUserUnanswered, StoreProfile, SignUpFails, LoginOnly, screenVars, queueVars
    <3> QED BY <1>1, <2>1, <3>1
  <2> QED BY <2>2, <2>3
<1>8. ASSUME NEW t \in Logins, Traps(t)
      PROVE  FALSE
    BY <1>8, TrapMoves
<1> QED
    BY <1>2, <1>3, <1>4, <1>5, <1>6, <1>7, <1>8 DEF Next, User, Face, Start

LEMMA ZaloStep ==
    ASSUME TypeOK, StepsInv, AnswerInv, [Next]_vars, NEW u \in Logins,
           pc'[u] \in {"credential", "signInWith", "link"}
    PROVE  ~Zalo(u)'
<1>1. CASE pc'[u] = pc[u] /\ job'[u] = job[u]
    BY <1>1 DEF AnswerInv, Zalo, Social, With
<1>2. CASE Step(u) /\ ~Traps(u)
  <2>1. job'[u].with = job[u].with
      BY <1>2, StepMoves
  <2>2. Zalo(u)' <=> Zalo(u)
      BY <2>1 DEF Zalo, Social, With
  <2>3. ProviderGrants(u) => ~Zalo(u)
      BY DEF ProviderGrants, Go, TypeOK, Mode, Zalo
  <2>4. FirebaseLogin(u) => ~Zalo(u)
      BY DEF FirebaseLogin, Go, AnswerInv
  <2>5. ReadForm(u) \/ SignIn(u) \/ AskProvider(u) \/ ZaloRefuses(u) \/ ProviderErrs(u) \/ Return(u)
        \/ ProviderGivesNothing(u) \/ FirebaseFails(u) \/ SignInWith(u) \/ Link(u)
        => pc'[u] \notin {"credential", "signInWith", "link"}
      BY DEF ReadForm, SignIn, AskProvider, ZaloRefuses, ProviderErrs, Return, ProviderGivesNothing,
             FirebaseFails, SignInWith, Link, Go, TypeOK
  <2>6. (\E e \in Emails : CreateUser(u, e) \/ CreateUserUnanswered(u, e)) \/ StoreProfile(u)
        \/ SignUpFails(u) \/ SignUpReturns(u) => pc'[u] \notin {"credential", "signInWith", "link"}
      BY DEF CreateUser, CreateUserUnanswered, StoreProfile, SignUpFails, SignUpReturns, Go, TypeOK
  <2> QED BY <1>2, <2>2, <2>3, <2>4, <2>5, <2>6 DEF Step, Answer, Traps
<1>3. ASSUME NEW t \in Logins, Step(t), t # u, ~Traps(t)
      PROVE  pc'[u] = pc[u] /\ job'[u] = job[u]
    BY <1>3, StepMoves
<1>4. ASSUME NEW t \in Logins, Traps(t)
      PROVE  FALSE
    BY <1>4, TrapMoves
<1>5. UNCHANGED loginVars => pc'[u] = pc[u] /\ job'[u] = job[u]
    BY DEF loginVars
<1> QED BY <1>1, <1>2, <1>3, <1>4, <1>5, NextKinds, StartEffect

LEMMA AnswerStep ==
    ASSUME TypeOK, StepsInv, AnswerInv, [Next]_vars
    PROVE  AnswerInv'
BY ReportStep, ZaloStep DEF AnswerInv

\* What Authentication sees of the log-ins depends on these two only.
LEMMA StageUnchanged ==
    ASSUME UNCHANGED <<pc, job>>
    PROVE  UNCHANGED <<Stage, By>>
BY DEF Stage, By, Busy, With

\* A step of one log-in or sign-up, as Authentication sees it: its stage follows its pc,
\* and nothing else moves.
Seen(p) ==
    IF p = "none" THEN "new"
    ELSE IF p \in {"returning", "done"} THEN "granted"
    ELSE IF p = "profile" THEN "registered"
    ELSE IF p \in Under THEN "asked"
    ELSE IF p = "lost" THEN "lost"
    ELSE "over"

LEMMA StageMoves ==
    ASSUME TypeOK, StepsInv, NEW t \in Logins, Step(t), ~Traps(t)
    PROVE  /\ By' = By /\ root' = root
           /\ Stage[t] = Seen(pc[t])
           /\ Stage' = [Stage EXCEPT ![t] = Seen(pc'[t])]
           /\ Seen(pc'[t]) = Seen(pc[t]) => Stage' = Stage
<1>1. /\ Busy(t) /\ root' = root
      /\ \A u \in Logins : u # t => pc'[u] = pc[u] /\ job'[u] = job[u]
      /\ job'[t].with = job[t].with
    BY StepMoves DEF Unmoved
<1>2. By' = By
    BY <1>1 DEF By, With
<1>3. /\ Stage = [u \in Logins |-> Seen(pc[u])]
      /\ Stage' = [u \in Logins |-> Seen(pc'[u])]
    BY DEF Stage, Seen, Busy
<1> HIDE DEF Stage, Seen
<1> QED BY <1>1, <1>2, <1>3

\* The steps of a log-in or sign-up that reach Firebase or end it.
LEMMA AuthLogin ==
    ASSUME TypeOK, StepsInv, AnswerInv, NEW t \in Logins, Step(t), ~Traps(t)
    PROVE  Auth!Next \/ UNCHANGED <<currentUser, accounts, linked, Stage, By, root>>
<1> USE SetsAssumption
<1>1. /\ By' = By /\ root' = root
      /\ Stage[t] = Seen(pc[t])
      /\ Stage' = [Stage EXCEPT ![t] = Seen(pc'[t])]
      /\ Seen(pc'[t]) = Seen(pc[t]) => Stage' = Stage
    BY StageMoves
<1>2. By[t] = job[t].with
    BY DEF By, With
<1>3. /\ \A p \in {"started", "signIn", "provider", "credential", "signInWith", "link", "hung"} :
             Seen(p) = "asked"
      /\ Seen("returning") = "granted" /\ Seen("done") = "granted" /\ Seen("profile") = "registered"
      /\ Seen("ended") = "over" /\ Seen("failed") = "over"
    BY DEF Seen, Under
<1> HIDE DEF Stage, By
<1>4. ASSUME Seen(pc'[t]) = "over", Seen(pc[t]) \in {"asked", "registered"}, UNCHANGED authVars
      PROVE  Auth!Next
  <2>1. Auth!Refuse(t)
      BY <1>1, <1>4 DEF authVars, Auth!Refuse, Auth!Moves
  <2> QED BY <2>1 DEF Auth!Next
<1>5. ASSUME Seen(pc'[t]) = Seen(pc[t]), UNCHANGED authVars
      PROVE  UNCHANGED <<currentUser, accounts, linked, Stage, By, root>>
    BY <1>1, <1>5 DEF authVars
<1>6. CASE ReadForm(t)
  <2>1. pc[t] = "started" /\ pc'[t] \in {"ended", "signIn"} /\ UNCHANGED authVars
      BY <1>6 DEF ReadForm, Go, TypeOK
  <2> QED BY <1>3, <1>4, <1>5, <2>1
<1>7. CASE AskProvider(t) \/ ProviderGivesNothing(t) \/ FirebaseLogin(t)
  <2>1. pc[t] \in {"started", "provider", "credential"}
        /\ pc'[t] \in {"provider", "hung", "signInWith", "link"} /\ UNCHANGED authVars
      BY <1>7 DEF AskProvider, ProviderGivesNothing, FirebaseLogin, Go, TypeOK
  <2> QED BY <1>3, <1>5, <2>1
<1>8. CASE ProviderErrs(t) \/ ZaloRefuses(t) \/ FirebaseFails(t) \/ SignUpFails(t)
  <2>1. pc[t] \in {"started", "signIn", "provider", "signInWith", "link", "profile"}
        /\ pc'[t] = "failed" /\ UNCHANGED authVars
      BY <1>8 DEF ProviderErrs, ZaloRefuses, FirebaseFails, SignUpFails, Go, TypeOK
  <2> QED BY <1>3, <1>4, <2>1
<1>9. CASE Return(t) \/ SignUpReturns(t)
  <2>1. pc[t] = "returning" /\ pc'[t] = "done" /\ UNCHANGED authVars
      BY <1>9 DEF Return, SignUpReturns, Go, TypeOK
  <2> QED BY <1>3, <1>5, <2>1
<1>10. CASE ProviderGrants(t)
  <2>1. pc[t] = "provider" /\ UNCHANGED authVars
        /\ pc'[t] = IF Mode(t) = "zalo" THEN "returning" ELSE "credential"
      BY <1>10 DEF ProviderGrants, Go, TypeOK
  <2>2. CASE Mode(t) = "zalo"
    <3>1. By[t] \in ZaloIdentities
        BY <1>2, <2>1, <2>2, JobType DEF Mode, With, StepsInv, ZaloIdentities
    <3>2. Auth!Vouch(t)
        BY <1>1, <1>3, <2>1, <2>2, <3>1 DEF authVars, Auth!Vouch, Auth!Granted, Auth!Moves
    <3> QED BY <3>2 DEF Auth!Next
  <2>3. CASE Mode(t) # "zalo"
      BY <1>3, <1>5, <2>1, <2>3
  <2> QED BY <2>2, <2>3
<1>11. CASE SignIn(t)
  <2>1. /\ pc[t] = "signIn" /\ pc'[t] = "returning" /\ job[t].user \in accounts
        /\ currentUser' = job[t].user /\ UNCHANGED <<accounts, linked>>
      BY <1>11 DEF SignIn, Go, TypeOK
  <2>2. By[t] = "email" /\ job[t].user \in Emails
      BY <1>2, <2>1 DEF StepsInv, With, TypeOK
  <2>3. Auth!SignIn(t, job[t].user)
      BY <1>1, <1>3, <2>1, <2>2 DEF Auth!SignIn, Auth!Granted, Auth!Moves
  <2> QED BY <2>2, <2>3 DEF Auth!Next
<1>12. ASSUME pc[t] \in {"signInWith", "link"}
       PROVE  By[t] \in Identities \ ZaloIdentities
  <2>1. Social(t) /\ ~Zalo(t)
      BY <1>12 DEF StepsInv, AnswerInv
  <2> QED BY <1>2, <2>1, JobType DEF Zalo, With, ZaloIdentities
<1>13. CASE SignInWith(t)
  <2>1. /\ pc[t] = "signInWith" /\ pc'[t] = "returning" /\ accounts' = accounts
        /\ currentUser' = IF linked[By[t]] = None THEN By[t] ELSE linked[By[t]]
        /\ linked' = [linked EXCEPT ![By[t]] = currentUser']
      BY <1>2, <1>13 DEF SignInWith, With, Go, TypeOK
  <2>2. Auth!SignInWith(t)
      BY <1>1, <1>3, <1>12, <2>1 DEF Auth!SignInWith, Auth!Granted, Auth!Moves
  <2> QED BY <2>2 DEF Auth!Next
<1>14. CASE Link(t)
  <2>1. /\ pc[t] = "link" /\ pc'[t] = "returning" /\ linked[By[t]] = None
        /\ linked' = [linked EXCEPT ![By[t]] = job[t].user] /\ UNCHANGED <<currentUser, accounts>>
      BY <1>2, <1>14 DEF Link, With, Go, TypeOK
  <2>2. job[t].user \in Auth!Accounts
      BY <2>1 DEF StepsInv, Accounts, Auth!Accounts
  <2>3. Auth!Attach(t, job[t].user)
      BY <1>1, <1>3, <1>12, <2>1 DEF Auth!Attach, Auth!Granted, Auth!Moves
  <2> QED BY <2>2, <2>3 DEF Auth!Next
<1>15. ASSUME NEW e \in Emails, CreateUser(t, e)
       PROVE  Auth!Next
  <2>1. /\ pc[t] = "started" /\ pc'[t] = "profile" /\ By[t] = "new" /\ e \notin accounts
        /\ accounts' = accounts \cup {e} /\ currentUser' = e /\ linked' = linked
      BY <1>2, <1>15 DEF CreateUser, SignsUp, With, Go, TypeOK
  <2>2. Auth!Register(t, e)
      BY <1>1, <1>3, <2>1 DEF Auth!Register, Auth!Moves
  <2> QED BY <2>2 DEF Auth!Next
<1>16. ASSUME NEW e \in Emails, CreateUserUnanswered(t, e)
       PROVE  Auth!Next
  <2>1. /\ pc[t] = "started" /\ pc'[t] = "failed" /\ By[t] = "new" /\ e \notin accounts
        /\ accounts' = accounts \cup {e} /\ UNCHANGED <<currentUser, linked>>
      BY <1>2, <1>16 DEF CreateUserUnanswered, SignsUp, With, Go, TypeOK
  <2>2. Auth!RegisterUnheard(t, e)
      BY <1>1, <1>3, <2>1 DEF Auth!RegisterUnheard, Auth!Moves
  <2> QED BY <2>2 DEF Auth!Next
<1>17. CASE StoreProfile(t)
  <2>1. pc[t] = "profile" /\ pc'[t] = "returning" /\ UNCHANGED authVars
      BY <1>17 DEF StoreProfile, Go, TypeOK
  <2>2. Auth!Complete(t)
      BY <1>1, <1>3, <2>1 DEF authVars, Auth!Complete, Auth!Moves
  <2> QED BY <2>2 DEF Auth!Next
<1> QED
    BY <1>6, <1>7, <1>8, <1>9, <1>10, <1>11, <1>13, <1>14, <1>15, <1>16, <1>17 DEF Step, Answer, Traps

\* Every step of the application is a step of Authentication or none.
LEMMA AuthStep ==
    ASSUME TypeOK, StepsInv, AnswerInv, [Next]_vars
    PROVE  Auth!Next \/ UNCHANGED <<currentUser, accounts, linked, Stage, By, root>>
<1>1. CASE \/ UNCHANGED vars \/ Touch \/ PressWithoutEmail \/ PressFaceID \/ PushSignUp \/ PopSignUp
           \/ \E s \in Screens : FaceIsWrong(s) \/ Fetch(s)
  <2>1. UNCHANGED <<currentUser, accounts, linked, pc, job, root>>
      BY <1>1 DEF vars, Touch, PressWithoutEmail, PressFaceID, PushSignUp, PopSignUp, FaceIsWrong,
                  Fetch, Prefill, screenVars, loginVars, authVars
  <2> QED BY <2>1, StageUnchanged
<1>2. CASE Shake \/ Expire
  <2>1. root' = "login" /\ UNCHANGED <<currentUser, accounts, linked, pc, job>>
      BY <1>2 DEF Shake, Expire, NewLoginScreen, loginVars, authVars
  <2>2. Auth!Leave
      BY <2>1, StageUnchanged DEF Auth!Leave
  <2> QED BY <2>2 DEF Auth!Next
<1>3. CASE LogOut
  <2>1. root = "home" /\ root' = "login" /\ currentUser' = None /\ UNCHANGED <<accounts, linked, pc, job>>
      BY <1>3 DEF LogOut, NewLoginScreen, loginVars
  <2>2. Auth!LogOut
      BY <2>1, StageUnchanged DEF Auth!LogOut
  <2> QED BY <2>2 DEF Auth!Next
<1>4. CASE SwitchToArtHome \/ ArriveAtArtHome
  <2>1. (switches > 0 \/ arrivals > 0) /\ root' = "home" /\ UNCHANGED <<currentUser, accounts, linked, pc, job>>
      BY <1>4 DEF SwitchToArtHome, ArriveAtArtHome, ShowArtHome, loginVars, authVars
  <2>2. \E t \in Logins : Stage[t] = "granted"
      BY <2>1 DEF AnswerInv, Succeeded, Stage
  <2>3. Auth!Enter
      BY <2>1, <2>2, StageUnchanged DEF Auth!Enter
  <2> QED BY <2>3 DEF Auth!Next
<1>5. CASE Start
  <2>1. PICK ts \in SUBSET Logins, s \in Screens \cup {None}, w \in Identities \cup {"email", "new"} :
             ts # {} /\ Starts(ts, s, w)
      BY <1>5, StartStarts
  <2>2. \A t \in Logins : /\ t \in ts => pc[t] = "none" /\ pc'[t] = "started" /\ job'[t].with = w
                          /\ t \notin ts => pc'[t] = pc[t] /\ job'[t] = job[t]
      BY <2>1 DEF Starts
  <2>3. Stage' = [t \in Logins |-> IF t \in ts THEN "asked" ELSE Stage[t]]
      BY <2>2 DEF Stage, Busy, Under
  <2>4. By' = [t \in Logins |-> IF t \in ts THEN w ELSE By[t]]
      BY <2>2 DEF By, With
  <2>5. \A t \in ts : Stage[t] = "new"
      BY <2>2 DEF Stage
  <2>6. Auth!Ask(ts, w)
      BY <1>5, <2>1, <2>3, <2>4, StartEffect DEF Auth!Ask
  <2>7. ts \in SUBSET {t \in Logins : Stage[t] = "new"}
      BY <2>5
  <2> QED BY <2>1, <2>6, <2>7 DEF Auth!Next
<1>6. ASSUME NEW t \in Logins, Traps(t)
      PROVE  Auth!Next
  <2>1. root' = "login" /\ UNCHANGED <<currentUser, accounts, linked, job>>
      BY <1>6, TrapMoves DEF authVars
  <2>2. Stage' = [u \in Logins |-> IF Stage[u] = "new" THEN "new" ELSE "lost"]
      BY <1>6, TrapMoves DEF Stage, Busy, Under
  <2>3. By' = By
      BY <2>1 DEF By, With
  <2>4. Auth!Relaunch
      BY <2>1, <2>2, <2>3 DEF Auth!Relaunch
  <2> QED BY <2>4 DEF Auth!Next
<1> QED
    BY <1>1, <1>2, <1>3, <1>4, <1>5, <1>6, AuthLogin DEF Next, User, Face, Start

\* Session implements Authentication: whatever Tasks race, screens are replaced and
\* processes end, home follows a grant or a completed sign-up since the launch, only
\* grants, new accounts and log-outs change who is signed in, an e-mail gets an account
\* once and an identity is attached once (firebaseLogin, createUser, logOut,
\* switchToArtHomeViewController).
THEOREM SessionImplements == Spec => ImplementsAuthentication
<1>1. Init => Auth!Init
  <2> SUFFICES ASSUME Init PROVE Auth!Init
      OBVIOUS
  <2>1. currentUser \in Accounts \cup {None} /\ accounts \subseteq Emails /\ linked \in [Identities -> Accounts \cup {None}]
      BY TypeInit DEF TypeOK
  <2>2. Stage = [t \in Logins |-> "new"] /\ By = [t \in Logins |-> "email"]
      BY DEF Init, Stage, By, With, NoJob
  <2> QED BY <2>1, <2>2 DEF Init, Auth!Init, Accounts, Auth!Accounts
<1>2. IInv /\ AnswerInv /\ [Next]_vars => AnswerInv'
    BY AnswerStep DEF IInv
<1>3. IInv /\ AnswerInv /\ [Next]_vars => [Auth!Next]_(Auth!vars)
    BY AuthStep DEF IInv, Auth!vars
<1> QED
    BY <1>1, <1>2, <1>3, AnswerInit, IInvHolds, PTL DEF Spec, ImplementsAuthentication, Auth!Spec
=============================================================================
