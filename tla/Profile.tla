------------------------------ MODULE Profile -------------------------------
(***************************************************************************)
(* The profile of the current user and Face ID enrolment:                  *)
(* SettingsViewController with its SettingsViewModel, the users saved in   *)
(* Core Data (UserInformationViewModel), FaceIDPasswordViewController and  *)
(* the keychain (KeychainManager).  Every appearance of the settings       *)
(* screen starts a Task that fetches the profile; the Tasks of one screen  *)
(* share its view model, and all of them the Core Data context.            *)
(*                                                                         *)
(* A user is a number that stands for the account, its e-mail, its         *)
(* password and its picture; numbers are ordered as the e-mails are.       *)
(***************************************************************************)
EXTENDS Naturals, Sequences, FiniteSets

CONSTANTS
    Users,         \* accounts
    ProviderData,  \* per account: the kinds of its providers, in order
    Documents,     \* accounts with a document in Firestore
    Screens,       \* SettingsViewControllers, each with its view model
    Fetches,       \* Tasks of setupVM; bounds the appearances
    MaxFaces,      \* bound: evaluations of a face
    None           \* nil

ASSUME UsersAssumption ==
    /\ Users \subseteq Nat
    /\ IsFiniteSet(Users)
    /\ Documents \subseteq Users
    /\ ProviderData \in [Users -> Seq({"google", "other"})]
ASSUME NoneAssumption == None \notin Users \cup Screens \cup Fetches
ASSUME BoundAssumption == MaxFaces \in Nat

VARIABLES
    currentUser,   \* Auth.auth().currentUser
    googleUser,    \* GIDSignIn.sharedInstance.currentUser
    screen,        \* the latest settings screen
    used,          \* settings screens that were ever loaded
    visible,       \* it is on top: its KVO observations are registered
    covers,        \* enrolment screens pushed onto it
    pushes,        \* closures of the observer waiting to push one
    evaluating,    \* Face ID evaluations under way, per screen
    loader,        \* the loader covers the window
    avatar,        \* per screen: avtarImage of its view model
    pc,            \* where a fetch is
    job,           \* per fetch: its screen, user, provider, e-mail, picture
    rows,          \* users in the Core Data context
    keychain,      \* per e-mail: whose password its item holds, if anyone's
    signed,        \* history: accounts and Google users ever signed in
    recognised,    \* history: settings screens on which a face was found right
    opener,        \* history: the fetch that the loader on display waits for
    raced          \* history: a fetch overwrote an avatar about to be saved

authVars   == <<currentUser, googleUser, signed>>
screenVars == <<screen, used, visible, covers, pushes, evaluating>>
fetchVars  == <<pc, job>>
storeVars  == <<rows, keychain>>
vars       == <<authVars, screenVars, loader, avatar, fetchVars, storeVars, recognised,
                opener, raced>>

Running == {"started", "next", "document", "image", "assign", "save", "returning"}
Ended   == {"none", "done", "failed", "hung", "lost"}
Row     == [email : Users, picture : Users \cup {None}]
Job     == [screen : Screens \cup {None}, user : Users \cup {None}, at : Nat,
            email : Users \cup {None}, picture : Users \cup {None}]

TypeOK ==
    /\ currentUser \in Users \cup {None}
    /\ googleUser \in Users \cup {None}
    /\ screen \in Screens
    /\ used \subseteq Screens
    /\ visible \in BOOLEAN
    /\ covers \in Nat
    /\ pushes \in Nat
    /\ evaluating \in [Screens -> Nat]
    /\ loader \in BOOLEAN
    /\ avatar \in [Screens -> Users \cup {None}]
    /\ pc \in [Fetches -> Running \cup Ended]
    /\ job \in [Fetches -> Job]
    /\ rows \subseteq Row
    /\ keychain \in [Users -> Users \cup {None}]
    /\ signed \subseteq Users
    /\ recognised \subseteq Screens
    /\ opener \in Fetches \cup {None}
    /\ raced \in BOOLEAN

NoJob == [screen |-> None, user |-> None, at |-> 1, email |-> None, picture |-> None]

Init ==
    /\ currentUser = None
    /\ googleUser = None
    /\ screen \in Screens
    /\ used = {}
    /\ visible = FALSE
    /\ covers = 0
    /\ pushes = 0
    /\ evaluating = [s \in Screens |-> 0]
    /\ loader = FALSE
    /\ avatar = [s \in Screens |-> None]
    /\ pc = [f \in Fetches |-> "none"]
    /\ job = [f \in Fetches |-> NoJob]
    /\ rows = {}
    /\ keychain = [u \in Users |-> None]
    /\ signed = {}
    /\ recognised = {}
    /\ opener = None
    /\ raced = FALSE

-----------------------------------------------------------------------------
(***************************************************************************)
(* Around the settings screen: log-ins, the root screen, the process.      *)
(***************************************************************************)

\* A log-in of u, through Google as g if g is not None.
SignIn(u, g) ==
    /\ g # None => \E k \in DOMAIN ProviderData[u] : ProviderData[u][k] = "google"
    /\ currentUser' = u
    /\ googleUser' = IF g = None THEN googleUser ELSE g
    /\ signed' = signed \cup ({u, g} \ {None})
    /\ UNCHANGED <<screenVars, loader, avatar, fetchVars, storeVars, recognised, opener, raced>>

\* The root screen is replaced; the next settings screen is another one, and what
\* is still posted to the old one is not seen.
ReplaceScreens ==
    /\ screen' \in Screens \ used
    /\ visible' = FALSE
    /\ covers' = 0
    /\ pushes' = 0
    /\ UNCHANGED used

\* logOut signs out of Firebase, not of Google.
LogOut ==
    /\ screen \in used
    /\ currentUser' = None
    /\ ReplaceScreens
    /\ UNCHANGED <<googleUser, signed, evaluating, loader, avatar, fetchVars, storeVars,
                   recognised, opener, raced>>

\* Expiry of the session replaces the screens only.
Expire ==
    /\ screen \in used
    /\ ReplaceScreens
    /\ UNCHANGED <<authVars, evaluating, loader, avatar, fetchVars, storeVars, recognised,
                   opener, raced>>

\* The process ends and is launched again: rows whose save failed are gone, Google's
\* user is not restored.
Relaunch ==
    /\ screen \in used
    /\ ReplaceScreens
    /\ evaluating' = [s \in Screens |-> 0]
    /\ googleUser' = None
    /\ loader' = FALSE
    /\ pc' = [f \in Fetches |-> IF pc[f] = "none" THEN "none" ELSE "lost"]
    /\ job' = [f \in Fetches |-> NoJob]
    /\ avatar' = [s \in Screens |-> None]
    /\ rows' \in SUBSET rows
    /\ opener' = None
    /\ UNCHANGED <<currentUser, signed, keychain, recognised, raced>>

HideLoader ==
    /\ loader
    /\ loader' = FALSE
    /\ opener' = None
    /\ UNCHANGED <<authVars, screenVars, avatar, fetchVars, storeVars, recognised, raced>>

-----------------------------------------------------------------------------
(***************************************************************************)
(* The settings screen.                                                    *)
(***************************************************************************)

\* viewDidLoad, once per screen, shows the loader; viewDidAppear starts a fetch.
Appears(f) ==
    /\ pc[f] = "none"
    /\ pc' = [pc EXCEPT ![f] = "started"]
    /\ job' = [job EXCEPT ![f].screen = screen]
    /\ loader' = (loader \/ screen \notin used)
    /\ opener' = IF screen \notin used THEN f ELSE opener
    /\ used' = used \cup {screen}
    /\ visible' = TRUE

\* The tab of the settings is chosen.
Appear(f) ==
    /\ ~visible
    /\ covers = 0
    /\ Appears(f)
    /\ UNCHANGED <<authVars, screen, covers, pushes, evaluating, avatar, storeVars,
                   recognised, raced>>

\* Another tab is chosen: the observations are invalidated.
Disappear ==
    /\ visible
    /\ visible' = FALSE
    /\ UNCHANGED <<authVars, screen, used, covers, pushes, evaluating, loader, avatar,
                   fetchVars, storeVars, recognised, opener, raced>>

\* The Face ID switch is turned on: an evaluation starts.
FaceSwitch ==
    /\ visible
    /\ evaluating[screen] + Cardinality(recognised) < MaxFaces
    /\ evaluating' = [evaluating EXCEPT ![screen] = @ + 1]
    /\ UNCHANGED <<authVars, screen, used, visible, covers, pushes, loader, avatar,
                   fetchVars, storeVars, recognised, opener, raced>>

\* A right face: a registered observer posts the push of the enrolment screen.
FaceIsRight(s) ==
    /\ evaluating[s] > 0
    /\ evaluating' = [evaluating EXCEPT ![s] = @ - 1]
    /\ recognised' = recognised \cup {s}
    /\ pushes' = IF s = screen /\ visible THEN pushes + 1 ELSE pushes
    /\ UNCHANGED <<authVars, screen, used, visible, covers, loader, avatar, fetchVars,
                   storeVars, opener, raced>>

\* Fault: the observer does not test the value of didValidRightFace.
FaceIsWrongUntested(s) ==
    /\ evaluating[s] > 0
    /\ evaluating' = [evaluating EXCEPT ![s] = @ - 1]
    /\ pushes' = IF s = screen /\ visible THEN pushes + 1 ELSE pushes
    /\ UNCHANGED <<authVars, screen, used, visible, covers, loader, avatar,
                   fetchVars, storeVars, recognised, opener, raced>>

\* A wrong face, no biometry, or cancelled.
FaceIsWrong(s) ==
    /\ evaluating[s] > 0
    /\ evaluating' = [evaluating EXCEPT ![s] = @ - 1]
    /\ UNCHANGED <<authVars, screen, used, visible, covers, pushes, loader, avatar,
                   fetchVars, storeVars, recognised, opener, raced>>

\* The closure pushes an enrolment screen, even onto another one.
PushEnrolment ==
    /\ pushes > 0
    /\ pushes' = pushes - 1
    /\ covers' = covers + 1
    /\ visible' = FALSE
    /\ UNCHANGED <<authVars, screen, used, evaluating, loader, avatar, fetchVars,
                   storeVars, recognised, opener, raced>>

\* An enrolment screen is popped; below the last one the settings appear again.
Pops(f) ==
    /\ covers > 0
    /\ covers' = covers - 1
    /\ IF covers = 1
       THEN Appears(f)
       ELSE UNCHANGED <<pc, job, loader, opener, used, visible>>
    /\ UNCHANGED <<screen, pushes, evaluating>>

\* The back button; or, after a password was stored, the closure that the observer of
\* didSavePasswordInKeychain posted.
Back(f) ==
    /\ Pops(f)
    /\ UNCHANGED <<authVars, avatar, storeVars, recognised, raced>>

\* fetch(): the users in the context, sorted by e-mail.
First(rs) == CHOOSE e \in {r.email : r \in rs} : \A r \in rs : e <= r.email

\* The enrol button: whatever was typed (p's password) is added or updated under the
\* e-mail of the first saved user, whoever is current.  The screen is popped later.
Enrol(p) ==
    /\ covers > 0
    /\ rows # {}
    /\ keychain' = [keychain EXCEPT ![First(rows)] = p]
    /\ UNCHANGED <<authVars, screenVars, loader, avatar, fetchVars, rows, recognised,
                   opener, raced>>

-----------------------------------------------------------------------------
(***************************************************************************)
(* A fetch: getUserInformation, then Loader.shared.hide().                 *)
(***************************************************************************)
Go(f, from, to) ==
    /\ pc[f] = from
    /\ pc' = [pc EXCEPT ![f] = to]

\* Its local variables are not needed any more.
Forgets(f) == job' = [job EXCEPT ![f] = NoJob]

FetchOnly == <<authVars, screenVars, loader, avatar, storeVars, recognised, opener, raced>>

\* Fault: without a current user the Task ends, and hides nothing.
BeginOrEnd(f) ==
    /\ Go(f, "started", IF currentUser = None THEN "done" ELSE "next")
    /\ job' = [job EXCEPT ![f].user = currentUser]
    /\ UNCHANGED FetchOnly

\* The current user is read when the Task runs.
Begin(f) ==
    /\ Go(f, "started", IF currentUser = None THEN "returning" ELSE "next")
    /\ job' = [job EXCEPT ![f].user = currentUser]
    /\ UNCHANGED FetchOnly

Providers(f) == ProviderData[job[f].user]

\* The loop over providerData: Google's user is at hand or ends the whole fetch,
\* any other provider asks Firestore.
NextProvider(f) ==
    LET more   == job[f].at <= Len(Providers(f))
        google == more /\ Providers(f)[job[f].at] = "google"
    IN  /\ Go(f, "next", IF ~more \/ (google /\ googleUser = None) THEN "returning"
                         ELSE IF google THEN "image" ELSE "document")
        /\ job' = [job EXCEPT ![f].email = IF google THEN googleUser ELSE @]
        /\ UNCHANGED FetchOnly

\* getDocument's answer.
GetDocument(f) ==
    /\ job[f].user \in Documents
    /\ Go(f, "document", "image")
    /\ job' = [job EXCEPT ![f].email = job[f].user]
    /\ UNCHANGED FetchOnly

\* A snapshot without data: the callback returns, the continuation is not resumed.
GetNoDocument(f) ==
    /\ job[f].user \notin Documents
    /\ Go(f, "document", "hung")
    /\ Forgets(f)
    /\ UNCHANGED FetchOnly

\* An error is thrown out of the Task, past Loader.shared.hide().
GetDocumentFails(f) ==
    /\ Go(f, "document", "failed")
    /\ Forgets(f)
    /\ UNCHANGED FetchOnly

\* getImageFromUserInformation: the picture, or nil for a bad URL, a bad status, a
\* failed download or data that is no image.
GetImage(f, p) ==
    /\ p \in {job[f].email, None}
    /\ Go(f, "image", "assign")
    /\ job' = [job EXCEPT ![f].picture = p]
    /\ UNCHANGED FetchOnly

\* Fault: a missing picture leaves the one before.
AssignIfAny(f) ==
    LET s == job[f].screen
    IN  /\ Go(f, "assign", "save")
        /\ avatar' = [avatar EXCEPT ![s] = IF job[f].picture = None THEN @ ELSE job[f].picture]
        /\ raced' = (raced \/ \E g \in Fetches \ {f} : pc[g] = "save" /\ job[g].screen = s)
        /\ UNCHANGED <<authVars, screenVars, loader, job, storeVars, recognised, opener>>

\* self.avtarImage = await image: a property the fetches of the screen share.
Assign(f) ==
    LET s == job[f].screen
    IN  /\ Go(f, "assign", "save")
        /\ avatar' = [avatar EXCEPT ![s] = job[f].picture]
        /\ raced' = (raced \/ \E g \in Fetches \ {f} : pc[g] = "save" /\ job[g].screen = s)
        /\ UNCHANGED <<authVars, screenVars, loader, job, storeVars, recognised, opener>>

\* save: one more row, with the picture that avtarImage holds now.  When writing the
\* store fails, the row stays in the context, where fetch still finds it.
Save(f) ==
    /\ Go(f, "save", "next")
    /\ rows' = rows \cup {[email |-> job[f].email, picture |-> avatar[job[f].screen]]}
    /\ job' = [job EXCEPT ![f] = [screen |-> @.screen, user |-> @.user, at |-> @.at + 1,
                                  email |-> None, picture |-> None]]
    /\ UNCHANGED <<authVars, screenVars, loader, avatar, keychain, recognised, opener, raced>>

Return(f) ==
    /\ Go(f, "returning", "done")
    /\ Forgets(f)
    /\ loader' = FALSE
    /\ opener' = None
    /\ UNCHANGED <<authVars, screenVars, avatar, storeVars, recognised, raced>>

-----------------------------------------------------------------------------
Step(f) ==
    \/ Begin(f) \/ NextProvider(f) \/ GetDocument(f) \/ GetNoDocument(f)
    \/ GetDocumentFails(f) \/ Assign(f) \/ Save(f) \/ Return(f)
    \/ \E p \in Users \cup {None} : GetImage(f, p)

Face(s) == FaceIsRight(s) \/ FaceIsWrong(s)

Next ==
    \/ \E u \in Users, g \in Users \cup {None} : SignIn(u, g)
    \/ LogOut \/ Expire \/ Relaunch \/ HideLoader
    \/ Disappear \/ FaceSwitch \/ PushEnrolment
    \/ \E s \in Screens : Face(s)
    \/ \E f \in Fetches : Appear(f) \/ Back(f) \/ Step(f)
    \/ \E p \in Users : Enrol(p)

Spec == Init /\ [][Next]_vars

\* Tasks are scheduled; Firestore's reads and the downloads answer or time out.
FairSpec == Spec /\ \A f \in Fetches : WF_vars(Step(f))

-----------------------------------------------------------------------------
(***************************************************************************)
(* Properties.                                                             *)
(***************************************************************************)

\* The loader outlasts the fetch of the screen that showed it only when that fetch
\* is under way, failed or hangs: every early return of getUserInformation still
\* ends in Loader.shared.hide().
LoaderOwed == loader => pc[opener] \in Running \cup {"failed", "hung"}

\* A saved user has his own picture or none, unless two fetches of one screen met
\* between the assignment of avtarImage and save.
PictureOwn ==
    (\E r \in rows : r.picture \notin {r.email, None}) => raced

\* The keychain changes only behind a right face, found on the very settings screen
\* below: not by a wrong one, nor by one found late on a screen that was replaced.  The
\* e-mail that gets the password, which need not be the current user's (it is the first
\* saved one), is of somebody who signed in on this device.
EnrolledByFace ==
    [][\A e \in Users : keychain'[e] # keychain[e] =>
            screen \in recognised /\ e \in signed]_vars

\* The loader of a settings screen is hidden, unless its fetch failed or hangs.
LoaderHides == loader ~> (~loader \/ pc[opener] \in {"failed", "hung"})
=============================================================================
