------------------------------- MODULE SignUp -------------------------------
(***************************************************************************)
(* Account creation: SignUpViewController, SignUpViewModel and             *)
(* AuthenticationViewModel.createNewUserNameInFireBase, with the three     *)
(* Firebase services it calls in turn.  A press of the button starts an    *)
(* attempt, a Task that runs beside the user interface: the user can hide  *)
(* the loader, press again, pick another picture or leave the screen while *)
(* attempts are under way.  Every remote call may fail before or after it  *)
(* took effect, and a failed downloadURL traps and ends the process.       *)
(*                                                                         *)
(* An e-mail stands for the account created with it (Firebase refuses a    *)
(* second one), so it also stands for the uid, the document and the path   *)
(* of the avatar.  Names and passwords are not told apart: only the result *)
(* of the checks on them matters.                                          *)
(***************************************************************************)
EXTENDS Naturals

CONSTANTS
    Emails,     \* addresses a user types
    Avatars,    \* pictures a user picks
    Screens,    \* SignUpViewControllers, each with its view model
    Attempts,   \* Tasks started by the sign-up button; bounds the presses
    None        \* nil

ASSUME NoneAssumption == None \notin Emails \cup Avatars \cup Screens

VARIABLES
    top,        \* the sign-up screen on display, "login" or "home"
    observing,  \* the screen's KVO observation is registered
    loader,     \* Loader.shared is visible
    form,       \* per screen: email and avatarImage of its view model
    created,    \* screens whose view model has createUserSuccessfully
    switches,   \* closures on the main queue that switch to home
    pc,         \* where an attempt is
    owner,      \* the screen that started an attempt
    call,       \* per attempt: the e-mail and the avatar it read from the form
    account,    \* Firebase Auth: e-mails that have an account
    object,     \* Firebase Storage: the avatar stored for an account
    document    \* Firestore: the avatar named in the document of an account

uiVars     == <<top, observing, loader, form, created, switches>>
taskVars   == <<pc, owner, call>>
serverVars == <<account, object, document>>
vars       == <<uiVars, taskVars, serverVars>>

Empty     == "empty"      \* an e-mail field with no text
NoAvatar  == "no avatar"  \* no picture was picked
NoDoc     == "no document"

ASSUME PictureAssumption == Avatars \cap {NoAvatar, NoDoc} = {}

Running   == {"queued", "calling", "createUser", "putData", "downloadURL",
              "setData", "returning"}
Over      == {"none", "done", "failed", "dead"}
\* Attempts that own the account they created.
Creators  == {"putData", "downloadURL", "setData", "returning", "done", "detached"}

TypeOK ==
    /\ top \in Screens \cup {"login", "home"}
    /\ observing \in BOOLEAN
    /\ loader \in BOOLEAN
    /\ form \in [Screens -> [email : Emails \cup {Empty}, avatar : Avatars \cup {NoAvatar}]]
    /\ created \subseteq Screens
    /\ switches \in Nat
    /\ pc \in [Attempts -> Running \cup Over \cup {"detached"}]
    /\ owner \in [Attempts -> Screens \cup {None}]
    /\ call \in [Attempts -> [email : Emails \cup {Empty}, avatar : Avatars \cup {NoAvatar}]]
    /\ account \subseteq Emails
    /\ object \in [Emails -> Avatars \cup {NoAvatar}]
    /\ document \in [Emails -> Avatars \cup {NoAvatar, NoDoc}]

Blank == [email |-> Empty, avatar |-> NoAvatar]

Init ==
    /\ top = "login"
    /\ observing = FALSE
    /\ loader = FALSE
    /\ form = [s \in Screens |-> Blank]
    /\ created = {}
    /\ switches = 0
    /\ pc = [t \in Attempts |-> "none"]
    /\ owner = [t \in Attempts |-> None]
    /\ call = [t \in Attempts |-> Blank]
    /\ account = {}
    /\ object = [e \in Emails |-> NoAvatar]
    /\ document = [e \in Emails |-> NoDoc]

-----------------------------------------------------------------------------
(***************************************************************************)
(* The user interface.  The loader covers the window and takes every touch *)
(* until it is hidden.                                                     *)
(***************************************************************************)
OnScreen(s) == top = s /\ observing /\ ~loader

\* The log-in screen pushes a new SignUpViewController (its identity is free
\* once no attempt of an earlier one runs): viewWillAppear observes the model.
Open(s) ==
    /\ top = "login"
    /\ ~loader
    /\ \A t \in Attempts : owner[t] = s => pc[t] \notin Running
    /\ top' = s
    /\ observing' = TRUE
    /\ form' = [form EXCEPT ![s] = Blank]
    /\ created' = created \ {s}
    /\ UNCHANGED <<loader, switches, taskVars, serverVars>>

\* Back or Cancel: viewDidDisappear invalidates the observation; the attempts
\* keep the view model and go on.
Leave(s) ==
    /\ OnScreen(s)
    /\ top' = "login"
    /\ observing' = FALSE
    /\ UNCHANGED <<loader, form, created, switches, taskVars, serverVars>>

\* The camera covers the screen: viewDidDisappear invalidates the observation...
OpenCamera(s) ==
    /\ OnScreen(s)
    /\ observing' = FALSE
    /\ UNCHANGED <<top, loader, form, created, switches, taskVars, serverVars>>

\* ... and viewWillAppear registers it again, with [.new] only: a success that
\* came meanwhile is not reported.  The picture may have been taken or not.
CloseCamera(s, a) ==
    /\ top = s
    /\ ~observing
    /\ observing' = TRUE
    /\ form' = [form EXCEPT ![s].avatar = IF a = NoAvatar THEN @ ELSE a]
    /\ UNCHANGED <<top, loader, created, switches, taskVars, serverVars>>

\* The photo library is a sheet: the screen under it does not disappear.
PickFromLibrary(s, a) ==
    /\ OnScreen(s)
    /\ form' = [form EXCEPT ![s].avatar = a]
    /\ UNCHANGED <<top, observing, loader, created, switches, taskVars, serverVars>>

\* The sign-up button, rejected: the e-mail is stored in the view model before
\* it and the passwords are checked.
PressRejected(s, e) ==
    /\ OnScreen(s)
    /\ form' = [form EXCEPT ![s].email = e]
    /\ UNCHANGED <<top, observing, loader, created, switches, taskVars, serverVars>>

\* The sign-up button, all checks passed: the loader is shown, a Task started.
\* (Offline, as networkMonitor reports it, the button only shows an alert: one more
\* reason not to take this step.)
PressAccepted(s, e, t) ==
    /\ OnScreen(s)
    /\ e # Empty
    /\ pc[t] = "none"
    /\ form' = [form EXCEPT ![s].email = e]
    /\ loader' = TRUE
    /\ pc' = [pc EXCEPT ![t] = "queued"]
    /\ owner' = [owner EXCEPT ![t] = s]
    /\ UNCHANGED <<top, observing, created, switches, call, serverVars>>

\* A tap on the loader, or the home screen when it has loaded.
HideLoader ==
    /\ loader
    /\ loader' = FALSE
    /\ UNCHANGED <<top, observing, form, created, switches, taskVars, serverVars>>

\* A closure of the observer runs on the main queue.
SwitchToArtHome ==
    /\ switches > 0
    /\ switches' = switches - 1
    /\ top' = "home"
    /\ observing' = FALSE
    /\ UNCHANGED <<loader, form, created, taskVars, serverVars>>

\* Session expiry or log-out replaces the root by the log-in screen.
SwitchToLogin ==
    /\ top # "login"
    /\ top' = "login"
    /\ observing' = FALSE
    /\ UNCHANGED <<loader, form, created, switches, taskVars, serverVars>>

-----------------------------------------------------------------------------
(***************************************************************************)
(* An attempt.  Go moves it on, Fail ends it with an error (which          *)
(* createNewAccountByEmail swallows).                                      *)
(***************************************************************************)
Go(t, from, to) ==
    /\ pc[t] = from
    /\ pc' = [pc EXCEPT ![t] = to]
    /\ UNCHANGED owner

EmailOf(t)  == call[t].email
AvatarOf(t) == call[t].avatar

\* createNewAccountByEmail copies the e-mail from the view model as it is when
\* the Task gets to run...
ReadEmail(t) ==
    /\ Go(t, "queued", "calling")
    /\ call' = [call EXCEPT ![t].email = form[owner[t]].email]
    /\ UNCHANGED <<uiVars, serverVars>>

\* ... and the child task of async let reads the avatar and the names later.
ReadAvatar(t) ==
    /\ Go(t, "calling", "createUser")
    /\ call' = [call EXCEPT ![t].avatar = form[owner[t]].avatar]
    /\ UNCHANGED <<uiVars, serverVars>>

\* Fault: an e-mail that has an account is accepted again.
CreateUserAgain(t) ==
    /\ EmailOf(t) # Empty
    /\ Go(t, "createUser", IF AvatarOf(t) = NoAvatar THEN "setData" ELSE "putData")
    /\ account' = account \cup {EmailOf(t)}
    /\ UNCHANGED <<uiVars, call, object, document>>

\* createUser: an account for an e-mail that has none; without an avatar the
\* document is next.
CreateUser(t) ==
    /\ EmailOf(t) \notin account \cup {Empty}
    /\ Go(t, "createUser", IF AvatarOf(t) = NoAvatar THEN "setData" ELSE "putData")
    /\ account' = account \cup {EmailOf(t)}
    /\ UNCHANGED <<uiVars, call, object, document>>

\* The account is created but the answer is lost, and the error ends the attempt.
CreateUserUnanswered(t) ==
    /\ EmailOf(t) \notin account \cup {Empty}
    /\ Go(t, "createUser", "failed")
    /\ account' = account \cup {EmailOf(t)}
    /\ UNCHANGED <<uiVars, call, object, document>>

\* Fault: the document is written before the avatar is stored.
PutDataAfterDocument(t) ==
    /\ Go(t, "putData", "downloadURL")
    /\ document' = [document EXCEPT ![EmailOf(t)] = AvatarOf(t)]
    /\ UNCHANGED <<uiVars, call, account, object>>

\* ref.putData; ref.downloadURL is next.
PutData(t) ==
    /\ Go(t, "putData", "downloadURL")
    /\ object' = [object EXCEPT ![EmailOf(t)] = AvatarOf(t)]
    /\ UNCHANGED <<uiVars, call, account, document>>

PutDataUnanswered(t) ==
    /\ Go(t, "putData", "failed")
    /\ object' = [object EXCEPT ![EmailOf(t)] = AvatarOf(t)]
    /\ UNCHANGED <<uiVars, call, account, document>>

DownloadURL(t) ==
    /\ Go(t, "downloadURL", "setData")
    /\ UNCHANGED <<uiVars, call, serverVars>>

\* downloadURL fails: the switch tests the error of putData, which is nil, and
\* the cast of a String to Error traps.  The process ends and is launched again
\* at the log-in screen; Firestore keeps and sends the writes it had queued.
Trap(t) ==
    /\ pc[t] = "downloadURL"
    /\ pc' = [u \in Attempts |-> IF pc[u] = "setData" THEN "detached"
                                 ELSE IF pc[u] \in Running THEN "dead" ELSE pc[u]]
    /\ top' = "login"
    /\ observing' = FALSE
    /\ loader' = FALSE
    /\ switches' = 0
    /\ UNCHANGED <<form, created, owner, call, serverVars>>

\* Fault: the new document does not wait for the URL of the avatar.
SetDataEarly(t) ==
    /\ Go(t, "setData", "returning")
    /\ document' = [document EXCEPT ![EmailOf(t)] = NoAvatar]
    /\ UNCHANGED <<uiVars, call, account, object>>

\* setData of the document.
SetData(t) ==
    /\ Go(t, "setData", "returning")
    /\ document' = [document EXCEPT ![EmailOf(t)] = AvatarOf(t)]
    /\ UNCHANGED <<uiVars, call, account, object>>

\* The document is stored, but for an attempt that fails or whose process died.
SetDataUnanswered(t) ==
    /\ Go(t, "setData", "failed") \/ Go(t, "detached", "dead")
    /\ document' = [document EXCEPT ![EmailOf(t)] = AvatarOf(t)]
    /\ UNCHANGED <<uiVars, call, account, object>>

\* Fault: the continuation is not resumed when createUser reports an error.
FailUnresumed(t) ==
    /\ \/ \E p \in {"putData", "setData"} : Go(t, p, "failed")
       \/ Go(t, "detached", "dead")
    /\ UNCHANGED <<uiVars, call, serverVars>>

\* A remote call ends with an error and without effect.
Fail(t) ==
    /\ \/ \E p \in {"createUser", "putData", "setData"} : Go(t, p, "failed")
       \/ Go(t, "detached", "dead")
    /\ UNCHANGED <<uiVars, call, serverVars>>

\* Fault: the observer posts no closure.
ReturnUnobserved(t) ==
    /\ Go(t, "returning", "done")
    /\ created' = created \cup {owner[t]}
    /\ UNCHANGED <<top, observing, loader, form, switches, call, serverVars>>

\* createUserSuccessfully = true: a registered observer posts the switch.
Return(t) ==
    /\ Go(t, "returning", "done")
    /\ created' = created \cup {owner[t]}
    /\ switches' = IF top = owner[t] /\ observing THEN switches + 1 ELSE switches
    /\ UNCHANGED <<top, observing, loader, form, call, serverVars>>

-----------------------------------------------------------------------------
User ==
    \/ \E s \in Screens :
          \/ Open(s)
          \/ Leave(s)
          \/ OpenCamera(s)
          \/ \E a \in Avatars \cup {NoAvatar} : CloseCamera(s, a)
          \/ \E a \in Avatars : PickFromLibrary(s, a)
          \/ \E e \in Emails \cup {Empty} : PressRejected(s, e)
          \/ \E e \in Emails, t \in Attempts : PressAccepted(s, e, t)
    \/ HideLoader
    \/ SwitchToLogin

Answer(t) ==
    \/ CreateUser(t) \/ CreateUserUnanswered(t)
    \/ PutData(t) \/ PutDataUnanswered(t)
    \/ DownloadURL(t) \/ Trap(t)
    \/ SetData(t) \/ SetDataUnanswered(t)
    \/ Fail(t)

Step(t) == ReadEmail(t) \/ ReadAvatar(t) \/ Answer(t) \/ Return(t)

Next == User \/ SwitchToArtHome \/ \E t \in Attempts : Step(t)

Spec == Init /\ [][Next]_vars

\* Firestore has no timeout: while the device is offline a write is queued and its
\* completion is not called.
Writing == {"setData", "detached"}

\* Tasks are scheduled, the main queue is served, and Auth and Storage answer or time
\* out.  Nothing is assumed of the user, and nothing of a write to Firestore.
FairSpec ==
    /\ Spec
    /\ WF_vars(SwitchToArtHome)
    /\ \A t \in Attempts : WF_vars(pc[t] \notin Writing /\ Step(t))

-----------------------------------------------------------------------------
(***************************************************************************)
(* Properties.                                                             *)
(***************************************************************************)

\* At most one attempt ever gets past createUser for an e-mail, however many
\* presses, screens and restarts there are: the avatar and the document of an
\* account have a single writer.
OneCreator ==
    \A t, u \in Attempts :
        /\ pc[t] \in Creators
        /\ pc[u] \in Creators
        /\ EmailOf(t) = EmailOf(u)
        => t = u

\* When createNewUserNameInFireBase has returned true, the document is stored
\* and names the avatar that this attempt uploaded, whatever other attempts
\* failed, crashed or were unanswered meanwhile.
SuccessMeansStored ==
    \A t \in Attempts : pc[t] \in {"returning", "done"} =>
        /\ EmailOf(t) \in account
        /\ document[EmailOf(t)] = AvatarOf(t)
        /\ object[EmailOf(t)] = AvatarOf(t)

\* A document belongs to an account, and the picture it names is stored: the
\* order createUser, putData, downloadURL, setData leaves no dangling URL at any
\* failure.
DocumentSound ==
    \A e \in Emails : document[e] # NoDoc => e \in account /\ document[e] = object[e]

\* The account an attempt has claimed and not lost, and who was told of success.
Holds == [t \in Attempts |-> IF pc[t] \in Creators THEN EmailOf(t) ELSE None]
Told  == {t \in Attempts : pc[t] = "done"}

Reg == INSTANCE Registration
         WITH Contents <- Avatars \cup {NoAvatar},
              claimed <- account, stored <- document, holds <- Holds, told <- Told

\* Account creation as Registration promises it: through overlapping presses,
\* lost answers, failures at any of the four remote steps and the trap, an
\* account is claimed once, completed once at most and by its claimant, and an
\* attempt reports success only of an account it has completed.
ImplementsRegistration == Reg!Spec

\* An account without a document that no attempt is working on.
Orphan(e) ==
    /\ e \in account
    /\ document[e] = NoDoc
    /\ \A t \in Attempts : EmailOf(t) = e => pc[t] \notin Creators

\* There is no repair: an account left without its document (a failure between
\* createUser and setData, or the trap) never gets one, because every retry is
\* refused by createUser.
OrphanForever == [][\A e \in Emails : Orphan(e) => Orphan(e)']_vars

\* Nothing but the write of the document can hold an attempt for ever: each
\* continuation is resumed on every path of createUser, putData and downloadURL, and
\* what follows an answered write returns.
AttemptEnds ==
    \A t \in Attempts : pc[t] \in Running ~> pc[t] \in Over \cup Writing

\* A success that returns while its screen observes the view model leads to the
\* home screen, unless the user has left or covered the screen or the process
\* has ended.
SuccessReachesHome ==
    \A t \in Attempts, s \in Screens :
        (pc[t] = "returning" /\ owner[t] = s /\ top = s /\ observing) ~>
            (top # s \/ ~observing)
=============================================================================
