--------------------------- MODULE ContentScreens ---------------------------
(***************************************************************************)
(* The screens that show fetched records: RecordInformationViewController, *)
(* pushed over home when a picture is tapped, and NewsViewController, the  *)
(* root of a tab; their view models, the Loader they share, and their life *)
(* from viewDidLoad to deinit.  Every appearance starts a Task, which      *)
(* retains the screen and goes on when the screen is covered, popped or    *)
(* replaced.  Pictures are operations of ImageLoading, whose completion    *)
(* blocks hold the screen [unowned].                                       *)
(*                                                                         *)
(* A result is abstracted to the number of its records.  A record screen   *)
(* is covered only when a switch of tabs overtakes it (see TabBar).        *)
(***************************************************************************)
EXTENDS Naturals

CONSTANTS
    Records,     \* record information screens
    News,        \* news screens
    Fetches,     \* Tasks started by viewDidAppear; bounds the appearances
    Sizes,       \* numbers of records that an answer may hold
    MaxPictures, \* bound on the pictures of a screen in flight
    None         \* nil

ASSUME ScreensAssumption ==
    /\ Records \cap News = {}
    /\ Sizes \subseteq Nat
    /\ MaxPictures \in Nat
    /\ None \notin Records \cup News \cup Nat

Screens == Records \cup News

VARIABLES
    life,       \* where a screen is between viewDidLoad and deinit
    person,     \* record screens that were given a personid
    loader,     \* Loader.shared covers the window
    opener,     \* the screen that showed it last
    pc,         \* where a Task is: the call it awaits
    owner,      \* the screen that started it
    artist,     \* personalInfomationModel
    label,      \* the artist on display
    records,    \* number of records of the model, None for nil
    layout,     \* items the view has laid out
    posts,      \* closures on the main queue: labels to set, reloads
    missed,     \* history: screens whose records came unobserved after the last reload
    failed,     \* history: a call has thrown since the last appearance
    pictures    \* pictures in flight

screenVars == <<life, person>>
loaderVars == <<loader, opener>>
taskVars   == <<pc, owner>>
modelVars  == <<artist, label, records, layout, posts, missed, failed>>
vars       == <<screenVars, loaderVars, taskVars, modelVars, pictures>>

OnTop   == {"opening", "shown"}
Alive   == {"opening", "shown", "covered", "left"}
Calling == {"person", "objects", "hide"}

TypeOK ==
    /\ life \in [Screens -> Alive \cup {"none", "gone"}]
    /\ person \subseteq Records
    /\ loader \in BOOLEAN
    /\ opener \in Screens \cup {None}
    /\ pc \in [Fetches -> Calling \cup {"none", "over"}]
    /\ owner \in [Fetches -> Screens \cup {None}]
    /\ artist \in [Screens -> {"unset", "nil", "got"}]
    /\ label \in [Screens -> {"unset", "nil", "got"}]
    /\ records \in [Screens -> Sizes \cup {None}]
    /\ layout \in [Screens -> Sizes \cup {1}]
    /\ posts \in [Screens -> [labels : Nat, reloads : Nat]]
    /\ missed \subseteq Screens
    /\ failed \subseteq Screens
    /\ pictures \in [Screens -> 0..MaxPictures]

NoPosts == [labels |-> 0, reloads |-> 0]

Init ==
    /\ life = [s \in Screens |-> "none"]
    /\ person = {}
    /\ loader = FALSE
    /\ opener = None
    /\ pc = [f \in Fetches |-> "none"]
    /\ owner = [f \in Fetches |-> None]
    /\ artist = [s \in Screens |-> "unset"]
    /\ label = [s \in Screens |-> "unset"]
    /\ records = [s \in Screens |-> None]
    /\ layout = [s \in Screens |-> 1]
    /\ posts = [s \in Screens |-> NoPosts]
    /\ missed = {}
    /\ failed = {}
    /\ pictures = [s \in Screens |-> 0]

\* The process traps and is launched again: only spent Tasks are remembered.
Relaunched ==
    /\ life' = [s \in Screens |-> "none"]
    /\ person' = {}
    /\ loader' = FALSE
    /\ opener' = None
    /\ pc' = [f \in Fetches |-> IF pc[f] = "none" THEN "none" ELSE "over"]
    /\ owner' = [f \in Fetches |-> None]
    /\ artist' = [s \in Screens |-> "unset"]
    /\ label' = [s \in Screens |-> "unset"]
    /\ records' = [s \in Screens |-> None]
    /\ layout' = [s \in Screens |-> 1]
    /\ posts' = [s \in Screens |-> NoPosts]
    /\ missed' = {}
    /\ failed' = {}
    /\ pictures' = [s \in Screens |-> 0]

-----------------------------------------------------------------------------
(***************************************************************************)
(* The life of a screen.                                                   *)
(***************************************************************************)

\* The observations are registered from viewWillAppear to viewDidDisappear.
Observing(s) == life[s] \in OnTop

\* Another screen than these is on display.
NoneOnTop == \A s \in Screens : life[s] \notin OnTop

\* A picture on the home screen is tapped: viewDidLoad of the record screen shows
\* the loader; the push is animated.  Not every record has a person.
DidTapOnImage(s, hasPerson) ==
    /\ life[s] = "none"
    /\ ~loader
    /\ NoneOnTop
    /\ \A r \in Records : life[r] # "covered"
    /\ \E f \in Fetches : pc[f] = "none"    \* the bound, for its Task
    /\ life' = [life EXCEPT ![s] = "opening"]
    /\ person' = IF hasPerson THEN person \cup {s} ELSE person
    /\ loader' = TRUE
    /\ opener' = s
    /\ UNCHANGED <<taskVars, modelVars, pictures>>

\* The first call of a Task; a record screen without a person returns at once.
FirstCall(s) ==
    IF s \in News THEN "objects" ELSE IF s \in person THEN "person" ELSE "over"

\* Fault: only the first appearance fetches.
AppearOnce(s, f) ==
    /\ pc[f] = "none"
    /\ life' = [life EXCEPT ![s] = "shown"]
    /\ pc' = [pc EXCEPT ![f] = IF life[s] = "covered" THEN "over" ELSE FirstCall(s)]
    /\ owner' = [owner EXCEPT ![f] = s]
    /\ failed' = failed \ {s}
    /\ UNCHANGED <<person, artist, label, records, layout, posts, missed, pictures>>

\* viewDidAppear: setupVM starts a Task.
Appear(s, f) ==
    /\ pc[f] = "none"
    /\ life' = [life EXCEPT ![s] = "shown"]
    /\ pc' = [pc EXCEPT ![f] = FirstCall(s)]
    /\ owner' = [owner EXCEPT ![f] = s]
    /\ failed' = failed \ {s}
    /\ UNCHANGED <<person, artist, label, records, layout, posts, missed, pictures>>

\* The push of a record screen ends.
PushEnds(s, f) ==
    /\ life[s] = "opening"
    /\ Appear(s, f)
    /\ UNCHANGED loaderVars

\* The tab of the news is selected for the first time.
OpenNews(s, f) ==
    /\ life[s] = "none"
    /\ ~loader
    /\ NoneOnTop
    /\ \A n \in News : life[n] # "covered"
    /\ Appear(s, f)
    /\ loader' = TRUE
    /\ opener' = s

\* The tab of a covered screen is selected again.
Uncover(s, f) ==
    /\ life[s] = "covered"
    /\ ~loader
    /\ NoneOnTop
    /\ Appear(s, f)
    /\ UNCHANGED loaderVars

\* Another tab is selected; its animation may have begun before the loader came.
Cover(s) ==
    /\ life[s] = "shown"
    /\ life' = [life EXCEPT ![s] = "covered"]
    /\ UNCHANGED <<person, loaderVars, taskVars, modelVars, pictures>>

\* The back button of a record screen.
Back(s) ==
    /\ life[s] = "shown"
    /\ ~loader
    /\ life' = [life EXCEPT ![s] = "left"]
    /\ UNCHANGED <<person, loaderVars, taskVars, modelVars, pictures>>

\* The session ends: the log-in screen becomes the root of the window.
SwitchToLogin ==
    /\ \E s \in Screens : life[s] \in Alive \ {"left"}
    /\ life' = [s \in Screens |-> IF life[s] \in Alive THEN "left" ELSE life[s]]
    /\ UNCHANGED <<person, loaderVars, taskVars, modelVars, pictures>>

\* A tap on the loader, or the end of a fetch of the home screen (see Catalogue).
HideLoader ==
    /\ loader
    /\ loader' = FALSE
    /\ UNCHANGED <<screenVars, opener, taskVars, modelVars, pictures>>

\* Fault: the Task holds the screen [unowned], as the completion blocks do.
DeinitUnderTask(s) ==
    /\ life[s] = "left"
    /\ posts[s] = NoPosts
    /\ life' = [life EXCEPT ![s] = "gone"]
    /\ UNCHANGED <<person, loaderVars, taskVars, modelVars, pictures>>

\* A screen out of the hierarchy is released with the last Task and the last closure
\* that capture it.
Deinit(s) ==
    /\ life[s] = "left"
    /\ \A f \in Fetches : owner[f] = s => pc[f] \notin Calling
    /\ posts[s] = NoPosts
    /\ life' = [life EXCEPT ![s] = "gone"]
    /\ UNCHANGED <<person, loaderVars, taskVars, modelVars, pictures>>

-----------------------------------------------------------------------------
(***************************************************************************)
(* A Task.  The results are assigned off the main thread, and a registered *)
(* observer posts a closure that captures the screen.                      *)
(***************************************************************************)
Go(f, from, to) ==
    /\ pc[f] = from
    /\ pc' = [pc EXCEPT ![f] = to]
    /\ UNCHANGED <<screenVars, owner, label, layout, pictures>>

\* getPersonalInformationModel: decoded, or refused or not decodable (nil).
GetPerson(f, r) ==
    LET s == owner[f] IN
    /\ Go(f, "person", "objects")
    /\ artist' = [artist EXCEPT ![s] = r]
    /\ posts' = [posts EXCEPT ![s].labels = IF Observing(s) THEN @ + 1 ELSE @]
    /\ UNCHANGED <<loaderVars, records, missed, failed>>

\* Fault: the error leaves the Task.
GetPersonRethrows(f) ==
    /\ Go(f, "person", "over")
    /\ failed' = failed \cup {owner[f]}
    /\ UNCHANGED <<loaderVars, artist, records, posts, missed>>

\* The call throws: the error is swallowed, nothing is assigned, the Task goes on.
GetPersonThrows(f) ==
    /\ Go(f, "person", "objects")
    /\ failed' = failed \cup {owner[f]}
    /\ UNCHANGED <<loaderVars, artist, records, posts, missed>>

\* Fault: nobody observes the records.
GetObjectsUnobserved(f, n) ==
    LET s == owner[f] IN
    /\ Go(f, "objects", "hide")
    /\ records' = [records EXCEPT ![s] = n]
    /\ UNCHANGED <<loaderVars, artist, failed, posts, missed>>

\* getObjectAccordingToPerson, or the task group of the news, whose nil stands for
\* an error too: assigned whatever an overlapping Task has put there.
GetObjects(f, n) ==
    LET s == owner[f] IN
    /\ Go(f, "objects", "hide")
    /\ records' = [records EXCEPT ![s] = n]
    /\ posts' = [posts EXCEPT ![s].reloads = IF Observing(s) THEN @ + 1 ELSE @]
    /\ missed' = IF Observing(s) THEN missed ELSE missed \cup {s}
    /\ UNCHANGED <<loaderVars, artist, failed>>

\* Fault: the Task starts again until it succeeds.
GetObjectsThrowsRetried(f) ==
    /\ owner[f] \in Records
    /\ Go(f, "objects", "person")
    /\ failed' = failed \cup {owner[f]}
    /\ UNCHANGED <<loaderVars, artist, records, posts, missed>>

GetObjectsThrows(f) ==
    /\ owner[f] \in Records
    /\ Go(f, "objects", "hide")
    /\ failed' = failed \cup {owner[f]}
    /\ UNCHANGED <<loaderVars, artist, records, posts, missed>>

\* Loader.shared.hide(), whoever showed it.
Return(f) ==
    /\ Go(f, "hide", "over")
    /\ loader' = FALSE
    /\ UNCHANGED <<opener, artist, records, posts, missed, failed>>

-----------------------------------------------------------------------------
(***************************************************************************)
(* The main queue and the cells.                                           *)
(***************************************************************************)

\* One cell while there is no result, and for a result without records.
NumberOfItems(s) == IF records[s] # None THEN records[s] ELSE 1

\* The artist's picture and names.
SetLabels(s) ==
    /\ posts[s].labels > 0
    /\ posts' = [posts EXCEPT ![s].labels = @ - 1]
    /\ label' = [label EXCEPT ![s] = artist[s]]
    /\ UNCHANGED <<screenVars, loaderVars, taskVars, artist, records, layout, missed, failed,
                   pictures>>

\* reloadData.
Reload(s) ==
    /\ posts[s].reloads > 0
    /\ posts' = [posts EXCEPT ![s].reloads = @ - 1]
    /\ layout' = [layout EXCEPT ![s] = NumberOfItems(s)]
    /\ missed' = missed \ {s}
    /\ UNCHANGED <<screenVars, loaderVars, taskVars, artist, label, records, failed, pictures>>

\* An item that is laid out is gone from the model.
OutOfRange(s) == records[s] # None /\ layout[s] > records[s]

\* createHardvardMuseumObjectRecord subscripts it, and the process ends.
DisplayTraps(s) ==
    /\ life[s] = "shown"
    /\ OutOfRange(s)
    /\ Relaunched

\* A cell with a picture is displayed: an operation with a completion block starts.
WillDisplay(s) ==
    /\ life[s] \in OnTop
    /\ records[s] # None
    /\ records[s] > 0 /\ layout[s] > 0
    /\ pictures[s] < MaxPictures
    /\ pictures' = [pictures EXCEPT ![s] = @ + 1]
    /\ UNCHANGED <<screenVars, loaderVars, taskVars, modelVars>>

\* The operation is over while the screen lives, or its download fails and it never
\* completes.
PictureEnds(s) ==
    /\ pictures[s] > 0
    /\ pictures' = [pictures EXCEPT ![s] = @ - 1]
    /\ UNCHANGED <<screenVars, loaderVars, taskVars, modelVars>>

\* The completion block of an operation that survived its screen reads self.
UnownedTraps(s) ==
    /\ life[s] = "gone"
    /\ pictures[s] > 0
    /\ Relaunched

-----------------------------------------------------------------------------
Step(f) ==
    \/ \E r \in {"nil", "got"} : GetPerson(f, r)
    \/ GetPersonThrows(f)
    \/ \E n \in Sizes \cup {None} : GetObjects(f, n)
    \/ GetObjectsThrows(f)
    \/ Return(f)

Main(s) == SetLabels(s) \/ Reload(s)

Next ==
    \/ \E s \in Records : Back(s) \/ \E p \in BOOLEAN : DidTapOnImage(s, p)
    \/ \E s \in Records, f \in Fetches : PushEnds(s, f)
    \/ \E s \in News, f \in Fetches : OpenNews(s, f)
    \/ \E s \in Screens, f \in Fetches : Uncover(s, f)
    \/ \E s \in Screens : \/ Cover(s) \/ Main(s) \/ Deinit(s) \/ DisplayTraps(s)
                          \/ WillDisplay(s) \/ PictureEnds(s) \/ UnownedTraps(s)
    \/ SwitchToLogin
    \/ HideLoader
    \/ \E f \in Fetches : Step(f)

Spec == Init /\ [][Next]_vars

\* A push ends, Tasks and the main queue are scheduled, a call is answered or times
\* out, and a screen that nothing holds is released.  Nothing is assumed of the
\* user, of the session or of the pictures.
FairSpec ==
    /\ Spec
    /\ \A s \in Records : WF_vars(\E f \in Fetches : PushEnds(s, f))
    /\ \A s \in Screens : WF_vars(SetLabels(s)) /\ WF_vars(Reload(s)) /\ WF_vars(Deinit(s))
    /\ \A f \in Fetches : WF_vars(Step(f))

-----------------------------------------------------------------------------
(***************************************************************************)
(* Properties.                                                             *)
(***************************************************************************)

\* A subscript can run out of range on a screen only while a reload is due or after
\* records came while the screen was covered.
SubscriptOnlyInWindow ==
    \A s \in Screens : OutOfRange(s) => posts[s].reloads > 0 \/ s \in missed

\* Nothing but the completion block of a picture (UnownedTraps) reaches a screen that
\* was released: no Task assigns to its view model and no closure of an observer is
\* posted or run for it, whether the user or the end of the session took the screen
\* away, and however many of its Tasks were still waiting for answers.
ReleasedIsUntouched ==
    [][\A s \in Screens : life[s] = "gone" /\ life'[s] = "gone" =>
          /\ artist'[s] = artist[s]
          /\ label'[s] = label[s]
          /\ records'[s] = records[s]
          /\ layout'[s] = layout[s]
          /\ posts'[s] = posts[s]]_vars

\* The view shows what the model holds.
UpToDate(s) == layout[s] = NumberOfItems(s) /\ label[s] = artist[s]

\* What came is displayed in the end, as long as the screen stays: results that came
\* while it was covered are made up for by the Task of its next appearance, unless a
\* call of the screen throws, which leaves the old view over the new model.
ResultIsDisplayed ==
    \A s \in Screens :
        (life[s] = "shown" /\ ~UpToDate(s)) ~>
            (UpToDate(s) \/ life[s] # "shown" \/ s \in failed)

\* The loader is hidden in the end, unless the record screen that showed it has no
\* person to ask for, or was taken away before it appeared.
LoaderHides ==
    loader ~> \/ ~loader
              \/ opener \in Records \ person
              \/ \A f \in Fetches : owner[f] # opener

\* A screen that was left is released: nothing it started holds it for ever.
LeftIsReleased == \A s \in Screens : life[s] = "left" ~> life[s] # "left"
=============================================================================
