----------------------------- MODULE Catalogue ------------------------------
(***************************************************************************)
(* The catalogue of the home screen: HomeViewController and HomeViewModel, *)
(* on NetworkManager and its Router.  Every appearance starts a fetch, a   *)
(* task group of one call per query; fetches overlap.  The result is       *)
(* assigned on the Task's thread, and the collection view keeps the        *)
(* sections and items it counted at its last reload, while its data source *)
(* subscripts the arrays as they are now.                                  *)
(* Of an object only the number of its records matters here, nil included. *)
(***************************************************************************)
EXTENDS Naturals, Sequences

CONSTANTS
    Queries,    \* the queries of one fetch
    Fetches,    \* Tasks of setupVM; bounds the appearances
    Codes,      \* status codes of the server
    Counts,     \* numbers of records of an object, None for no records at all
    None        \* nil

ASSUME SetsAssumption ==
    /\ Codes \subseteq Nat
    /\ Counts \subseteq Nat \cup {None}
    /\ None \notin Nat \cup (Fetches \X Queries)

Calls == Fetches \X Queries

VARIABLES
    opened,     \* viewDidLoad was run
    visible,    \* the screen is shown: its KVO observation is registered
    loader,     \* the loader covers the window
    pc,         \* where a fetch is
    call,       \* where a call of its task group is
    collection, \* per fetch under way: the results so far, in the order they came
    model,      \* hardvardMuseumObjectModel
    got,        \* didGetAllHardvardMuseumObjectModel
    layout,     \* per section that the collection view laid out: its items
    reloads,    \* closures waiting on the main queue to reload it
    missed,     \* history: a model was assigned unobserved since the last reload
    task,       \* Router.task: the latest data task
    resumed     \* data tasks that were resumed

viewVars  == <<opened, visible, loader>>
modelVars == <<model, got, layout, reloads, missed>>
wireVars  == <<task, resumed>>
vars      == <<viewVars, pc, call, collection, modelVars, wireVars>>

Section == [fetch : Fetches, query : Queries, code : Codes, records : Counts]

TypeOK ==
    /\ opened \in BOOLEAN
    /\ visible \in BOOLEAN
    /\ loader \in BOOLEAN
    /\ pc \in [Fetches -> {"none", "group", "assigned", "done", "lost"}]
    /\ call \in [Calls -> {"none", "started", "sent", "ended"}]
    /\ collection \in [Fetches -> Seq(Section)]
    /\ model \in Seq(Section)
    /\ got \in BOOLEAN
    /\ layout \in Seq(Nat)
    /\ reloads \in Nat
    /\ missed \in BOOLEAN
    /\ task \in Calls \cup {None}
    /\ resumed \subseteq Calls

\* A new process: nothing was shown and nothing fetched.
Fresh ==
    /\ opened' = FALSE
    /\ visible' = FALSE
    /\ loader' = FALSE
    /\ model' = <<>>
    /\ got' = FALSE
    /\ layout' = <<1>>
    /\ reloads' = 0
    /\ missed' = FALSE
    /\ task' = None

Init ==
    /\ opened = FALSE
    /\ visible = FALSE
    /\ loader = FALSE
    /\ pc = [f \in Fetches |-> "none"]
    /\ call = [c \in Calls |-> "none"]
    /\ collection = [f \in Fetches |-> <<>>]
    /\ model = <<>>
    /\ got = FALSE
    /\ layout = <<1>>
    /\ reloads = 0
    /\ missed = FALSE
    /\ task = None
    /\ resumed = {}

-----------------------------------------------------------------------------
(***************************************************************************)
(* The screen.                                                             *)
(***************************************************************************)

\* viewDidLoad, once, shows the loader; viewDidAppear starts a fetch, whose group
\* starts a child task per query.
Appear(f) ==
    /\ ~visible
    /\ pc[f] = "none"
    /\ visible' = TRUE
    /\ loader' = (loader \/ ~opened)
    /\ opened' = TRUE
    /\ pc' = [pc EXCEPT ![f] = "group"]
    /\ call' = [c \in Calls |-> IF c[1] = f THEN "started" ELSE call[c]]
    /\ UNCHANGED <<collection, modelVars, wireVars>>

\* Another tab or a pushed screen: the observation is invalidated.
Disappear ==
    /\ visible
    /\ visible' = FALSE
    /\ UNCHANGED <<opened, loader, pc, call, collection, modelVars, wireVars>>

HideLoader ==
    /\ loader
    /\ loader' = FALSE
    /\ UNCHANGED <<opened, visible, pc, call, collection, modelVars, wireVars>>

\* numberOfSections and numberOfItemsInSection, as reloadData finds them.
NumberOfItemsInSection(section) ==
    IF model[section].records = None THEN 1 ELSE model[section].records

NumberOfItems ==
    IF got THEN [section \in DOMAIN model |-> NumberOfItemsInSection(section)] ELSE <<1>>

\* Fault: the collection view is told of the new sections only when there are more.
ReloadWhenMore ==
    /\ reloads > 0
    /\ reloads' = reloads - 1
    /\ layout' = IF Len(NumberOfItems) > Len(layout) THEN NumberOfItems ELSE layout
    /\ missed' = FALSE
    /\ UNCHANGED <<viewVars, pc, call, collection, model, got, wireVars>>

\* The closure of the observer.
Reload ==
    /\ reloads > 0
    /\ reloads' = reloads - 1
    /\ layout' = NumberOfItems
    /\ missed' = FALSE
    /\ UNCHANGED <<viewVars, pc, call, collection, model, got, wireVars>>

\* A section that is laid out has no entry any more, or an item of it no record: one of
\* the subscripts of createHardvardMuseumObjectRecord or of its neighbours traps.
\* (Without records at all the optional chain ends before the second subscript.)
OutOfRange ==
    got /\ \E section \in DOMAIN layout :
              section \in DOMAIN model =>
                  /\ model[section].records # None
                  /\ layout[section] > model[section].records

\* Such a cell or header comes into view, or such a cell is selected: the process ends.
DisplayTraps ==
    /\ visible
    /\ OutOfRange
    /\ Fresh
    /\ pc' = [f \in Fetches |-> IF pc[f] = "none" THEN "none" ELSE "lost"]
    /\ call' = [c \in Calls |-> IF call[c] = "none" THEN "none" ELSE "ended"]
    /\ collection' = [f \in Fetches |-> <<>>]
    /\ UNCHANGED resumed

-----------------------------------------------------------------------------
(***************************************************************************)
(* A call: callAndParseAPI on Router.request.                              *)
(***************************************************************************)

HandleNetworkResponse(code) ==
    CASE code \in 200..299 -> "success"
      [] code \in 401..500 -> "authenticationError"
      [] code \in 501..599 -> "badRequest"
      [] code = 600        -> "outdated"
      [] OTHER             -> "failed"

\* request makes a data task, for all calls of the router in the same property, and
\* sends the request by another one.
Send(c) ==
    /\ call[c] = "started"
    /\ call' = [call EXCEPT ![c] = "sent"]
    /\ task' = c
    /\ UNCHANGED <<viewVars, pc, collection, modelVars, resumed>>

\* The answer, an object with n records if it decodes: whichever data task is the latest
\* now is resumed, and sends its request once more (that answer reaches nobody).  The
\* object joins the collection of its group unless its status is refused.
Answer(c, code, decodes, n) ==
    /\ call[c] = "sent"
    /\ call' = [call EXCEPT ![c] = "ended"]
    /\ resumed' = resumed \cup {task}
    /\ collection' =
         IF HandleNetworkResponse(code) = "success" /\ decodes
         THEN [collection EXCEPT ![c[1]] =
                 Append(@, [fetch |-> c[1], query |-> c[2], code |-> code, records |-> n])]
         ELSE collection
    /\ UNCHANGED <<viewVars, pc, modelVars, task>>

\* No answer: the error is caught, the result is nil.
CallFails(c) ==
    /\ call[c] = "sent"
    /\ call' = [call EXCEPT ![c] = "ended"]
    /\ UNCHANGED <<viewVars, pc, collection, modelVars, wireVars>>

-----------------------------------------------------------------------------
(***************************************************************************)
(* A fetch: getHardvardMuseumObjectModel, then Loader.shared.hide().       *)
(***************************************************************************)
GroupEnded(f) == \A q \in Queries : call[<<f, q>>] = "ended"

\* Fault: nothing is assigned, and nothing reported, when nothing came.
AssignSome(f) ==
    /\ pc[f] = "group"
    /\ GroupEnded(f)
    /\ pc' = [pc EXCEPT ![f] = "assigned"]
    /\ model' = collection[f]
    /\ got' = TRUE
    /\ reloads' = IF visible /\ collection[f] # <<>> THEN reloads + 1 ELSE reloads
    /\ missed' = (missed \/ ~visible)
    /\ collection' = [collection EXCEPT ![f] = <<>>]
    /\ UNCHANGED <<viewVars, call, layout, wireVars>>

\* Fault: the results are added to what is there.
AssignMore(f) ==
    /\ pc[f] = "group"
    /\ GroupEnded(f)
    /\ pc' = [pc EXCEPT ![f] = "assigned"]
    /\ model' = model \o collection[f]
    /\ got' = TRUE
    /\ reloads' = IF visible THEN reloads + 1 ELSE reloads
    /\ missed' = (missed \/ ~visible)
    /\ collection' = [collection EXCEPT ![f] = <<>>]
    /\ UNCHANGED <<viewVars, call, layout, wireVars>>

\* The model is assigned, whatever an earlier or a later fetch has put there; didSet
\* reports it to a registered observer.
Assign(f) ==
    /\ pc[f] = "group"
    /\ GroupEnded(f)
    /\ pc' = [pc EXCEPT ![f] = "assigned"]
    /\ model' = collection[f]
    /\ got' = TRUE
    /\ reloads' = IF visible THEN reloads + 1 ELSE reloads
    /\ missed' = (missed \/ ~visible)
    /\ collection' = [collection EXCEPT ![f] = <<>>]
    /\ UNCHANGED <<viewVars, call, layout, wireVars>>

\* Fault: the loader is left to the one who showed it.
ReturnQuietly(f) ==
    /\ pc[f] = "assigned"
    /\ pc' = [pc EXCEPT ![f] = "done"]
    /\ UNCHANGED <<viewVars, call, collection, modelVars, wireVars>>

Return(f) ==
    /\ pc[f] = "assigned"
    /\ pc' = [pc EXCEPT ![f] = "done"]
    /\ loader' = FALSE
    /\ UNCHANGED <<opened, visible, call, collection, modelVars, wireVars>>

-----------------------------------------------------------------------------
Step(f) == Assign(f) \/ Return(f)

Progress(c) ==
    \/ Send(c) \/ CallFails(c)
    \/ \E code \in Codes, decodes \in BOOLEAN, n \in Counts : Answer(c, code, decodes, n)

Next ==
    \/ Disappear \/ HideLoader \/ Reload \/ DisplayTraps
    \/ \E f \in Fetches : Appear(f) \/ Step(f)
    \/ \E c \in Calls : Progress(c)

Spec == Init /\ [][Next]_vars

\* Tasks and the main queue are scheduled; a call is answered or times out.
FairSpec ==
    /\ Spec
    /\ WF_vars(Reload)
    /\ \A f \in Fetches : WF_vars(Step(f))
    /\ \A c \in Calls : WF_vars(Progress(c))

-----------------------------------------------------------------------------
(***************************************************************************)
(* Properties.                                                             *)
(***************************************************************************)

\* The subscripts of the data source, of a section or of an item, can run out of range
\* only while a reload is due, or after a model was assigned to a screen that was not
\* shown.
TrapOnlyInWindow == OutOfRange => reloads > 0 \/ missed

\* The catalogue is the work of one fetch: though fetches overlap and every request may
\* be sent twice, there is at most one section per query, none of another fetch, all of
\* accepted answers.
ModelOfOneFetch ==
    \A i, j \in DOMAIN model :
        /\ model[i].fetch = model[j].fetch
        /\ model[i].query = model[j].query => i = j
        /\ model[i].code >= 200 /\ model[i].code < 300

\* The loader is hidden in the end, whatever the three calls bring.
LoaderHides == loader ~> ~loader

\* Sections that were missed while the screen was covered are laid out again once it
\* stays visible, by the fetch its appearance started.
MissedIsRepaired == (missed /\ visible) ~> (~missed \/ ~visible)
=============================================================================
