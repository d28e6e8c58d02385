---------------------------- MODULE ImageLoading ----------------------------
(***************************************************************************)
(* How the collection screens (HomeViewController, NewsViewController,     *)
(* RecordInformationViewController) load the pictures of their cells: the  *)
(* dictionary loadingOperations, the DataLoadOperations in it and the      *)
(* OperationQueue that runs them.  Four kinds of thread take steps:        *)
(*   - the main thread: the display and prefetch callbacks of UIKit and    *)
(*     the closures of the main dispatch queue;                            *)
(*   - a worker of the OperationQueue: AsyncOperation.start();             *)
(*   - the URLSession callback of DataLoadOperation.main();                *)
(*   - the thread on which the queue runs a completionBlock.               *)
(* OperationQueue, URLSession and UIKit are modelled from the calls above. *)
(***************************************************************************)
EXTENDS Naturals, Sequences, FiniteSets

CONSTANTS
    IndexPaths,     \* positions of the collection view
    Loadable,       \* those whose record has an image URL
    Cells,          \* the reusable cells
    Ops,            \* identities of DataLoadOperations; each is created once
    MaxConcurrent,  \* operations the queue runs at a time
    MaxBatch,       \* bound: index paths in one prefetch call
    None            \* nil

ASSUME LoadableAssumption == Loadable \subseteq IndexPaths
ASSUME NoneAssumption == None \notin IndexPaths \cup Cells \cup Ops
ASSUME BoundsAssumption == MaxConcurrent \in Nat /\ MaxBatch \in Nat

VARIABLES
    loadingOperations,  \* [IndexPath: DataLoadOperation] of the screen
    index,       \* the index path an operation was created for, None before
    state,       \* AsyncOperation.state
    cancelled,   \* operations on which cancel() was called
    image,       \* operations whose image is not nil
    hook,        \* the cell captured by an operation's completionBlock
    worker,      \* where the queue's worker is in start() of an operation
    download,    \* the URLSession download of an operation
    running,     \* operations that hold a slot of the queue
    completed,   \* operations whose isFinished the queue has observed
    completions, \* completion blocks called by the queue and not yet run
    displayed,   \* the index path a cell is displaying, None if in the pool
    shown,       \* the picture in a cell
    mainQueue,   \* closures of setupImage waiting on the main dispatch queue
    willDisplay  \* the main thread inside willDisplay: the operation whose
                 \* completionBlock is about to be assigned, and the cell

opVars   == <<index, state, cancelled, image, hook>>
runVars  == <<worker, download, running, completed, completions>>
viewVars == <<displayed, shown, mainQueue, willDisplay>>
vars     == <<loadingOperations, opVars, runVars, viewVars>>

Placeholder == "placeholder"   \* the picture a new cell is created with
Blank       == "blank"         \* an image view whose image is nil

Pictures == IndexPaths \cup {Placeholder, Blank}

TypeOK ==
    /\ loadingOperations \in [IndexPaths -> Ops \cup {None}]
    /\ index \in [Ops -> IndexPaths \cup {None}]
    /\ state \in [Ops -> {"ready", "executing", "finished"}]
    /\ cancelled \subseteq Ops
    /\ image \subseteq Ops
    /\ hook \in [Ops -> Cells \cup {None}]
    /\ worker \in [Ops -> {"unqueued", "queued", "main", "leaving", "returned"}]
    /\ download \in [Ops -> {"none", "skipped", "running", "decoded", "stored",
                               "over", "failed"}]
    /\ running \subseteq Ops
    /\ completed \subseteq Ops
    /\ completions \subseteq Ops
    /\ displayed \in [Cells -> IndexPaths \cup {None}]
    /\ shown \in [Cells -> Pictures]
    /\ mainQueue \in Seq([cell : Cells, picture : IndexPaths \cup {Blank}])
    /\ willDisplay \in [op : Ops, cell : Cells] \cup {None}

Init ==
    /\ loadingOperations = [i \in IndexPaths |-> None]
    /\ index = [o \in Ops |-> None]
    /\ state = [o \in Ops |-> "ready"]
    /\ cancelled = {}
    /\ image = {}
    /\ hook = [o \in Ops |-> None]
    /\ worker = [o \in Ops |-> "unqueued"]
    /\ download = [o \in Ops |-> "none"]
    /\ running = {}
    /\ completed = {}
    /\ completions = {}
    /\ displayed = [c \in Cells |-> None]
    /\ shown = [c \in Cells |-> Placeholder]
    /\ mainQueue = <<>>
    /\ willDisplay = None

-----------------------------------------------------------------------------
(***************************************************************************)
(* The main thread.                                                        *)
(***************************************************************************)
MainIdle == willDisplay = None

\* cell.setupImage(image:) posts a closure to the main dispatch queue.
SetupImage(cell, picture) ==
    mainQueue' = Append(mainQueue, [cell |-> cell, picture |-> picture])

\* What dataLoader.image is when it is read.
ImageOf(o) == IF o \in image THEN index[o] ELSE Blank

\* loadImage(at:), loadingQueue.addOperation and the entry in the dictionary,
\* for every pair of an index path and the operation made for it.
Enqueue(created) ==
    /\ index' = [o \in Ops |-> IF \E i \in DOMAIN created : created[i] = o
                               THEN CHOOSE i \in DOMAIN created : created[i] = o
                               ELSE index[o]]
    /\ worker' = [o \in Ops |-> IF \E i \in DOMAIN created : created[i] = o
                                THEN "queued" ELSE worker[o]]
    /\ loadingOperations' = [i \in IndexPaths |-> IF i \in DOMAIN created
                                                  THEN created[i]
                                                  ELSE loadingOperations[i]]

\* Fault: the entry of a cancelled operation is kept.
CancelAndKeep(paths) ==
    /\ cancelled' = cancelled \cup {loadingOperations[i] : i \in paths}
    /\ UNCHANGED loadingOperations

\* cancel() and removeValue(forKey:) for the operations of some index paths.
CancelAndForget(paths) ==
    /\ cancelled' = cancelled \cup {loadingOperations[i] : i \in paths}
    /\ loadingOperations' = [i \in IndexPaths |-> IF i \in paths
                                                  THEN None
                                                  ELSE loadingOperations[i]]

\* UIKit displays a pooled cell at an index path that no cell displays.
Displays(c, i) ==
    /\ MainIdle
    /\ displayed[c] = None
    /\ \A d \in Cells : displayed[d] # i
    /\ displayed' = [displayed EXCEPT ![c] = i]

\* willDisplay, the operation is known and has its image.
WillDisplayLoaded(c, i) ==
    /\ Displays(c, i)
    /\ loadingOperations[i] # None
    /\ loadingOperations[i] \in image
    /\ SetupImage(c, ImageOf(loadingOperations[i]))
    /\ loadingOperations' = [loadingOperations EXCEPT ![i] = None]
    /\ UNCHANGED <<opVars, runVars, shown, willDisplay>>

\* willDisplay, the operation is known and has no image yet: the test and the
\* assignment of completionBlock are two steps, other threads run in between.
WillDisplayLoading(c, i) ==
    /\ Displays(c, i)
    /\ loadingOperations[i] # None
    /\ loadingOperations[i] \notin image
    /\ willDisplay' = [op |-> loadingOperations[i], cell |-> c]
    /\ UNCHANGED <<loadingOperations, opVars, runVars, shown, mainQueue>>

\* willDisplay, no operation: one is created, queued and entered in the
\* dictionary, and only then is its completionBlock assigned.
WillDisplayNew(c, i) ==
    /\ Displays(c, i)
    /\ loadingOperations[i] = None
    /\ i \in Loadable
    /\ \E o \in Ops :
          /\ index[o] = None
          /\ Enqueue([j \in {i} |-> o])
          /\ willDisplay' = [op |-> o, cell |-> c]
    /\ UNCHANGED <<state, cancelled, image, hook, download, running, completed,
                   completions, shown, mainQueue>>

\* willDisplay, no operation and loadImage(at:) returns nil.
WillDisplayWithoutURL(c, i) ==
    /\ Displays(c, i)
    /\ loadingOperations[i] = None
    /\ i \notin Loadable
    /\ UNCHANGED <<loadingOperations, opVars, runVars, shown, mainQueue, willDisplay>>

\* Fault: no completionBlock is assigned.
AssignNothing ==
    /\ ~MainIdle
    /\ willDisplay' = None
    /\ UNCHANGED <<loadingOperations, opVars, runVars, displayed, shown, mainQueue>>

\* dataLoader.completionBlock = {...}: too late once the queue has completed
\* the operation (the queue never calls it then).
AssignCompletionBlock ==
    /\ ~MainIdle
    /\ hook' = IF willDisplay.op \in completed
               THEN hook
               ELSE [hook EXCEPT ![willDisplay.op] = willDisplay.cell]
    /\ willDisplay' = None
    /\ UNCHANGED <<loadingOperations, index, state, cancelled, image, runVars,
                   displayed, shown, mainQueue>>

\* Fault: a cell that leaves the screen does not touch its operation.
DidEndDisplayingOnly(c) ==
    /\ MainIdle
    /\ displayed[c] # None
    /\ displayed' = [displayed EXCEPT ![c] = None]
    /\ UNCHANGED <<loadingOperations, opVars, runVars, shown, mainQueue, willDisplay>>

DidEndDisplaying(c) ==
    /\ MainIdle
    /\ displayed[c] # None
    /\ displayed' = [displayed EXCEPT ![c] = None]
    /\ CancelAndForget({i \in {displayed[c]} : loadingOperations[i] # None})
    /\ UNCHANGED <<index, state, image, hook, runVars, shown, mainQueue, willDisplay>>

\* prefetchItemsAt: the loop returns (it does not continue) at the first index
\* path that is already loading or has no URL.
PrefetchStops(i) == loadingOperations[i] # None \/ i \notin Loadable

PrefetchItems(batch) ==
    LET taken == {batch[k] : k \in {k \in DOMAIN batch :
                     \A j \in 1..k : ~PrefetchStops(batch[j])}}
    IN  /\ MainIdle
        /\ taken # {}
        /\ \E created \in [taken -> {o \in Ops : index[o] = None}] :
              /\ \A i, j \in taken : created[i] = created[j] => i = j
              /\ Enqueue(created)
        /\ UNCHANGED <<state, cancelled, image, hook, download, running,
                       completed, completions, viewVars>>

\* cancelPrefetchingForItemsAt: the loop returns at the first index path that
\* has no operation.
CancelPrefetching(batch) ==
    LET dropped == {batch[k] : k \in {k \in DOMAIN batch :
                       \A j \in 1..k : loadingOperations[batch[j]] # None}}
    IN  /\ MainIdle
        /\ dropped # {}
        /\ CancelAndForget(dropped)
        /\ UNCHANGED <<index, state, image, hook, runVars, viewVars>>

\* A closure posted by setupImage runs.
RunMainQueue ==
    /\ MainIdle
    /\ mainQueue # <<>>
    /\ shown' = [shown EXCEPT ![Head(mainQueue).cell] = Head(mainQueue).picture]
    /\ mainQueue' = Tail(mainQueue)
    /\ UNCHANGED <<loadingOperations, opVars, runVars, displayed, willDisplay>>

-----------------------------------------------------------------------------
(***************************************************************************)
(* A worker of the queue in AsyncOperation.start().                        *)
(***************************************************************************)

\* The queue observes that isFinished became true: the slot is free again and
\* the completionBlock, if there is one, is called on another thread.
QueueCompletes(o, slots) ==
    /\ running' = slots \ {o}
    /\ completed' = completed \cup {o}
    /\ completions' = IF hook[o] # None THEN completions \cup {o} ELSE completions

\* Fault: start() of a cancelled operation returns without state = .finished.
StartCancelledReturns(o) ==
    /\ worker[o] = "queued"
    /\ Cardinality(running) < MaxConcurrent
    /\ o \in cancelled
    /\ running' = running \cup {o}
    /\ worker' = [worker EXCEPT ![o] = "returned"]
    /\ UNCHANGED <<loadingOperations, opVars, download, completed, completions, viewVars>>

\* start() of an operation that was cancelled while it waited.
StartCancelled(o) ==
    /\ worker[o] = "queued"
    /\ Cardinality(running) < MaxConcurrent
    /\ o \in cancelled
    /\ state' = [state EXCEPT ![o] = "finished"]
    /\ worker' = [worker EXCEPT ![o] = "returned"]
    /\ QueueCompletes(o, running)
    /\ UNCHANGED <<loadingOperations, index, cancelled, image, hook, download, viewVars>>

Start(o) ==
    /\ worker[o] = "queued"
    /\ Cardinality(running) < MaxConcurrent
    /\ o \notin cancelled
    /\ running' = running \cup {o}
    /\ worker' = [worker EXCEPT ![o] = "main"]
    /\ UNCHANGED <<loadingOperations, opVars, download, completed, completions, viewVars>>

\* main(): a second test of isCancelled, then the download is resumed.
Main(o) ==
    /\ worker[o] = "main"
    /\ download' = [download EXCEPT ![o] = IF o \in cancelled THEN "skipped"
                                                               ELSE "running"]
    /\ worker' = [worker EXCEPT ![o] = "leaving"]
    /\ UNCHANGED <<loadingOperations, opVars, running, completed, completions, viewVars>>

\* state = .executing, after main() has returned: the callback of the download
\* may have assigned .finished before.
StoreExecuting(o) ==
    /\ worker[o] = "leaving"
    /\ state' = [state EXCEPT ![o] = "executing"]
    /\ worker' = [worker EXCEPT ![o] = "returned"]
    /\ UNCHANGED <<loadingOperations, index, cancelled, image, hook, download,
                   running, completed, completions, viewVars>>

-----------------------------------------------------------------------------
(***************************************************************************)
(* The callback of the download.                                           *)
(***************************************************************************)

\* Fault: the defer stands before the guard, and a failed download finishes.
DownloadFailsAndFinishes(o) ==
    /\ download[o] = "running"
    /\ download' = [download EXCEPT ![o] = "decoded"]
    /\ UNCHANGED <<loadingOperations, opVars, worker, running, completed,
                   completions, viewVars>>

\* An error, an unreadable file or data that is no image: the guard returns and
\* the state is never assigned.
DownloadFails(o) ==
    /\ download[o] = "running"
    /\ download' = [download EXCEPT ![o] = "failed"]
    /\ UNCHANGED <<loadingOperations, opVars, worker, running, completed,
                   completions, viewVars>>

DownloadStoresImage(o) ==
    /\ download[o] = "running"
    /\ image' = image \cup {o}
    /\ download' = [download EXCEPT ![o] = "decoded"]
    /\ UNCHANGED <<loadingOperations, index, state, cancelled, hook, worker,
                   running, completed, completions, viewVars>>

\* defer { state = .finished }: the store ...
DownloadStoresFinished(o) ==
    /\ download[o] = "decoded"
    /\ state' = [state EXCEPT ![o] = "finished"]
    /\ download' = [download EXCEPT ![o] = "stored"]
    /\ UNCHANGED <<loadingOperations, index, cancelled, image, hook, worker,
                   running, completed, completions, viewVars>>

\* Fault: didSet posts only the key path of the old state.
DownloadNotifiesOldState(o) ==
    /\ download[o] = "stored"
    /\ download' = [download EXCEPT ![o] = "over"]
    /\ UNCHANGED <<loadingOperations, opVars, worker, running, completed,
                   completions, viewVars>>

\* ... and didSet, which posts the key path of the state as it reads it now:
\* the queue learns nothing if .executing was stored in between.
DownloadNotifies(o) ==
    /\ download[o] = "stored"
    /\ download' = [download EXCEPT ![o] = "over"]
    /\ \/ /\ state[o] = "finished"
          /\ QueueCompletes(o, running)
       \/ /\ state[o] # "finished"
          /\ UNCHANGED <<running, completed, completions>>
    /\ UNCHANGED <<loadingOperations, opVars, worker, viewVars>>

\* The completionBlock: setupImage with the image the operation has now, and
\* removeValue(forKey: indexPath), whichever operation is there by then.
RunCompletionBlock(o) ==
    /\ o \in completions
    /\ completions' = completions \ {o}
    /\ SetupImage(hook[o], ImageOf(o))
    /\ loadingOperations' = [loadingOperations EXCEPT ![index[o]] = None]
    /\ UNCHANGED <<opVars, worker, download, running, completed, displayed,
                   shown, willDisplay>>

-----------------------------------------------------------------------------
Batches == UNION {{s \in [1..n -> IndexPaths] :
                     \A j, k \in 1..n : s[j] = s[k] => j = k} : n \in 1..MaxBatch}

User ==
    \/ \E c \in Cells, i \in IndexPaths :
          \/ WillDisplayLoaded(c, i)
          \/ WillDisplayLoading(c, i)
          \/ WillDisplayNew(c, i)
          \/ WillDisplayWithoutURL(c, i)
    \/ \E c \in Cells : DidEndDisplaying(c)
    \/ \E batch \in Batches : PrefetchItems(batch) \/ CancelPrefetching(batch)

QueueStarts(o) == Start(o) \/ StartCancelled(o)

Callback(o) ==
    \/ DownloadFails(o)
    \/ DownloadStoresImage(o)
    \/ DownloadStoresFinished(o)
    \/ DownloadNotifies(o)

System ==
    \/ AssignCompletionBlock
    \/ RunMainQueue
    \/ \E o \in Ops :
          \/ QueueStarts(o)
          \/ Main(o)
          \/ StoreExecuting(o)
          \/ Callback(o)
          \/ RunCompletionBlock(o)

Next == User \/ System

Spec == Init /\ [][Next]_vars

\* Threads that have started run on, the queue starts what has a slot, and every
\* download ends (the session's timeout); the user owes nothing.
Fairness ==
    /\ WF_vars(AssignCompletionBlock)
    /\ WF_vars(RunMainQueue)
    /\ \A o \in Ops :
          /\ WF_vars(QueueStarts(o))
          /\ WF_vars(Main(o))
          /\ WF_vars(StoreExecuting(o))
          /\ WF_vars(Callback(o))
          /\ WF_vars(RunCompletionBlock(o))

FairSpec == Spec /\ Fairness

-----------------------------------------------------------------------------
(***************************************************************************)
(* Properties.                                                             *)
(***************************************************************************)

\* An entry of loadingOperations is an operation for that very index path, and
\* one that was not cancelled: didEndDisplaying and cancelPrefetching remove
\* what they cancel, and completion blocks that run late only ever remove.
DictSound ==
    \A i \in IndexPaths : loadingOperations[i] # None =>
        /\ index[loadingOperations[i]] = i
        /\ loadingOperations[i] \notin cancelled

\* The queue completes an operation without a picture only if the operation was
\* cancelled: a failed download never completes, so a completion block posts nil
\* (and blanks a cell) only on behalf of a cancelled operation.
BlankOnlyFromCancelled ==
    \A o \in completed : o \notin image => o \in cancelled

\* The completionBlock of an operation that is still in loadingOperations was
\* given the cell that displays its index path now: the picture can reach a
\* reused cell only from an operation the dictionary has lost.
RightCell ==
    \A i \in IndexPaths :
        /\ loadingOperations[i] # None
        /\ hook[loadingOperations[i]] # None
        => displayed[hook[loadingOperations[i]]] = i

\* An operation that will hold its slot of the queue for ever: the download
\* failed, or cancel() fell between the tests of isCancelled in start() and in
\* main(), or .executing was stored over .finished before didSet read it.
Leaked(o) ==
    /\ o \in running
    /\ worker[o] \in {"leaving", "returned"}
    /\ \/ download[o] \in {"failed", "skipped"}
       \/ download[o] = "over" /\ worker[o] = "returned" /\ state[o] = "executing"

Progressing(o) ==
    worker[o] = "main" \/ download[o] \in {"running", "decoded", "stored"}

\* Slots are conserved: what start() took is given back exactly once, by the
\* notification of isFinished; a slot that is held belongs to an operation that
\* still advances, or is one of the three leaks.
SlotAccounted ==
    \A o \in Ops :
        /\ o \in running => Progressing(o) \/ Leaked(o)
        /\ o \in completed => o \notin running
        /\ worker[o] = "returned" => o \in running \cup completed

\* Where an operation is for someone who only knows the queue.
Phase ==
    [o \in Ops |->
        IF worker[o] = "unqueued" THEN "new"
        ELSE IF worker[o] = "queued" THEN "waiting"
        ELSE IF Leaked(o) THEN "stuck"
        ELSE IF o \in running THEN "running"
        ELSE "done"]

Queue == INSTANCE Slots WITH Jobs <- Ops, Capacity <- MaxConcurrent,
                             phase <- Phase, loaded <- image

\* The loading of pictures as Slots promises it: through all orders of start(),
\* the download callback, didSet and cancel(), every step of the threads is one
\* that Slots allows or changes nothing there.  In particular an operation gives
\* its slot back once, and with its picture, or not at all.
ImplementsSlots == Queue!Spec

\* No later step gives a leaked slot back.
LeakIsForever == [][\A o \in Ops : Leaked(o) => Leaked(o)']_vars

\* Every slot of the queue is held by a leaked operation.
StuckQueue ==
    /\ Cardinality(running) >= MaxConcurrent
    /\ \A o \in running : Leaked(o)

\* addOperation is followed by start() of the operation, by completion or a
\* leak, unless leaks have taken all the slots.
QueuedIsServed ==
    \A o \in Ops :
        worker[o] = "queued" ~> (o \in completed \/ Leaked(o) \/ StuckQueue)

\* The operation completes before willDisplay has assigned its completionBlock.
TooLate(o, c) == willDisplay = [op |-> o, cell |-> c] /\ o \in completed

\* A cell that waits for an operation gets the picture, unless it is scrolled
\* away or the operation is cancelled, leaked, kept out by leaks, or had
\* completed by the time willDisplay assigned its completionBlock.
WaitingCellIsServed ==
    \A o \in Ops, c \in Cells, i \in IndexPaths :
        (willDisplay = [op |-> o, cell |-> c] /\ displayed[c] = i) ~>
            \/ shown[c] = i
            \/ displayed[c] # i
            \/ o \in cancelled
            \/ Leaked(o)
            \/ StuckQueue
            \/ TooLate(o, c)
=============================================================================
