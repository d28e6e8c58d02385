------------------------- MODULE ImageLoadingProofs -------------------------
(***************************************************************************)
(* Proofs about ImageLoading, for every number of index paths, cells,      *)
(* operations and slots.                                                   *)
(***************************************************************************)
EXTENDS ImageLoading, SequenceTheorems, TLAPS

\* An operation that has not been created has left no trace anywhere.
FreshInv ==
    \A o \in Ops : index[o] = None =>
        /\ worker[o] = "unqueued"
        /\ download[o] = "none"
        /\ hook[o] = None
        /\ o \notin cancelled \cup image \cup completed

\* A completionBlock that is called exists, for an operation that exists.
CompletionsInv == \A o \in completions : o \in completed /\ hook[o] # None

\* Past the guard of the download callback, the image is there.
ImageInv == \A o \in Ops : download[o] \in {"decoded", "stored", "over"} => o \in image

\* Between the two steps of willDisplay the cell stays where it was displayed.
WillDisplayInv ==
    willDisplay # None =>
        /\ index[willDisplay.op] # None
        /\ displayed[willDisplay.cell] = index[willDisplay.op]

\* The inductive invariant.
Inv ==
    /\ TypeOK
    /\ DictSound
    /\ RightCell
    /\ BlankOnlyFromCancelled
    /\ FreshInv
    /\ CompletionsInv
    /\ ImageInv
    /\ WillDisplayInv

-----------------------------------------------------------------------------
\* What Enqueue does to the dictionary, to index and to worker, when distinct
\* operations are made for distinct index paths (the two callers guarantee it).
LEMMA EnqueueFacts ==
    ASSUME TypeOK,
           NEW S \in SUBSET IndexPaths,
           NEW created \in [S -> {o \in Ops : index[o] = None}],
           \A i, j \in S : created[i] = created[j] => i = j,
           Enqueue(created)
    PROVE  /\ loadingOperations' \in [IndexPaths -> Ops \cup {None}]
           /\ index' \in [Ops -> IndexPaths \cup {None}]
           /\ worker' \in [Ops -> {"unqueued", "queued", "main", "leaving", "returned"}]
           /\ \A i \in S : /\ loadingOperations'[i] = created[i]
                           /\ index'[created[i]] = i
           /\ \A i \in IndexPaths \ S : loadingOperations'[i] = loadingOperations[i]
           /\ \A o \in Ops : index[o] # None => /\ index'[o] = index[o]
                                                /\ worker'[o] = worker[o]
           /\ \A o \in Ops : index'[o] = None => worker'[o] = worker[o]
           /\ \A o \in Ops : worker'[o] \in {worker[o], "queued"}
<1>1. DOMAIN created = S
  OBVIOUS
<1> DEFINE Made(o) == \E i \in S : created[i] = o
           Path(o) == CHOOSE i \in S : created[i] = o
<1>2. \A o \in Ops : Made(o) => Path(o) \in S /\ created[Path(o)] = o
  OBVIOUS
<1>3. \A i \in S : created[i] \in Ops /\ index[created[i]] = None /\ Made(created[i])
  OBVIOUS
<1>4. \A i \in S : Path(created[i]) = i
  BY <1>2, <1>3
<1>5. /\ index' = [o \in Ops |-> IF Made(o) THEN Path(o) ELSE index[o]]
      /\ worker' = [o \in Ops |-> IF Made(o) THEN "queued" ELSE worker[o]]
      /\ loadingOperations' = [i \in IndexPaths |-> IF i \in S THEN created[i]
                                                    ELSE loadingOperations[i]]
  BY <1>1 DEF Enqueue
<1>6. \A o \in Ops : Made(o) => index[o] = None
  BY <1>3
<1>7. None \notin IndexPaths
  BY NoneAssumption
<1> HIDE DEF Made, Path
<1> QED
  BY <1>2, <1>3, <1>4, <1>5, <1>6, <1>7 DEF TypeOK

-----------------------------------------------------------------------------
\* Main-thread steps.
LEMMA InitInv == Init => Inv
BY NoneAssumption DEF Init, Inv, TypeOK, DictSound, RightCell, BlankOnlyFromCancelled,
   FreshInv, CompletionsInv, ImageInv, WillDisplayInv, Pictures, Placeholder, Blank

LEMMA WillDisplayLoadedInv ==
    ASSUME Inv, NEW c \in Cells, NEW i \in IndexPaths, WillDisplayLoaded(c, i)
    PROVE  Inv'
<1> USE NoneAssumption DEF WillDisplayLoaded, Displays, MainIdle, opVars, runVars
<1>1. TypeOK'
  BY DEF Inv, TypeOK, DictSound, SetupImage, ImageOf
<1>2. DictSound'
  BY DEF Inv, TypeOK, DictSound
<1>3. RightCell'
  BY DEF Inv, TypeOK, RightCell
<1>4. (BlankOnlyFromCancelled /\ FreshInv /\ CompletionsInv /\ ImageInv)'
  BY DEF Inv, BlankOnlyFromCancelled, FreshInv, CompletionsInv, ImageInv
<1>5. WillDisplayInv'
  BY DEF WillDisplayInv
<1> QED
  BY <1>1, <1>2, <1>3, <1>4, <1>5 DEF Inv

LEMMA WillDisplayLoadingInv ==
    ASSUME Inv, NEW c \in Cells, NEW i \in IndexPaths, WillDisplayLoading(c, i)
    PROVE  Inv'
<1> USE NoneAssumption DEF WillDisplayLoading, Displays, MainIdle, opVars, runVars
<1>1. TypeOK'
  BY DEF Inv, TypeOK
<1>2. DictSound'
  BY DEF Inv, TypeOK, DictSound
<1>3. RightCell'
  BY DEF Inv, TypeOK, RightCell
<1>4. (BlankOnlyFromCancelled /\ FreshInv /\ CompletionsInv /\ ImageInv)'
  BY DEF Inv, BlankOnlyFromCancelled, FreshInv, CompletionsInv, ImageInv
<1>5. WillDisplayInv'
  BY DEF Inv, TypeOK, DictSound, WillDisplayInv
<1> QED
  BY <1>1, <1>2, <1>3, <1>4, <1>5 DEF Inv

LEMMA WillDisplayNewInv ==
    ASSUME Inv, NEW c \in Cells, NEW i \in IndexPaths, WillDisplayNew(c, i)
    PROVE  Inv'
<1> USE NoneAssumption
<1>1. PICK o \in Ops : /\ index[o] = None
                       /\ Enqueue([j \in {i} |-> o])
                       /\ willDisplay' = [op |-> o, cell |-> c]
  BY DEF WillDisplayNew
<1> DEFINE created == [j \in {i} |-> o]
<1>2. /\ loadingOperations' \in [IndexPaths -> Ops \cup {None}]
      /\ index' \in [Ops -> IndexPaths \cup {None}]
      /\ worker' \in [Ops -> {"unqueued", "queued", "main", "leaving", "returned"}]
      /\ loadingOperations'[i] = o
      /\ index'[o] = i
      /\ \A j \in IndexPaths \ {i} : loadingOperations'[j] = loadingOperations[j]
      /\ \A p \in Ops : index[p] # None => /\ index'[p] = index[p]
                                           /\ worker'[p] = worker[p]
      /\ \A p \in Ops : index'[p] = None => worker'[p] = worker[p]
  <2>1. {i} \in SUBSET IndexPaths /\ created \in [{i} -> {p \in Ops : index[p] = None}]
    BY <1>1
  <2>2. \A j, k \in {i} : created[j] = created[k] => j = k
    OBVIOUS
  <2>3. created[i] = o
    OBVIOUS
  <2>4. TypeOK /\ Enqueue(created)
    BY <1>1 DEF Inv
  <2> HIDE DEF created
  <2> QED
    BY <2>1, <2>2, <2>3, <2>4, EnqueueFacts
<1>3. /\ displayed[c] = None
      /\ displayed' = [displayed EXCEPT ![c] = i]
      /\ UNCHANGED <<state, cancelled, image, hook, download, running, completed,
                     completions, shown, mainQueue>>
  BY DEF WillDisplayNew, Displays
<1>4. TypeOK'
  BY <1>1, <1>2, <1>3 DEF Inv, TypeOK
<1>5. DictSound'
  BY <1>1, <1>2, <1>3 DEF Inv, TypeOK, DictSound, FreshInv
<1>6. RightCell'
  BY <1>1, <1>2, <1>3 DEF Inv, TypeOK, RightCell, FreshInv
<1>7. FreshInv'
  BY <1>1, <1>2, <1>3 DEF Inv, TypeOK, FreshInv
<1>8. (BlankOnlyFromCancelled /\ CompletionsInv /\ ImageInv)'
  BY <1>3 DEF Inv, BlankOnlyFromCancelled, CompletionsInv, ImageInv
<1>9. WillDisplayInv'
  BY <1>1, <1>2, <1>3 DEF Inv, TypeOK, WillDisplayInv
<1> QED
  BY <1>4, <1>5, <1>6, <1>7, <1>8, <1>9 DEF Inv

LEMMA WillDisplayWithoutURLInv ==
    ASSUME Inv, NEW c \in Cells, NEW i \in IndexPaths,
           WillDisplayWithoutURL(c, i)
    PROVE  Inv'
<1> USE NoneAssumption DEF WillDisplayWithoutURL, Displays, MainIdle, opVars, runVars
<1>1. TypeOK'
  BY DEF Inv, TypeOK
<1>2. RightCell'
  BY DEF Inv, TypeOK, RightCell
<1>3. WillDisplayInv'
  BY DEF Inv, TypeOK, WillDisplayInv
<1>4. (DictSound /\ BlankOnlyFromCancelled /\ FreshInv /\ CompletionsInv /\ ImageInv)'
  BY DEF Inv, DictSound, BlankOnlyFromCancelled, FreshInv, CompletionsInv, ImageInv
<1> QED
  BY <1>1, <1>2, <1>3, <1>4 DEF Inv

LEMMA AssignCompletionBlockInv ==
    ASSUME Inv, AssignCompletionBlock
    PROVE  Inv'
<1> USE NoneAssumption DEF AssignCompletionBlock, MainIdle, runVars
<1>1. TypeOK'
  BY DEF Inv, TypeOK
<1>2. RightCell'
  BY DEF Inv, TypeOK, RightCell, DictSound, WillDisplayInv
<1>3. FreshInv'
  BY DEF Inv, TypeOK, FreshInv, WillDisplayInv
<1>4. CompletionsInv'
  BY DEF Inv, TypeOK, CompletionsInv
<1>5. WillDisplayInv'
  BY DEF Inv, TypeOK, WillDisplayInv
<1>6. (DictSound /\ BlankOnlyFromCancelled /\ ImageInv)'
  BY DEF Inv, DictSound, BlankOnlyFromCancelled, ImageInv
<1> QED
  BY <1>1, <1>2, <1>3, <1>4, <1>5, <1>6 DEF Inv

LEMMA DidEndDisplayingInv ==
    ASSUME Inv, NEW c \in Cells, DidEndDisplaying(c)
    PROVE  Inv'
<1> USE NoneAssumption DEF DidEndDisplaying, CancelAndForget, MainIdle, runVars
<1>1. TypeOK'
  BY DEF Inv, TypeOK
<1>2. DictSound'
  BY DEF Inv, TypeOK, DictSound
<1>3. RightCell'
  BY DEF Inv, TypeOK, RightCell
<1>4. BlankOnlyFromCancelled'
  BY DEF Inv, TypeOK, BlankOnlyFromCancelled
<1>5. FreshInv'
  BY DEF Inv, TypeOK, FreshInv, DictSound
<1>6. WillDisplayInv'
  BY DEF Inv, TypeOK, WillDisplayInv
<1>7. (CompletionsInv /\ ImageInv)'
  BY DEF Inv, CompletionsInv, ImageInv
<1> QED
  BY <1>1, <1>2, <1>3, <1>4, <1>5, <1>6, <1>7 DEF Inv

LEMMA PrefetchItemsInv ==
    ASSUME Inv, NEW batch \in Batches, PrefetchItems(batch)
    PROVE  Inv'
<1> USE NoneAssumption
<1> DEFINE taken == {batch[k] : k \in {k \in DOMAIN batch :
                        \A j \in 1..k : ~PrefetchStops(batch[j])}}
<1>1. taken \in SUBSET IndexPaths
  BY DEF Batches
<1>2. PICK created \in [taken -> {o \in Ops : index[o] = None}] :
          /\ \A i, j \in taken : created[i] = created[j] => i = j
          /\ Enqueue(created)
  BY DEF PrefetchItems
<1>3. /\ MainIdle
      /\ UNCHANGED <<state, cancelled, image, hook, download, running,
                     completed, completions, viewVars>>
  BY DEF PrefetchItems
<1> HIDE DEF taken
<1>4. \A i \in taken : created[i] \in Ops /\ index[created[i]] = None
  BY <1>2
<1>5. /\ loadingOperations' \in [IndexPaths -> Ops \cup {None}]
      /\ index' \in [Ops -> IndexPaths \cup {None}]
      /\ worker' \in [Ops -> {"unqueued", "queued", "main", "leaving", "returned"}]
      /\ \A i \in taken : /\ loadingOperations'[i] = created[i]
                          /\ index'[created[i]] = i
      /\ \A i \in IndexPaths \ taken : loadingOperations'[i] = loadingOperations[i]
      /\ \A o \in Ops : index[o] # None => /\ index'[o] = index[o]
                                           /\ worker'[o] = worker[o]
      /\ \A o \in Ops : index'[o] = None => worker'[o] = worker[o]
  BY <1>1, <1>2, EnqueueFacts DEF Inv
<1> USE <1>1, <1>3, <1>4, <1>5 DEF viewVars, MainIdle
<1>6. TypeOK'
  BY DEF Inv, TypeOK
<1>7. DictSound'
  BY DEF Inv, TypeOK, DictSound, FreshInv
<1>8. RightCell'
  BY DEF Inv, TypeOK, RightCell, FreshInv
<1>9. FreshInv'
  BY DEF Inv, TypeOK, FreshInv
<1>10. (BlankOnlyFromCancelled /\ CompletionsInv /\ ImageInv /\ WillDisplayInv)'
  BY DEF Inv, BlankOnlyFromCancelled, CompletionsInv, ImageInv, WillDisplayInv
<1> QED
  BY <1>6, <1>7, <1>8, <1>9, <1>10 DEF Inv

LEMMA CancelPrefetchingInv ==
    ASSUME Inv, NEW batch \in Batches, CancelPrefetching(batch)
    PROVE  Inv'
<1> USE NoneAssumption
<1> DEFINE dropped == {batch[k] : k \in {k \in DOMAIN batch :
                          \A j \in 1..k : loadingOperations[batch[j]] # None}}
<1>1. dropped \in SUBSET IndexPaths /\ \A i \in dropped : loadingOperations[i] # None
  BY DEF Batches
<1>2. /\ MainIdle
      /\ CancelAndForget(dropped)
      /\ UNCHANGED <<index, state, image, hook, runVars, viewVars>>
  BY DEF CancelPrefetching
<1> HIDE DEF dropped
<1> USE <1>1, <1>2 DEF MainIdle, CancelAndForget, runVars, viewVars
<1>3. TypeOK'
  BY DEF Inv, TypeOK
<1>4. DictSound'
  BY DEF Inv, TypeOK, DictSound
<1>5. RightCell'
  BY DEF Inv, TypeOK, RightCell
<1>6. FreshInv'
  BY DEF Inv, TypeOK, FreshInv, DictSound
<1>7. (BlankOnlyFromCancelled /\ CompletionsInv /\ ImageInv /\ WillDisplayInv)'
  BY DEF Inv, BlankOnlyFromCancelled, CompletionsInv, ImageInv, WillDisplayInv
<1> QED
  BY <1>3, <1>4, <1>5, <1>6, <1>7 DEF Inv

LEMMA RunMainQueueInv ==
    ASSUME Inv, RunMainQueue
    PROVE  Inv'
<1> USE NoneAssumption DEF RunMainQueue, MainIdle, opVars, runVars
<1>1. TypeOK'
  <2> DEFINE Closures == [cell : Cells, picture : IndexPaths \cup {Blank}]
  <2>1. mainQueue \in Seq(Closures) /\ mainQueue # <<>>
    BY DEF Inv, TypeOK
  <2>2. Head(mainQueue) \in Closures /\ Tail(mainQueue) \in Seq(Closures)
    BY <2>1, HeadTailProperties
  <2>3. Head(mainQueue).cell \in Cells /\ Head(mainQueue).picture \in Pictures
    BY <2>2 DEF Pictures
  <2>4. shown' \in [Cells -> Pictures] /\ mainQueue' \in Seq(Closures)
    BY <2>2, <2>3 DEF Inv, TypeOK
  <2> QED
    BY <2>4 DEF Inv, TypeOK
<1>2. WillDisplayInv'
  BY DEF Inv, TypeOK, WillDisplayInv
<1>3. (DictSound /\ RightCell /\ BlankOnlyFromCancelled /\ FreshInv /\ CompletionsInv /\ ImageInv)'
  BY DEF Inv, DictSound, RightCell, BlankOnlyFromCancelled, FreshInv, CompletionsInv, ImageInv
<1> QED
  BY <1>1, <1>2, <1>3 DEF Inv

-----------------------------------------------------------------------------
\* Steps of the queue, of the download callback and of a completionBlock.

LEMMA StartCancelledInv ==
    ASSUME Inv, NEW o \in Ops, StartCancelled(o)
    PROVE  Inv'
<1> USE NoneAssumption DEF StartCancelled, QueueCompletes, viewVars
<1>1. TypeOK'
  BY DEF Inv, TypeOK
<1>2. BlankOnlyFromCancelled'
  BY DEF Inv, TypeOK, BlankOnlyFromCancelled
<1>3. FreshInv'
  BY DEF Inv, TypeOK, FreshInv
<1>4. CompletionsInv'
  BY DEF Inv, TypeOK, CompletionsInv
<1>5. WillDisplayInv'
  BY DEF Inv, TypeOK, WillDisplayInv
<1>6. (DictSound /\ RightCell /\ ImageInv)'
  BY DEF Inv, DictSound, RightCell, ImageInv
<1> QED
  BY <1>1, <1>2, <1>3, <1>4, <1>5, <1>6 DEF Inv

LEMMA StartInv ==
    ASSUME Inv, NEW o \in Ops, Start(o)
    PROVE  Inv'
<1> USE NoneAssumption DEF Start, opVars, viewVars
<1>1. TypeOK'
  BY DEF Inv, TypeOK
<1>2. FreshInv'
  BY DEF Inv, TypeOK, FreshInv
<1>3. WillDisplayInv'
  BY DEF Inv, TypeOK, WillDisplayInv
<1>4. (DictSound /\ RightCell /\ BlankOnlyFromCancelled /\ CompletionsInv /\ ImageInv)'
  BY DEF Inv, DictSound, RightCell, BlankOnlyFromCancelled, CompletionsInv, ImageInv
<1> QED
  BY <1>1, <1>2, <1>3, <1>4 DEF Inv

LEMMA MainInv ==
    ASSUME Inv, NEW o \in Ops, Main(o)
    PROVE  Inv'
<1> USE NoneAssumption DEF Main, opVars, viewVars
<1>1. TypeOK'
  BY DEF Inv, TypeOK
<1>2. FreshInv'
  BY DEF Inv, TypeOK, FreshInv
<1>3. ImageInv'
  BY DEF Inv, TypeOK, ImageInv
<1>4. WillDisplayInv'
  BY DEF Inv, TypeOK, WillDisplayInv
<1>5. (DictSound /\ RightCell /\ BlankOnlyFromCancelled /\ CompletionsInv)'
  BY DEF Inv, DictSound, RightCell, BlankOnlyFromCancelled, CompletionsInv
<1> QED
  BY <1>1, <1>2, <1>3, <1>4, <1>5 DEF Inv

LEMMA StoreExecutingInv ==
    ASSUME Inv, NEW o \in Ops, StoreExecuting(o)
    PROVE  Inv'
<1> USE NoneAssumption DEF StoreExecuting, viewVars
<1>1. TypeOK'
  BY DEF Inv, TypeOK
<1>2. FreshInv'
  BY DEF Inv, TypeOK, FreshInv
<1>3. WillDisplayInv'
  BY DEF Inv, TypeOK, WillDisplayInv
<1>4. (DictSound /\ RightCell /\ BlankOnlyFromCancelled /\ CompletionsInv /\ ImageInv)'
  BY DEF Inv, DictSound, RightCell, BlankOnlyFromCancelled, CompletionsInv, ImageInv
<1> QED
  BY <1>1, <1>2, <1>3, <1>4 DEF Inv

LEMMA DownloadFailsInv ==
    ASSUME Inv, NEW o \in Ops, DownloadFails(o)
    PROVE  Inv'
<1> USE NoneAssumption DEF DownloadFails, opVars, viewVars
<1>1. TypeOK'
  BY DEF Inv, TypeOK
<1>2. FreshInv'
  BY DEF Inv, TypeOK, FreshInv
<1>3. ImageInv'
  BY DEF Inv, TypeOK, ImageInv
<1>4. WillDisplayInv'
  BY DEF Inv, TypeOK, WillDisplayInv
<1>5. (DictSound /\ RightCell /\ BlankOnlyFromCancelled /\ CompletionsInv)'
  BY DEF Inv, DictSound, RightCell, BlankOnlyFromCancelled, CompletionsInv
<1> QED
  BY <1>1, <1>2, <1>3, <1>4, <1>5 DEF Inv

LEMMA DownloadStoresImageInv ==
    ASSUME Inv, NEW o \in Ops, DownloadStoresImage(o)
    PROVE  Inv'
<1> USE NoneAssumption DEF DownloadStoresImage, viewVars
<1>1. TypeOK'
  BY DEF Inv, TypeOK
<1>2. BlankOnlyFromCancelled'
  BY DEF Inv, TypeOK, BlankOnlyFromCancelled
<1>3. FreshInv'
  BY DEF Inv, TypeOK, FreshInv
<1>4. ImageInv'
  BY DEF Inv, TypeOK, ImageInv
<1>5. WillDisplayInv'
  BY DEF Inv, TypeOK, WillDisplayInv
<1>6. (DictSound /\ RightCell /\ CompletionsInv)'
  BY DEF Inv, DictSound, RightCell, CompletionsInv
<1> QED
  BY <1>1, <1>2, <1>3, <1>4, <1>5, <1>6 DEF Inv

LEMMA DownloadStoresFinishedInv ==
    ASSUME Inv, NEW o \in Ops, DownloadStoresFinished(o)
    PROVE  Inv'
<1> USE NoneAssumption DEF DownloadStoresFinished, viewVars
<1>1. TypeOK'
  BY DEF Inv, TypeOK
<1>2. FreshInv'
  BY DEF Inv, TypeOK, FreshInv
<1>3. ImageInv'
  BY DEF Inv, TypeOK, ImageInv
<1>4. WillDisplayInv'
  BY DEF Inv, TypeOK, WillDisplayInv
<1>5. (DictSound /\ RightCell /\ BlankOnlyFromCancelled /\ CompletionsInv)'
  BY DEF Inv, DictSound, RightCell, BlankOnlyFromCancelled, CompletionsInv
<1> QED
  BY <1>1, <1>2, <1>3, <1>4, <1>5 DEF Inv

LEMMA DownloadNotifiesInv ==
    ASSUME Inv, NEW o \in Ops, DownloadNotifies(o)
    PROVE  Inv'
<1> USE NoneAssumption DEF DownloadNotifies, QueueCompletes, opVars, viewVars
<1>1. TypeOK'
  BY DEF Inv, TypeOK
<1>2. BlankOnlyFromCancelled'
  BY DEF Inv, TypeOK, BlankOnlyFromCancelled, ImageInv
<1>3. FreshInv'
  BY DEF Inv, TypeOK, FreshInv
<1>4. CompletionsInv'
  BY DEF Inv, TypeOK, CompletionsInv
<1>5. ImageInv'
  BY DEF Inv, TypeOK, ImageInv
<1>6. WillDisplayInv'
  BY DEF Inv, TypeOK, WillDisplayInv
<1>7. (DictSound /\ RightCell)'
  BY DEF Inv, DictSound, RightCell
<1> QED
  BY <1>1, <1>2, <1>3, <1>4, <1>5, <1>6, <1>7 DEF Inv

LEMMA RunCompletionBlockInv ==
    ASSUME Inv, NEW o \in Ops, RunCompletionBlock(o)
    PROVE  Inv'
<1> USE NoneAssumption DEF RunCompletionBlock, opVars
<1>1. TypeOK'
  BY DEF Inv, TypeOK, FreshInv, CompletionsInv, SetupImage, ImageOf
<1>2. DictSound'
  BY DEF Inv, TypeOK, DictSound
<1>3. RightCell'
  BY DEF Inv, TypeOK, RightCell
<1>4. CompletionsInv'
  BY DEF Inv, TypeOK, CompletionsInv
<1>5. WillDisplayInv'
  BY DEF Inv, TypeOK, WillDisplayInv
<1>6. (BlankOnlyFromCancelled /\ FreshInv /\ ImageInv)'
  BY DEF Inv, BlankOnlyFromCancelled, FreshInv, ImageInv
<1> QED
  BY <1>1, <1>2, <1>3, <1>4, <1>5, <1>6 DEF Inv

-----------------------------------------------------------------------------
LEMMA NextInv == Inv /\ [Next]_vars => Inv'
<1> SUFFICES ASSUME Inv, [Next]_vars PROVE Inv'
  OBVIOUS
<1>1. CASE User
  BY <1>1, WillDisplayLoadedInv, WillDisplayLoadingInv, WillDisplayNewInv,
     WillDisplayWithoutURLInv, DidEndDisplayingInv, PrefetchItemsInv,
     CancelPrefetchingInv DEF User
<1>2. CASE System
  BY <1>2, AssignCompletionBlockInv, RunMainQueueInv, StartCancelledInv, StartInv,
     MainInv, StoreExecutingInv, DownloadFailsInv, DownloadStoresImageInv,
     DownloadStoresFinishedInv, DownloadNotifiesInv, RunCompletionBlockInv
     DEF System, QueueStarts, Callback
<1>3. CASE UNCHANGED vars
  BY <1>3 DEF vars, opVars, runVars, viewVars, Inv, TypeOK, DictSound, RightCell,
     BlankOnlyFromCancelled, FreshInv, CompletionsInv, ImageInv, WillDisplayInv
<1> QED
  BY <1>1, <1>2, <1>3 DEF Next

THEOREM InvAlways == Spec => []Inv
BY InitInv, NextInv, PTL DEF Spec

\* Every variable keeps its type: in particular no completionBlock is run for an
\* operation that has none, and no closure is posted for a cell that is none.
THEOREM TypeCorrect == Spec => []TypeOK
<1>1. Inv => TypeOK
  BY DEF Inv
<1> QED
  BY <1>1, InvAlways, PTL

\* loadingOperations holds only operations made for their index path that were
\* never cancelled, whatever the late completion blocks remove.
THEOREM DictionarySound == Spec => []DictSound
<1>1. Inv => DictSound
  BY DEF Inv
<1> QED
  BY <1>1, InvAlways, PTL

\* An operation of loadingOperations that has a completionBlock will deliver to
\* the cell that displays its index path.
THEOREM CellIsRight == Spec => []RightCell
<1>1. Inv => RightCell
  BY DEF Inv
<1> QED
  BY <1>1, InvAlways, PTL

\* Only a cancelled operation completes without a picture.
THEOREM BlankMeansCancelled == Spec => []BlankOnlyFromCancelled
<1>1. Inv => BlankOnlyFromCancelled
  BY DEF Inv
<1> QED
  BY <1>1, InvAlways, PTL

-----------------------------------------------------------------------------
(***************************************************************************)
(* The slots of the queue.                                                 *)
(***************************************************************************)

\* Where an operation is in start(), in its download and in the queue.
SlotInv ==
    \A o \in Ops :
        /\ worker[o] \in {"unqueued", "queued"} =>
              o \notin running \cup completed /\ download[o] = "none"
        /\ worker[o] = "main" =>
              o \in running /\ o \notin completed /\ download[o] = "none"
        /\ worker[o] = "leaving" => download[o] # "none"
        /\ worker[o] \in {"leaving", "returned"} => o \in running \cup completed
        /\ o \in completed => o \notin running
        /\ download[o] \in {"skipped", "running", "decoded", "stored", "failed"} =>
              o \in running
        /\ download[o] = "none" /\ o \in running => worker[o] = "main"
        /\ download[o] = "stored" =>
              state[o] = "finished" \/ (worker[o] = "returned" /\ state[o] = "executing")
        /\ download[o] = "over" /\ o \in running =>
              worker[o] = "returned" /\ state[o] = "executing"

\* Creating operations disturbs no operation that exists.
LEMMA CreationFacts ==
    ASSUME Inv,
           \/ \E c \in Cells, i \in IndexPaths : WillDisplayNew(c, i)
           \/ \E batch \in Batches : PrefetchItems(batch)
    PROVE  /\ \A o \in Ops : worker'[o] = worker[o]
                             \/ (worker[o] = "unqueued" /\ worker'[o] = "queued")
           /\ UNCHANGED <<state, download, running, completed>>
<1>1. ASSUME NEW c \in Cells, NEW i \in IndexPaths, WillDisplayNew(c, i)
      PROVE  \A o \in Ops : /\ index[o] # None => worker'[o] = worker[o]
                            /\ worker'[o] \in {worker[o], "queued"}
  <2>1. PICK o \in Ops : index[o] = None /\ Enqueue([j \in {i} |-> o])
    BY <1>1 DEF WillDisplayNew
  <2> DEFINE created == [j \in {i} |-> o]
  <2>2. {i} \in SUBSET IndexPaths /\ created \in [{i} -> {p \in Ops : index[p] = None}]
    BY <2>1
  <2>3. \A j, k \in {i} : created[j] = created[k] => j = k
    OBVIOUS
  <2>4. TypeOK /\ Enqueue(created)
    BY <2>1 DEF Inv
  <2> HIDE DEF created
  <2> QED
    BY <2>2, <2>3, <2>4, EnqueueFacts
<1>2. ASSUME NEW batch \in Batches, PrefetchItems(batch)
      PROVE  \A o \in Ops : /\ index[o] # None => worker'[o] = worker[o]
                            /\ worker'[o] \in {worker[o], "queued"}
  <2> DEFINE taken == {batch[k] : k \in {k \in DOMAIN batch :
                          \A j \in 1..k : ~PrefetchStops(batch[j])}}
  <2>1. taken \in SUBSET IndexPaths
    BY DEF Batches
  <2>2. PICK created \in [taken -> {o \in Ops : index[o] = None}] :
            /\ \A i, j \in taken : created[i] = created[j] => i = j
            /\ Enqueue(created)
    BY <1>2 DEF PrefetchItems
  <2> HIDE DEF taken
  <2> QED
    BY <2>1, <2>2, EnqueueFacts DEF Inv
<1>3. UNCHANGED <<state, download, running, completed>>
  BY DEF WillDisplayNew, PrefetchItems
<1> QED
  BY <1>1, <1>2, <1>3 DEF Inv, FreshInv

\* The other steps of the main thread, and completion blocks, leave start() and
\* the download alone.
LEMMA ViewFacts ==
    ASSUME \/ \E c \in Cells, i \in IndexPaths :
                 \/ WillDisplayLoaded(c, i)
                 \/ WillDisplayLoading(c, i)
                 \/ WillDisplayWithoutURL(c, i)
           \/ \E c \in Cells : DidEndDisplaying(c)
           \/ \E batch \in Batches : CancelPrefetching(batch)
           \/ AssignCompletionBlock
           \/ RunMainQueue
           \/ \E o \in Ops : RunCompletionBlock(o)
           \/ UNCHANGED vars
    PROVE  UNCHANGED <<state, worker, download, running, completed>>
BY DEF WillDisplayLoaded, WillDisplayLoading, WillDisplayWithoutURL, DidEndDisplaying,
   CancelPrefetching, AssignCompletionBlock, RunMainQueue, RunCompletionBlock,
   vars, opVars, runVars

LEMMA SlotInvInit == Init => SlotInv
BY DEF Init, SlotInv

LEMMA SlotInvNext == Inv /\ SlotInv /\ [Next]_vars => SlotInv'
<1> SUFFICES ASSUME Inv, SlotInv, [Next]_vars PROVE SlotInv'
  OBVIOUS
<1> USE DEF Inv, TypeOK
<1>1. ASSUME UNCHANGED <<state, worker, download, running, completed>> PROVE SlotInv'
  BY <1>1 DEF SlotInv
<1>2. ASSUME NEW c \in Cells, NEW i \in IndexPaths, WillDisplayNew(c, i) PROVE SlotInv'
  BY <1>2, CreationFacts DEF SlotInv
<1>3. ASSUME NEW batch \in Batches, PrefetchItems(batch) PROVE SlotInv'
  BY <1>3, CreationFacts DEF SlotInv
<1>4. ASSUME NEW o \in Ops, StartCancelled(o) PROVE SlotInv'
  BY <1>4 DEF SlotInv, StartCancelled, QueueCompletes
<1>5. ASSUME NEW o \in Ops, Start(o) PROVE SlotInv'
  BY <1>5 DEF SlotInv, Start, opVars
<1>6. ASSUME NEW o \in Ops, Main(o) PROVE SlotInv'
  BY <1>6 DEF SlotInv, Main, opVars
<1>7. ASSUME NEW o \in Ops, StoreExecuting(o) PROVE SlotInv'
  BY <1>7 DEF SlotInv, StoreExecuting
<1>8. ASSUME NEW o \in Ops, DownloadFails(o) PROVE SlotInv'
  BY <1>8 DEF SlotInv, DownloadFails, opVars
<1>9. ASSUME NEW o \in Ops, DownloadStoresImage(o) PROVE SlotInv'
  BY <1>9 DEF SlotInv, DownloadStoresImage
<1>10. ASSUME NEW o \in Ops, DownloadStoresFinished(o) PROVE SlotInv'
  BY <1>10 DEF SlotInv, DownloadStoresFinished
<1>11. ASSUME NEW o \in Ops, DownloadNotifies(o) PROVE SlotInv'
  BY <1>11 DEF SlotInv, DownloadNotifies, QueueCompletes, opVars
<1> QED
  BY <1>1, <1>2, <1>3, <1>4, <1>5, <1>6, <1>7, <1>8, <1>9, <1>10, <1>11, ViewFacts
     DEF Next, User, System, QueueStarts, Callback

\* A slot of the queue is held by an operation that still advances or by one of
\* the three leaks; whatever left start() holds its slot or has given it back.
THEOREM SlotsAccounted == Spec => []SlotAccounted
<1>1. Inv /\ SlotInv => SlotAccounted
  BY DEF Inv, TypeOK, SlotInv, SlotAccounted, Progressing, Leaked
<1>2. Spec => []SlotInv
  BY InvAlways, SlotInvInit, SlotInvNext, PTL DEF Spec
<1> QED
  BY <1>1, <1>2, InvAlways, PTL

\* A leaked slot stays leaked: no cancel, completion or later load frees it.
THEOREM LeaksAreForever == Spec => LeakIsForever
<1> DEFINE Stays == \A o \in Ops : Leaked(o) => Leaked(o)'
<1>1. Inv /\ [Next]_vars => [Stays]_vars
  <2> SUFFICES ASSUME Inv, [Next]_vars PROVE Stays
    OBVIOUS
  <2> USE DEF Inv, TypeOK, Leaked
  <2>1. ASSUME UNCHANGED <<state, worker, download, running, completed>> PROVE Stays
    BY <2>1
  <2>2. ASSUME NEW c \in Cells, NEW i \in IndexPaths, WillDisplayNew(c, i) PROVE Stays
    BY <2>2, CreationFacts
  <2>3. ASSUME NEW batch \in Batches, PrefetchItems(batch) PROVE Stays
    BY <2>3, CreationFacts
  <2>4. ASSUME NEW o \in Ops, QueueStarts(o) PROVE Stays
    BY <2>4 DEF QueueStarts, StartCancelled, Start, QueueCompletes, opVars
  <2>5. ASSUME NEW o \in Ops, Main(o) PROVE Stays
    BY <2>5 DEF Main, opVars
  <2>6. ASSUME NEW o \in Ops, StoreExecuting(o) PROVE Stays
    BY <2>6 DEF StoreExecuting
  <2>7. ASSUME NEW o \in Ops, DownloadFails(o) PROVE Stays
    BY <2>7 DEF DownloadFails, opVars
  <2>8. ASSUME NEW o \in Ops, DownloadStoresImage(o) PROVE Stays
    BY <2>8 DEF DownloadStoresImage
  <2>9. ASSUME NEW o \in Ops, DownloadStoresFinished(o) PROVE Stays
    BY <2>9 DEF DownloadStoresFinished
  <2>10. ASSUME NEW o \in Ops, DownloadNotifies(o) PROVE Stays
    BY <2>10 DEF DownloadNotifies, QueueCompletes, opVars
  <2> HIDE DEF Stays
  <2> QED
    BY <2>1, <2>2, <2>3, <2>4, <2>5, <2>6, <2>7, <2>8, <2>9, <2>10, ViewFacts
       DEF Next, User, System, Callback
<1> QED
  BY <1>1, InvAlways, PTL DEF Spec, LeakIsForever

-----------------------------------------------------------------------------
(***************************************************************************)
(* The queue of the screens implements Slots.                              *)
(***************************************************************************)

\* The slots that Slots counts are the slots of the queue.
LEMMA HeldIsRunning == Inv /\ SlotInv => Queue!Held = running
BY DEF Inv, TypeOK, SlotInv, Queue!Held, Phase, Leaked

LEMMA RoomIsFreeSlot == Inv /\ SlotInv => Queue!Room = (Cardinality(running) < MaxConcurrent)
<1>1. Queue!Cardinality(running) = Cardinality(running)
  BY DEF Queue!Cardinality, Cardinality
<1> QED
  BY <1>1, HeldIsRunning DEF Queue!Room

\* What the queue's user sees of an operation depends on these four only.
LEMMA PhaseUnchanged ==
    ASSUME UNCHANGED <<state, worker, download, running>>
    PROVE  Phase' = Phase
BY DEF Phase, Leaked

\* Cancelling marks operations that were added.
LEMMA CancelIsCancel ==
    ASSUME Inv, NEW S \in SUBSET IndexPaths,
           \A i \in S : loadingOperations[i] # None,
           \A i \in S : worker[loadingOperations[i]] # "unqueued",
           CancelAndForget(S),
           UNCHANGED <<state, worker, download, running, image>>
    PROVE  Queue!Next
<1> DEFINE J == {loadingOperations[i] : i \in S}
<1>1. J \in SUBSET Ops /\ cancelled' = cancelled \cup J
  BY DEF Inv, TypeOK, CancelAndForget
<1>2. \A j \in J : Phase[j] # "new"
  BY <1>1 DEF Phase
<1>3. UNCHANGED <<Phase, image>>
  BY PhaseUnchanged
<1> HIDE DEF J
<1>4. Queue!Cancel(J)
  BY <1>1, <1>2, <1>3 DEF Queue!Cancel
<1> QED
  BY <1>1, <1>4 DEF Queue!Next

\* An operation that exists has been added to the queue, and one that has its
\* picture is past the guard of the download callback.
CreatedInv ==
    \A o \in Ops :
        /\ index[o] # None => worker[o] # "unqueued"
        /\ o \in image => download[o] \in {"decoded", "stored", "over"}

LEMMA EnqueueCreates ==
    ASSUME NEW created, Enqueue(created)
    PROVE  \A o \in Ops : \/ worker'[o] = "queued"
                          \/ worker'[o] = worker[o] /\ index'[o] = index[o]
BY DEF Enqueue

LEMMA CreatedInvNext == Inv /\ SlotInv /\ CreatedInv /\ [Next]_vars => CreatedInv'
<1> SUFFICES ASSUME Inv, SlotInv, CreatedInv, [Next]_vars PROVE CreatedInv'
  OBVIOUS
<1> USE DEF Inv, TypeOK
<1>1. ASSUME UNCHANGED <<index, worker, image, download>> PROVE CreatedInv'
  BY <1>1 DEF CreatedInv
<1>2. ASSUME NEW created, Enqueue(created), UNCHANGED <<image, download>>
      PROVE  CreatedInv'
  BY <1>2, EnqueueCreates DEF CreatedInv
<1>3. ASSUME NEW o \in Ops, QueueStarts(o) \/ StoreExecuting(o)
      PROVE  CreatedInv'
  <2>1. /\ UNCHANGED <<index, image, download>>
        /\ \A p \in Ops : worker'[p] = worker[p] \/ worker'[p] # "unqueued"
    BY <1>3 DEF QueueStarts, Start, StartCancelled, StoreExecuting, opVars
  <2> QED
    BY <2>1 DEF CreatedInv
<1>4. ASSUME NEW o \in Ops, Main(o) PROVE CreatedInv'
  BY <1>4 DEF CreatedInv, SlotInv, Main, opVars
<1>5. ASSUME NEW o \in Ops, Callback(o) PROVE CreatedInv'
  BY <1>5 DEF CreatedInv, Callback, DownloadFails, DownloadStoresImage,
     DownloadStoresFinished, DownloadNotifies, opVars
<1>6. CASE User
  <2>1. \/ (\E created : Enqueue(created)) /\ UNCHANGED <<image, download>>
        \/ UNCHANGED <<index, worker, image, download>>
    BY <1>6 DEF User, WillDisplayNew, PrefetchItems, WillDisplayLoaded, WillDisplayLoading,
       WillDisplayWithoutURL, DidEndDisplaying, CancelPrefetching, opVars, runVars
  <2> QED
    BY <2>1, <1>1, <1>2
<1>7. CASE \/ AssignCompletionBlock \/ RunMainQueue \/ UNCHANGED vars
           \/ \E o \in Ops : RunCompletionBlock(o)
  BY <1>1, <1>7 DEF AssignCompletionBlock, RunMainQueue, RunCompletionBlock, vars,
     opVars, runVars
<1> QED
  BY <1>3, <1>4, <1>5, <1>6, <1>7 DEF Next, System

LEMMA CancelSteps ==
    ASSUME Inv, CreatedInv,
           \/ \E c \in Cells : DidEndDisplaying(c)
           \/ \E batch \in Batches : CancelPrefetching(batch)
    PROVE  Queue!Next
<1> USE NoneAssumption
<1>1. \A i \in IndexPaths : loadingOperations[i] # None =>
         worker[loadingOperations[i]] # "unqueued"
  BY DEF Inv, TypeOK, DictSound, CreatedInv
<1>2. ASSUME NEW c \in Cells, DidEndDisplaying(c) PROVE Queue!Next
  <2> DEFINE S == {i \in {displayed[c]} : loadingOperations[i] # None}
  <2>1. S \in SUBSET IndexPaths /\ \A i \in S : loadingOperations[i] # None
    BY <1>2 DEF DidEndDisplaying, Inv, TypeOK
  <2>2. CancelAndForget(S) /\ UNCHANGED <<state, worker, download, running, image>>
    BY <1>2 DEF DidEndDisplaying, runVars
  <2> HIDE DEF S
  <2> QED
    BY <1>1, <2>1, <2>2, CancelIsCancel
<1>3. ASSUME NEW batch \in Batches, CancelPrefetching(batch) PROVE Queue!Next
  <2> DEFINE S == {batch[k] : k \in {k \in DOMAIN batch :
                      \A j \in 1..k : loadingOperations[batch[j]] # None}}
  <2>1. S \in SUBSET IndexPaths /\ \A i \in S : loadingOperations[i] # None
    BY DEF Batches
  <2>2. CancelAndForget(S) /\ UNCHANGED <<state, worker, download, running, image>>
    BY <1>3 DEF CancelPrefetching, runVars
  <2> HIDE DEF S
  <2> QED
    BY <1>1, <2>1, <2>2, CancelIsCancel
<1> QED
  BY <1>2, <1>3

\* Creating operations adds them.
LEMMA CreationSteps ==
    ASSUME Inv, SlotInv,
           \/ \E c \in Cells, i \in IndexPaths : WillDisplayNew(c, i)
           \/ \E batch \in Batches : PrefetchItems(batch)
    PROVE  Queue!Next
<1> DEFINE J == {o \in Ops : worker[o] = "unqueued" /\ worker'[o] = "queued"}
<1>1. UNCHANGED <<cancelled, image>>
  BY DEF WillDisplayNew, PrefetchItems
<1>2. \A o \in Ops : worker'[o] = worker[o] \/ o \in J
  BY CreationFacts
<1>3. Phase' = [o \in Ops |-> IF o \in J THEN "waiting" ELSE Phase[o]]
  BY <1>2, CreationFacts DEF Phase, Leaked
<1>4. Queue!Add(J)
  BY <1>1, <1>3 DEF Queue!Add, Phase
<1>5. J \in SUBSET Ops
  OBVIOUS
<1> QED
  BY <1>4, <1>5 DEF Queue!Next

\* Every thread's step is a step of Slots or none.
LEMMA SlotsStep ==
    ASSUME Inv, SlotInv, CreatedInv, [Next]_vars
    PROVE  Queue!Next \/ UNCHANGED <<Phase, cancelled, image>>
<1> USE DEF Inv, TypeOK
<1>1. ASSUME UNCHANGED <<state, worker, download, running, cancelled, image>>
      PROVE  UNCHANGED <<Phase, cancelled, image>>
  BY <1>1, PhaseUnchanged
<1>2. CASE User
  <2>1. \/ \E c \in Cells, i \in IndexPaths : WillDisplayNew(c, i)
        \/ \E batch \in Batches : PrefetchItems(batch)
        \/ \E c \in Cells : DidEndDisplaying(c)
        \/ \E batch \in Batches : CancelPrefetching(batch)
        \/ UNCHANGED <<state, worker, download, running, cancelled, image>>
    BY <1>2 DEF User, WillDisplayLoaded, WillDisplayLoading, WillDisplayWithoutURL,
       opVars, runVars
  <2> QED
    BY <1>1, <2>1, CreationSteps, CancelSteps
<1>3. CASE AssignCompletionBlock \/ RunMainQueue \/ UNCHANGED vars
  BY <1>1, <1>3 DEF AssignCompletionBlock, RunMainQueue, vars, opVars, runVars
<1>4. ASSUME NEW o \in Ops, RunCompletionBlock(o) PROVE UNCHANGED <<Phase, cancelled, image>>
  BY <1>1, <1>4 DEF RunCompletionBlock, opVars
<1>5. ASSUME NEW o \in Ops, QueueStarts(o) PROVE Queue!Next
  <2>1. Queue!Room /\ Phase[o] = "waiting" /\ UNCHANGED <<cancelled, image>>
    BY <1>5, RoomIsFreeSlot DEF QueueStarts, Start, StartCancelled, Phase, opVars
  <2>2. CASE Start(o)
    <3>1. Phase' = [Phase EXCEPT ![o] = "running"]
      BY <2>2 DEF Start, Phase, Leaked, SlotInv, opVars
    <3> QED
      BY <2>1, <2>2, <3>1 DEF Start, Queue!Start, Queue!Next
  <2>3. CASE StartCancelled(o)
    <3>1. Phase' = [Phase EXCEPT ![o] = "done"]
      BY <2>3 DEF StartCancelled, QueueCompletes, Phase, Leaked, SlotInv
    <3> QED
      BY <2>1, <2>3, <3>1 DEF StartCancelled, Queue!Skip, Queue!Next
  <2> QED
    BY <1>5, <2>2, <2>3 DEF QueueStarts
\* What start() took is running until the queue hears of it or never will.
<1>6. ASSUME NEW o \in Ops, Main(o)
      PROVE  Queue!Next \/ UNCHANGED <<Phase, cancelled, image>>
  <2>1. Phase[o] = "running" /\ UNCHANGED <<cancelled, image>>
    BY <1>6 DEF Main, Phase, Leaked, SlotInv, opVars
  <2>2. CASE o \in cancelled
    <3>1. Phase' = [Phase EXCEPT ![o] = "stuck"]
      BY <1>6, <2>2 DEF Main, Phase, Leaked, SlotInv, opVars
    <3> QED
      BY <2>1, <3>1 DEF Queue!Stick, Queue!Next
  <2>3. CASE o \notin cancelled
    <3>1. Phase' = Phase
      BY <1>6, <2>3 DEF Main, Phase, Leaked, SlotInv, opVars
    <3> QED
      BY <2>1, <3>1
  <2> QED
    BY <2>2, <2>3
<1>7. ASSUME NEW o \in Ops, StoreExecuting(o) PROVE UNCHANGED <<Phase, cancelled, image>>
  <2>1. Phase' = Phase
    BY <1>7 DEF StoreExecuting, Phase, Leaked, SlotInv
  <2> QED
    BY <1>7, <2>1 DEF StoreExecuting
<1>8. ASSUME NEW o \in Ops, DownloadFails(o) PROVE Queue!Next
  <2>1. Phase[o] = "running" /\ UNCHANGED <<cancelled, image>>
    BY <1>8 DEF DownloadFails, Phase, Leaked, SlotInv, opVars
  <2>2. Phase' = [Phase EXCEPT ![o] = "stuck"]
    BY <1>8 DEF DownloadFails, Phase, Leaked, SlotInv, opVars
  <2> QED
    BY <2>1, <2>2 DEF Queue!Stick, Queue!Next
<1>9. ASSUME NEW o \in Ops, DownloadStoresImage(o) PROVE Queue!Next
  <2>1. Phase[o] = "running" /\ Phase' = Phase
    BY <1>9 DEF DownloadStoresImage, Phase, Leaked, SlotInv
  <2>2. o \notin image
    BY <1>9 DEF DownloadStoresImage, CreatedInv
  <2> QED
    BY <1>9, <2>1, <2>2 DEF DownloadStoresImage, Queue!Load, Queue!Next
<1>10. ASSUME NEW o \in Ops, DownloadStoresFinished(o)
       PROVE  UNCHANGED <<Phase, cancelled, image>>
  <2>1. Phase' = Phase
    BY <1>10 DEF DownloadStoresFinished, Phase, Leaked, SlotInv
  <2> QED
    BY <1>10, <2>1 DEF DownloadStoresFinished
<1>11. ASSUME NEW o \in Ops, DownloadNotifies(o) PROVE Queue!Next
  <2>1. /\ Phase[o] = "running" /\ o \in image
        /\ UNCHANGED <<cancelled, image>>
    BY <1>11 DEF DownloadNotifies, Phase, Leaked, SlotInv, ImageInv, opVars
  <2>2. CASE state[o] = "finished"
    <3>1. Phase' = [Phase EXCEPT ![o] = "done"]
      BY <1>11, <2>2 DEF DownloadNotifies, QueueCompletes, Phase, Leaked, SlotInv, opVars
    <3> QED
      BY <2>1, <3>1 DEF Queue!Finish, Queue!Next
  <2>3. CASE state[o] # "finished"
    <3>1. Phase' = [Phase EXCEPT ![o] = "stuck"]
      BY <1>11, <2>3 DEF DownloadNotifies, Phase, Leaked, SlotInv, opVars
    <3> QED
      BY <2>1, <3>1 DEF Queue!Stick, Queue!Next
  <2> QED
    BY <2>2, <2>3
<1> QED
  BY <1>2, <1>3, <1>4, <1>5, <1>6, <1>7, <1>8, <1>9, <1>10, <1>11
     DEF Next, System, Callback

\* ImageLoading implements Slots: whatever the threads do, an operation holds a
\* slot from start() until it has its picture and the queue has heard of it, or
\* for ever.
THEOREM QueueImplements == Spec => ImplementsSlots
<1>1. Init => Queue!Init
  BY DEF Init, Queue!Init, Phase
<1>2. Inv /\ SlotInv /\ CreatedInv /\ [Next]_vars => [Queue!Next]_(Queue!vars)
  BY SlotsStep DEF Queue!vars
<1>3. Spec => []SlotInv
  BY InvAlways, SlotInvInit, SlotInvNext, PTL DEF Spec
<1>4. Init => CreatedInv
  BY DEF Init, CreatedInv
<1>5. Spec => []CreatedInv
  BY <1>3, <1>4, InvAlways, CreatedInvNext, PTL DEF Spec
<1> QED
  BY <1>1, <1>2, <1>3, <1>5, InvAlways, PTL DEF Spec, ImplementsSlots, Queue!Spec
=============================================================================
