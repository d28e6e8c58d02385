------------------------ MODULE ContentScreensProofs ------------------------
(***************************************************************************)
(* Proofs about ContentScreens, for any number of record and news screens, *)
(* of overlapping Tasks, of records in an answer and of pictures in        *)
(* flight.                                                                 *)
(***************************************************************************)
EXTENDS ContentScreens, TLAPS

\* A Task that awaits a call has a screen to give the result to.
OwnerInv == \A f \in Fetches : pc[f] \in Calling => owner[f] \in Screens

\* A released screen has no Task that awaits a call and no closure on the main queue.
TasksQuiet ==
    \A s \in Screens, f \in Fetches : life[s] = "gone" /\ owner[f] = s => pc[f] \notin Calling
PostsQuiet == \A s \in Screens : life[s] = "gone" => posts[s] = NoPosts

IInv == TypeOK /\ OwnerInv /\ TasksQuiet /\ PostsQuiet /\ SubscriptOnlyInWindow

-----------------------------------------------------------------------------
(***************************************************************************)
(* The closures that wait for a screen.                                    *)
(***************************************************************************)
Posts == [labels : Nat, reloads : Nat]

LEMMA NoPostsFacts == NoPosts \in Posts /\ NoPosts.labels = 0 /\ NoPosts.reloads = 0
  BY DEF NoPosts, Posts

LEMMA PostFacts ==
    ASSUME NEW p \in Posts, NEW n \in Nat
    PROVE  /\ [p EXCEPT !.labels = n] \in Posts
           /\ [p EXCEPT !.labels = n].reloads = p.reloads
           /\ [p EXCEPT !.reloads = n] \in Posts
           /\ [p EXCEPT !.reloads = n].reloads = n
  BY DEF Posts

\* The closures p of the screen s are all that changes.
LEMMA PostsUpdate ==
    ASSUME posts \in [Screens -> Posts], NEW s, NEW p \in Posts,
           posts' = [posts EXCEPT ![s] = p]
    PROVE  /\ posts' \in [Screens -> Posts]
           /\ \A t \in Screens : posts'[t] = IF t = s THEN p ELSE posts[t]
  OBVIOUS

-----------------------------------------------------------------------------
(***************************************************************************)
(* What a step that leaves a part of the state alone keeps.                *)
(***************************************************************************)
LEMMA SameOwner == ASSUME OwnerInv, pc' = pc, owner' = owner PROVE OwnerInv'
  BY DEF OwnerInv

\* No Task and no closure is started, and no screen is released.
LEMMA SameQuiet ==
    ASSUME TasksQuiet, PostsQuiet, pc' = pc, owner' = owner, posts' = posts,
           \A s \in Screens : life'[s] = "gone" => life[s] = "gone"
    PROVE  TasksQuiet' /\ PostsQuiet'
  BY DEF TasksQuiet, PostsQuiet

\* No reload is taken from the queue, and no screen forgotten that missed records.
LEMMA SameWindow ==
    ASSUME SubscriptOnlyInWindow, records' = records, layout' = layout,
           missed' = missed, \A s \in Screens : posts'[s].reloads = posts[s].reloads
    PROVE  SubscriptOnlyInWindow'
  BY DEF SubscriptOnlyInWindow, OutOfRange

\* A screen moves on to a place in the hierarchy.
LEMMA LifeMoves ==
    ASSUME TypeOK, NEW s, NEW l \in {"opening", "shown", "covered"},
           life' = [life EXCEPT ![s] = l]
    PROVE  /\ life' \in [Screens -> Alive \cup {"none", "gone"}]
           /\ \A t \in Screens : life'[t] = IF t = s THEN l ELSE life[t]
           /\ \A t \in Screens : life'[t] = "gone" => life[t] = "gone"
<1>1. \A t \in Screens : life'[t] = IF t = s THEN l ELSE life[t]
  BY DEF TypeOK
<1> QED
  BY <1>1 DEF TypeOK, Alive

\* The closures of a screen that is not released are all that changes.
LEMMA PostsStayQuiet ==
    ASSUME PostsQuiet, NEW s, life[s] # "gone", NEW q, life' = life,
           \A t \in Screens : posts'[t] = IF t = s THEN q ELSE posts[t]
    PROVE  PostsQuiet'
  BY DEF PostsQuiet

-----------------------------------------------------------------------------
(***************************************************************************)
(* Each action keeps IInv.                                                 *)
(***************************************************************************)
LEMMA InitInv == Init => IInv
<1> SUFFICES ASSUME Init PROVE IInv
  OBVIOUS
<1>1. TypeOK
  <2>1. posts \in [Screens -> Posts]
    BY NoPostsFacts DEF Init
  <2>2. pictures \in [Screens -> 0..MaxPictures]
    BY ScreensAssumption DEF Init
  <2>3. layout \in [Screens -> Sizes \cup {1}] /\ records \in [Screens -> Sizes \cup {None}]
    BY DEF Init
  <2> QED
    BY <2>1, <2>2, <2>3 DEF Init, TypeOK, Posts
<1>2. OwnerInv /\ TasksQuiet /\ PostsQuiet
  BY DEF Init, OwnerInv, TasksQuiet, PostsQuiet, Calling
<1>3. SubscriptOnlyInWindow
  BY DEF Init, SubscriptOnlyInWindow, OutOfRange
<1> QED
  BY <1>1, <1>2, <1>3 DEF IInv

\* A launch: no screen, no Task under way.
LEMMA RelaunchedInv == ASSUME IInv, Relaunched PROVE IInv'
<1>1. TypeOK'
  <2>1. posts' \in [Screens -> Posts]
    BY NoPostsFacts DEF Relaunched
  <2>2. pc' \in [Fetches -> Calling \cup {"none", "over"}]
    BY DEF Relaunched
  <2>3. pictures' \in [Screens -> 0..MaxPictures]
    BY ScreensAssumption DEF Relaunched
  <2>4. layout' \in [Screens -> Sizes \cup {1}] /\ records' \in [Screens -> Sizes \cup {None}]
    BY DEF Relaunched
  <2> QED
    BY <2>1, <2>2, <2>3, <2>4 DEF Relaunched, TypeOK, Posts
<1>2. OwnerInv' /\ TasksQuiet' /\ PostsQuiet'
  BY DEF Relaunched, OwnerInv, TasksQuiet, PostsQuiet, Calling
<1>3. SubscriptOnlyInWindow'
  BY DEF Relaunched, SubscriptOnlyInWindow, OutOfRange
<1> QED
  BY <1>1, <1>2, <1>3 DEF IInv

LEMMA DidTapOnImageInv ==
    ASSUME IInv, NEW s \in Records, NEW p \in BOOLEAN, DidTapOnImage(s, p)
    PROVE  IInv'
<1>1. /\ life' = [life EXCEPT ![s] = "opening"] /\ loader' = TRUE /\ opener' = s
      /\ person' = (IF p THEN person \cup {s} ELSE person)
      /\ pc' = pc /\ owner' = owner /\ artist' = artist /\ label' = label
      /\ records' = records /\ layout' = layout /\ posts' = posts /\ missed' = missed
      /\ failed' = failed /\ pictures' = pictures
  BY DEF DidTapOnImage, taskVars, modelVars
<1>2. /\ life' \in [Screens -> Alive \cup {"none", "gone"}]
      /\ \A t \in Screens : life'[t] = "gone" => life[t] = "gone"
  BY <1>1, LifeMoves DEF IInv
<1>3. TypeOK'
  BY <1>1, <1>2 DEF IInv, TypeOK, Screens
<1>4. OwnerInv' /\ TasksQuiet' /\ PostsQuiet' /\ SubscriptOnlyInWindow'
  BY <1>1, <1>2, SameOwner, SameQuiet, SameWindow DEF IInv
<1> QED
  BY <1>3, <1>4 DEF IInv

\* viewDidAppear starts the Task f.
LEMMA AppearInv ==
    ASSUME IInv, NEW s \in Screens, NEW f \in Fetches, Appear(s, f),
           loader' \in BOOLEAN, opener' \in Screens \cup {None}
    PROVE  IInv'
<1> DEFINE c == FirstCall(s)
<1>1. /\ life' = [life EXCEPT ![s] = "shown"] /\ pc' = [pc EXCEPT ![f] = c]
      /\ owner' = [owner EXCEPT ![f] = s] /\ failed' = failed \ {s}
      /\ person' = person /\ artist' = artist /\ label' = label
      /\ records' = records /\ layout' = layout /\ posts' = posts /\ missed' = missed
      /\ pictures' = pictures
  BY DEF Appear
<1>2. c \in Calling \cup {"over"}
  BY DEF FirstCall, Calling
<1> HIDE DEF c
<1>3. /\ life' \in [Screens -> Alive \cup {"none", "gone"}]
      /\ \A t \in Screens : life'[t] = IF t = s THEN "shown" ELSE life[t]
      /\ \A t \in Screens : life'[t] = "gone" => life[t] = "gone"
  BY <1>1, LifeMoves DEF IInv
<1>4. /\ pc' \in [Fetches -> Calling \cup {"none", "over"}]
      /\ owner' \in [Fetches -> Screens \cup {None}]
      /\ \A g \in Fetches : g # f => pc'[g] = pc[g] /\ owner'[g] = owner[g]
      /\ owner'[f] = s
  BY <1>1, <1>2 DEF IInv, TypeOK
<1>5. TypeOK'
  BY <1>1, <1>3, <1>4 DEF IInv, TypeOK
<1>6. OwnerInv'
  BY <1>1 DEF IInv, TypeOK, OwnerInv
<1>7. SubscriptOnlyInWindow'
  BY <1>1, SameWindow DEF IInv
<1>8. TasksQuiet'
  BY <1>3, <1>4 DEF IInv, TasksQuiet
<1>9. PostsQuiet'
  BY <1>1, <1>3 DEF IInv, PostsQuiet
<1> QED
  BY <1>5, <1>6, <1>7, <1>8, <1>9 DEF IInv

LEMMA AppearancesInv ==
    ASSUME IInv, NEW s \in Screens, NEW f \in Fetches,
           PushEnds(s, f) \/ OpenNews(s, f) \/ Uncover(s, f)
    PROVE  IInv'
<1>1. Appear(s, f)
  BY DEF PushEnds, OpenNews, Uncover
<1>2. loader' \in BOOLEAN /\ opener' \in Screens \cup {None}
  BY DEF IInv, TypeOK, PushEnds, OpenNews, Uncover, loaderVars
<1> QED
  BY <1>1, <1>2, AppearInv

LEMMA CoverInv == ASSUME IInv, NEW s \in Screens, Cover(s) PROVE IInv'
<1>1. /\ life' = [life EXCEPT ![s] = "covered"] /\ person' = person
      /\ loader' = loader /\ opener' = opener
      /\ pc' = pc /\ owner' = owner /\ artist' = artist /\ label' = label
      /\ records' = records /\ layout' = layout /\ posts' = posts /\ missed' = missed
      /\ failed' = failed /\ pictures' = pictures
  BY DEF Cover, loaderVars, taskVars, modelVars
<1>2. /\ life' \in [Screens -> Alive \cup {"none", "gone"}]
      /\ \A t \in Screens : life'[t] = "gone" => life[t] = "gone"
  BY <1>1, LifeMoves DEF IInv
<1>3. TypeOK'
  BY <1>1, <1>2 DEF IInv, TypeOK
<1>4. OwnerInv' /\ TasksQuiet' /\ PostsQuiet' /\ SubscriptOnlyInWindow'
  BY <1>1, <1>2, SameOwner, SameQuiet, SameWindow DEF IInv
<1> QED
  BY <1>3, <1>4 DEF IInv

\* The screens that are taken away: none is released before nothing holds it.
LEMMA LeaveInv ==
    ASSUME IInv, (\E s \in Records : Back(s)) \/ SwitchToLogin
    PROVE  IInv'
<1>1. /\ person' = person /\ loader' = loader /\ opener' = opener
      /\ pc' = pc /\ owner' = owner /\ artist' = artist /\ label' = label
      /\ records' = records /\ layout' = layout /\ posts' = posts /\ missed' = missed
      /\ failed' = failed /\ pictures' = pictures
  BY DEF Back, SwitchToLogin, loaderVars, taskVars, modelVars
<1>2. /\ life' \in [Screens -> Alive \cup {"none", "gone"}]
      /\ \A t \in Screens : life'[t] = "gone" => life[t] = "gone"
  <2>1. ASSUME NEW s \in Records, Back(s) PROVE <1>2!:
    BY <2>1 DEF IInv, TypeOK, Back, Alive, Screens
  <2>2. CASE SwitchToLogin
    BY <2>2 DEF IInv, TypeOK, SwitchToLogin, Alive
  <2> QED
    BY <2>1, <2>2
<1>3. TypeOK'
  BY <1>1, <1>2 DEF IInv, TypeOK
<1>4. OwnerInv' /\ TasksQuiet' /\ PostsQuiet' /\ SubscriptOnlyInWindow'
  BY <1>1, <1>2, SameOwner, SameQuiet, SameWindow DEF IInv
<1> QED
  BY <1>3, <1>4 DEF IInv

LEMMA HideLoaderInv == ASSUME IInv, HideLoader PROVE IInv'
<1>1. /\ life' = life /\ person' = person /\ loader' = FALSE /\ opener' = opener
      /\ pc' = pc /\ owner' = owner /\ artist' = artist /\ label' = label
      /\ records' = records /\ layout' = layout /\ posts' = posts /\ missed' = missed
      /\ failed' = failed /\ pictures' = pictures
  BY DEF HideLoader, screenVars, taskVars, modelVars
<1>2. TypeOK'
  BY <1>1 DEF IInv, TypeOK
<1>3. OwnerInv' /\ TasksQuiet' /\ PostsQuiet' /\ SubscriptOnlyInWindow'
  BY <1>1, SameOwner, SameQuiet, SameWindow DEF IInv
<1> QED
  BY <1>2, <1>3 DEF IInv

\* The screen that is released has no Task and no closure left.
LEMMA DeinitInv == ASSUME IInv, NEW s \in Screens, Deinit(s) PROVE IInv'
<1>1. /\ life' = [life EXCEPT ![s] = "gone"] /\ person' = person
      /\ loader' = loader /\ opener' = opener
      /\ pc' = pc /\ owner' = owner /\ artist' = artist /\ label' = label
      /\ records' = records /\ layout' = layout /\ posts' = posts /\ missed' = missed
      /\ failed' = failed /\ pictures' = pictures
  BY DEF Deinit, loaderVars, taskVars, modelVars
<1>2. /\ \A f \in Fetches : owner[f] = s => pc[f] \notin Calling
      /\ posts[s] = NoPosts
  BY DEF Deinit
<1>3. TypeOK'
  BY <1>1 DEF IInv, TypeOK
<1>4. \A t \in Screens : life'[t] = IF t = s THEN "gone" ELSE life[t]
  BY <1>1 DEF IInv, TypeOK
<1>5. TasksQuiet'
  BY <1>1, <1>2, <1>4 DEF IInv, TasksQuiet
<1>6. PostsQuiet'
  BY <1>1, <1>2, <1>4 DEF IInv, PostsQuiet
<1>7. OwnerInv' /\ SubscriptOnlyInWindow'
  BY <1>1, SameOwner, SameWindow DEF IInv
<1> QED
  BY <1>3, <1>5, <1>6, <1>7 DEF IInv

-----------------------------------------------------------------------------
(***************************************************************************)
(* The Tasks.                                                              *)
(***************************************************************************)

\* A Task goes from one call to the next; what it leaves alone.
LEMMA GoFacts ==
    ASSUME IInv, NEW f \in Fetches, NEW from \in Calling, NEW to \in Calling \cup {"over"},
           Go(f, from, to)
    PROVE  /\ pc' \in [Fetches -> Calling \cup {"none", "over"}]
           /\ owner[f] \in Screens
           /\ life' = life /\ person' = person /\ owner' = owner /\ label' = label
           /\ layout' = layout /\ pictures' = pictures
           /\ OwnerInv' /\ TasksQuiet' /\ life[owner[f]] # "gone"
<1>1. /\ pc[f] = from /\ pc' = [pc EXCEPT ![f] = to]
      /\ life' = life /\ person' = person /\ owner' = owner /\ label' = label
      /\ layout' = layout /\ pictures' = pictures
  BY DEF Go, screenVars
<1>2. owner[f] \in Screens
  BY <1>1 DEF IInv, OwnerInv
<1>3. /\ pc' \in [Fetches -> Calling \cup {"none", "over"}]
      /\ \A g \in Fetches : pc'[g] = IF g = f THEN to ELSE pc[g]
  BY <1>1 DEF IInv, TypeOK
<1>4. OwnerInv'
  BY <1>1, <1>2, <1>3 DEF IInv, OwnerInv
<1>5. life[owner[f]] # "gone"
  BY <1>1, <1>2 DEF IInv, TasksQuiet
<1>6. TasksQuiet'
  BY <1>1, <1>3, <1>5 DEF IInv, TasksQuiet
<1> QED
  BY <1>1, <1>2, <1>3, <1>4, <1>5, <1>6

LEMMA GetPersonInv ==
    ASSUME IInv, NEW f \in Fetches, NEW r \in {"nil", "got"}, GetPerson(f, r)
    PROVE  IInv'
<1> DEFINE s == owner[f]
           n == IF Observing(s) THEN posts[s].labels + 1 ELSE posts[s].labels
           q == [posts[s] EXCEPT !.labels = n]
<1>1. Go(f, "person", "objects") /\ "person" \in Calling /\ "objects" \in Calling
  BY DEF GetPerson, Calling
<1>2. /\ pc' \in [Fetches -> Calling \cup {"none", "over"}] /\ s \in Screens
      /\ life' = life /\ person' = person /\ owner' = owner /\ label' = label
      /\ layout' = layout /\ pictures' = pictures
      /\ OwnerInv' /\ TasksQuiet' /\ life[s] # "gone"
  BY <1>1, GoFacts
<1>3. /\ loader' = loader /\ opener' = opener /\ records' = records
      /\ missed' = missed /\ failed' = failed
      /\ artist' = [artist EXCEPT ![s] = r]
  BY DEF GetPerson, loaderVars
<1>4. posts' = [posts EXCEPT ![s] = q]
  BY Zenon DEF GetPerson
<1>5. posts \in [Screens -> Posts] /\ posts[s] \in Posts
  BY <1>2 DEF IInv, TypeOK, Posts
<1>6. n \in Nat
  BY <1>5 DEF Posts
<1> HIDE DEF n
<1>7. q \in Posts /\ q.reloads = posts[s].reloads
  BY <1>5, <1>6, PostFacts
<1> HIDE DEF q
<1>8. /\ posts' \in [Screens -> Posts]
      /\ \A t \in Screens : posts'[t] = IF t = s THEN q ELSE posts[t]
  BY <1>4, <1>5, <1>7, PostsUpdate
<1>9. TypeOK'
  BY <1>2, <1>3, <1>8 DEF IInv, TypeOK, Posts
<1>10. SubscriptOnlyInWindow'
  BY <1>2, <1>3, <1>7, <1>8, SameWindow DEF IInv
<1>11. PostsQuiet'
  BY <1>2, <1>8, PostsStayQuiet DEF IInv
<1> QED
  BY <1>2, <1>9, <1>10, <1>11 DEF IInv

\* Records came: a reload is due, or the screen is covered and misses them.
LEMMA GetObjectsInv ==
    ASSUME IInv, NEW f \in Fetches, NEW m \in Sizes \cup {None}, GetObjects(f, m)
    PROVE  IInv'
<1> DEFINE s == owner[f]
           n == IF Observing(s) THEN posts[s].reloads + 1 ELSE posts[s].reloads
           q == [posts[s] EXCEPT !.reloads = n]
<1>1. Go(f, "objects", "hide") /\ "objects" \in Calling /\ "hide" \in Calling
  BY DEF GetObjects, Calling
<1>2. /\ pc' \in [Fetches -> Calling \cup {"none", "over"}] /\ s \in Screens
      /\ life' = life /\ person' = person /\ owner' = owner /\ label' = label
      /\ layout' = layout /\ pictures' = pictures
      /\ OwnerInv' /\ TasksQuiet' /\ life[s] # "gone"
  BY <1>1, GoFacts
<1>3. /\ loader' = loader /\ opener' = opener /\ artist' = artist /\ failed' = failed
      /\ records' = [records EXCEPT ![s] = m]
      /\ missed' = IF Observing(s) THEN missed ELSE missed \cup {s}
  BY DEF GetObjects, loaderVars
<1>4. posts' = [posts EXCEPT ![s] = q]
  BY Zenon DEF GetObjects
<1>5. posts \in [Screens -> Posts] /\ posts[s] \in Posts /\ posts[s].reloads \in Nat
  BY <1>2 DEF IInv, TypeOK, Posts
<1>6. n \in Nat /\ (Observing(s) => n > 0)
  BY <1>5
<1> HIDE DEF n
<1>7. q \in Posts /\ q.reloads = n
  BY <1>5, <1>6, PostFacts
<1> HIDE DEF q
<1>8. /\ posts' \in [Screens -> Posts]
      /\ \A t \in Screens : posts'[t] = IF t = s THEN q ELSE posts[t]
  BY <1>4, <1>5, <1>7, PostsUpdate
<1>9. /\ records' \in [Screens -> Sizes \cup {None}]
      /\ \A t \in Screens : t # s => records'[t] = records[t]
  BY <1>2, <1>3 DEF IInv, TypeOK
<1>10. missed' \subseteq Screens /\ missed \subseteq missed' /\ (~Observing(s) => s \in missed')
  BY <1>2, <1>3 DEF IInv, TypeOK
<1>11. TypeOK'
  BY <1>2, <1>3, <1>8, <1>9, <1>10 DEF IInv, TypeOK, Posts
<1>12. SubscriptOnlyInWindow'
  <2> SUFFICES ASSUME NEW t \in Screens, OutOfRange(t)'
               PROVE  posts'[t].reloads > 0 \/ t \in missed'
    BY DEF SubscriptOnlyInWindow
  <2>1. CASE t = s
    BY <1>6, <1>7, <1>8, <1>10, <2>1
  <2>2. CASE t # s
    <3>1. OutOfRange(t)
      BY <1>2, <1>9, <2>2 DEF OutOfRange
    <3> QED
      BY <1>8, <1>10, <2>2, <3>1 DEF IInv, SubscriptOnlyInWindow
  <2> QED
    BY <2>1, <2>2
<1>13. PostsQuiet'
  BY <1>2, <1>8, PostsStayQuiet DEF IInv
<1> QED
  BY <1>2, <1>11, <1>12, <1>13 DEF IInv

LEMMA ThrowsInv ==
    ASSUME IInv, NEW f \in Fetches, GetPersonThrows(f) \/ GetObjectsThrows(f) \/ Return(f)
    PROVE  IInv'
<1>1. "person" \in Calling /\ "objects" \in Calling /\ "hide" \in Calling
  BY DEF Calling
<1>2. Go(f, "person", "objects") \/ Go(f, "objects", "hide") \/ Go(f, "hide", "over")
  BY DEF GetPersonThrows, GetObjectsThrows, Return
<1>3. /\ pc' \in [Fetches -> Calling \cup {"none", "over"}] /\ owner[f] \in Screens
      /\ life' = life /\ person' = person /\ owner' = owner /\ label' = label
      /\ layout' = layout /\ pictures' = pictures
      /\ OwnerInv' /\ TasksQuiet'
  BY <1>1, <1>2, GoFacts
<1>4. /\ opener' = opener /\ artist' = artist /\ records' = records
      /\ posts' = posts /\ missed' = missed
      /\ failed' \in {failed, failed \cup {owner[f]}}
  BY DEF GetPersonThrows, GetObjectsThrows, Return, loaderVars
<1>5. loader' \in BOOLEAN
  BY DEF IInv, TypeOK, GetPersonThrows, GetObjectsThrows, Return, loaderVars
<1>6. TypeOK'
  BY <1>3, <1>4, <1>5 DEF IInv, TypeOK
<1>7. SubscriptOnlyInWindow' /\ PostsQuiet'
  BY <1>3, <1>4, SameWindow DEF IInv, PostsQuiet
<1> QED
  BY <1>3, <1>6, <1>7 DEF IInv

-----------------------------------------------------------------------------
(***************************************************************************)
(* The main queue and the cells.                                           *)
(***************************************************************************)
LEMMA SetLabelsInv == ASSUME IInv, NEW s \in Screens, SetLabels(s) PROVE IInv'
<1> DEFINE q == [posts[s] EXCEPT !.labels = posts[s].labels - 1]
<1>1. /\ posts[s].labels > 0 /\ label' = [label EXCEPT ![s] = artist[s]]
      /\ life' = life /\ person' = person /\ loader' = loader /\ opener' = opener
      /\ pc' = pc /\ owner' = owner /\ artist' = artist
      /\ records' = records /\ layout' = layout /\ missed' = missed
      /\ failed' = failed /\ pictures' = pictures
  BY DEF SetLabels, screenVars, loaderVars, taskVars
<1>2. posts' = [posts EXCEPT ![s] = q]
  BY Zenon DEF SetLabels
<1>3. posts \in [Screens -> Posts] /\ posts[s] \in Posts
  BY DEF IInv, TypeOK, Posts
<1>4. posts[s].labels - 1 \in Nat
  BY <1>1, <1>3 DEF Posts
<1>5. q \in Posts /\ q.reloads = posts[s].reloads
  BY <1>3, <1>4, PostFacts
<1> HIDE DEF q
<1>6. /\ posts' \in [Screens -> Posts]
      /\ \A t \in Screens : posts'[t] = IF t = s THEN q ELSE posts[t]
  BY <1>2, <1>3, <1>5, PostsUpdate
<1>7. TypeOK'
  BY <1>1, <1>6 DEF IInv, TypeOK, Posts
<1>8. OwnerInv' /\ SubscriptOnlyInWindow'
  BY <1>1, <1>5, <1>6, SameOwner, SameWindow DEF IInv
<1>9. life[s] # "gone"
  BY <1>1, NoPostsFacts DEF IInv, PostsQuiet
<1>10. TasksQuiet' /\ PostsQuiet'
  BY <1>1, <1>6, <1>9, PostsStayQuiet DEF IInv, TasksQuiet
<1> QED
  BY <1>7, <1>8, <1>10 DEF IInv

\* reloadData lays out as many items as the model has now.
LEMMA ReloadInv == ASSUME IInv, NEW s \in Screens, Reload(s) PROVE IInv'
<1> DEFINE q == [posts[s] EXCEPT !.reloads = posts[s].reloads - 1]
<1>1. /\ posts[s].reloads > 0 /\ layout' = [layout EXCEPT ![s] = NumberOfItems(s)]
      /\ missed' = missed \ {s}
      /\ life' = life /\ person' = person /\ loader' = loader /\ opener' = opener
      /\ pc' = pc /\ owner' = owner /\ artist' = artist /\ label' = label
      /\ records' = records
      /\ failed' = failed /\ pictures' = pictures
  BY DEF Reload, screenVars, loaderVars, taskVars
<1>2. posts' = [posts EXCEPT ![s] = q]
  BY Zenon DEF Reload
<1>3. posts \in [Screens -> Posts] /\ posts[s] \in Posts
  BY DEF IInv, TypeOK, Posts
<1>4. posts[s].reloads - 1 \in Nat
  BY <1>1, <1>3 DEF Posts
<1>5. q \in Posts
  BY <1>3, <1>4, PostFacts
<1> HIDE DEF q
<1>6. /\ posts' \in [Screens -> Posts]
      /\ \A t \in Screens : posts'[t] = IF t = s THEN q ELSE posts[t]
  BY <1>2, <1>3, <1>5, PostsUpdate
<1>7. NumberOfItems(s) \in Sizes \cup {1} /\ (records[s] # None => NumberOfItems(s) = records[s])
  BY DEF IInv, TypeOK, NumberOfItems
<1>8. /\ layout' \in [Screens -> Sizes \cup {1}]
      /\ \A t \in Screens : layout'[t] = IF t = s THEN NumberOfItems(s) ELSE layout[t]
  BY <1>1, <1>7 DEF IInv, TypeOK
<1>9. TypeOK'
  BY <1>1, <1>6, <1>8 DEF IInv, TypeOK, Posts
<1>10. SubscriptOnlyInWindow'
  <2> SUFFICES ASSUME NEW t \in Screens, OutOfRange(t)'
               PROVE  posts'[t].reloads > 0 \/ t \in missed'
    BY DEF SubscriptOnlyInWindow
  <2>1. CASE t = s
    <3>1. records[s] # None /\ layout'[s] > records[s] /\ layout'[s] = records[s]
      BY <1>1, <1>7, <1>8, <2>1 DEF OutOfRange
    <3>2. records[s] \in Nat
      BY <3>1, ScreensAssumption DEF IInv, TypeOK
    <3> QED
      BY <3>1, <3>2
  <2>2. CASE t # s
    <3>1. OutOfRange(t)
      BY <1>1, <1>8, <2>2 DEF OutOfRange
    <3> QED
      BY <1>1, <1>6, <2>2, <3>1 DEF IInv, SubscriptOnlyInWindow
  <2> QED
    BY <2>1, <2>2
<1>11. life[s] # "gone"
  BY <1>1, NoPostsFacts DEF IInv, PostsQuiet
<1>12. OwnerInv' /\ TasksQuiet' /\ PostsQuiet'
  BY <1>1, <1>6, <1>11, SameOwner, PostsStayQuiet DEF IInv, TasksQuiet
<1> QED
  BY <1>9, <1>10, <1>12 DEF IInv

LEMMA PictureInv ==
    ASSUME IInv, NEW s \in Screens, WillDisplay(s) \/ PictureEnds(s)
    PROVE  IInv'
<1>1. /\ life' = life /\ person' = person /\ loader' = loader /\ opener' = opener
      /\ pc' = pc /\ owner' = owner /\ artist' = artist /\ label' = label
      /\ records' = records /\ layout' = layout /\ posts' = posts /\ missed' = missed
      /\ failed' = failed
  BY DEF WillDisplay, PictureEnds, screenVars, loaderVars, taskVars, modelVars
<1>2. pictures[s] \in Nat /\ pictures[s] <= MaxPictures /\ MaxPictures \in Nat
  BY ScreensAssumption DEF IInv, TypeOK
<1>3. PICK n \in 0..MaxPictures : pictures' = [pictures EXCEPT ![s] = n]
  <2>1. CASE WillDisplay(s)
    <3>1. pictures[s] < MaxPictures /\ pictures' = [pictures EXCEPT ![s] = pictures[s] + 1]
      BY <2>1 DEF WillDisplay
    <3>2. pictures[s] + 1 \in 0..MaxPictures
      BY <1>2, <3>1
    <3> QED
      BY <3>1, <3>2
  <2>2. CASE PictureEnds(s)
    <3>1. pictures[s] > 0 /\ pictures' = [pictures EXCEPT ![s] = pictures[s] - 1]
      BY <2>2 DEF PictureEnds
    <3>2. pictures[s] - 1 \in 0..MaxPictures
      BY <1>2, <3>1
    <3> QED
      BY <3>1, <3>2
  <2> QED
    BY <2>1, <2>2
<1>4. TypeOK'
  BY <1>1, <1>3 DEF IInv, TypeOK
<1>5. OwnerInv' /\ TasksQuiet' /\ PostsQuiet' /\ SubscriptOnlyInWindow'
  BY <1>1, SameOwner, SameQuiet, SameWindow DEF IInv
<1> QED
  BY <1>4, <1>5 DEF IInv

-----------------------------------------------------------------------------
LEMMA NextInv == IInv /\ [Next]_vars => IInv'
<1> SUFFICES ASSUME IInv, [Next]_vars PROVE IInv'
  OBVIOUS
<1>1. ASSUME NEW s \in Records, NEW p \in BOOLEAN, DidTapOnImage(s, p) PROVE IInv'
  BY <1>1, DidTapOnImageInv
<1>2. CASE (\E s \in Records : Back(s)) \/ SwitchToLogin
  BY <1>2, LeaveInv
<1>3. ASSUME NEW s \in Screens, NEW f \in Fetches,
             PushEnds(s, f) \/ OpenNews(s, f) \/ Uncover(s, f)
      PROVE  IInv'
  BY <1>3, AppearancesInv
<1>4. ASSUME NEW s \in Screens,
             \/ Cover(s) \/ Main(s) \/ Deinit(s) \/ DisplayTraps(s)
             \/ WillDisplay(s) \/ PictureEnds(s) \/ UnownedTraps(s)
      PROVE  IInv'
  <2>1. CASE Cover(s)
    BY <2>1, CoverInv
  <2>2. CASE Main(s)
    BY <2>2, SetLabelsInv, ReloadInv DEF Main
  <2>3. CASE Deinit(s)
    BY <2>3, DeinitInv
  <2>4. CASE DisplayTraps(s) \/ UnownedTraps(s)
    BY <2>4, RelaunchedInv DEF DisplayTraps, UnownedTraps
  <2>5. CASE WillDisplay(s) \/ PictureEnds(s)
    BY <2>5, PictureInv
  <2> QED
    BY <1>4, <2>1, <2>2, <2>3, <2>4, <2>5
<1>5. CASE HideLoader
  BY <1>5, HideLoaderInv
<1>6. ASSUME NEW f \in Fetches, Step(f) PROVE IInv'
  BY <1>6, GetPersonInv, GetObjectsInv, ThrowsInv DEF Step
<1>7. CASE UNCHANGED vars
  <2>1. TypeOK'
    BY <1>7 DEF IInv, TypeOK, vars, screenVars, loaderVars, taskVars, modelVars
  <2>2. OwnerInv' /\ TasksQuiet' /\ PostsQuiet' /\ SubscriptOnlyInWindow'
    BY <1>7, SameOwner, SameQuiet, SameWindow
       DEF IInv, vars, screenVars, taskVars, modelVars
  <2> QED
    BY <2>1, <2>2 DEF IInv
<1>8. Records \subseteq Screens /\ News \subseteq Screens
  BY DEF Screens
<1> QED
  BY <1>1, <1>2, <1>3, <1>4, <1>5, <1>6, <1>7, <1>8 DEF Next

LEMMA Invariant == Spec => []IInv
  BY InitInv, NextInv, PTL DEF Spec

\* Every variable keeps its type; in particular no more closures and pictures are taken
\* from a screen than were posted and started for it.
THEOREM TypeCorrect == Spec => []TypeOK
<1>1. IInv => TypeOK
  BY DEF IInv
<1> QED
  BY <1>1, Invariant, PTL

\* However many Tasks of however many screens overlap, a cell subscripts past the end of
\* the records only between their assignment and the reload posted for it, or after
\* they came while the screen was covered and nothing observed them.
THEOREM SubscriptInWindow == Spec => []SubscriptOnlyInWindow
<1>1. IInv => SubscriptOnlyInWindow
  BY DEF IInv
<1> QED
  BY <1>1, Invariant, PTL

-----------------------------------------------------------------------------
(***************************************************************************)
(* A released screen.                                                      *)
(***************************************************************************)

\* What belongs to the screen s in the models, the views and the main queue.
Untouched(s) ==
    /\ artist'[s] = artist[s]
    /\ label'[s] = label[s]
    /\ records'[s] = records[s]
    /\ layout'[s] = layout[s]
    /\ posts'[s] = posts[s]

\* A Task writes for its own screen, which is not released.
LEMMA TaskTouches ==
    ASSUME IInv, NEW f \in Fetches, Step(f), NEW s \in Screens, life[s] = "gone"
    PROVE  Untouched(s)
<1>1. "person" \in Calling /\ "objects" \in Calling /\ "hide" \in Calling
  BY DEF Calling
<1>2. \/ Go(f, "person", "objects") \/ Go(f, "objects", "hide") \/ Go(f, "hide", "over")
  BY DEF Step, GetPerson, GetPersonThrows, GetObjects, GetObjectsThrows, Return
<1>3. owner[f] \in Screens /\ life[owner[f]] # "gone" /\ label' = label /\ layout' = layout
  BY <1>1, <1>2, GoFacts
<1>4. PICK t \in Screens : t = owner[f]
  BY <1>3
<1>5. s # t
  BY <1>3, <1>4
<1>6. \/ artist' = artist
      \/ \E r : artist' = [artist EXCEPT ![t] = r]
  BY <1>4 DEF Step, GetPerson, GetPersonThrows, GetObjects, GetObjectsThrows, Return
<1>7. \/ records' = records
      \/ \E r : records' = [records EXCEPT ![t] = r]
  BY <1>4 DEF Step, GetPerson, GetPersonThrows, GetObjects, GetObjectsThrows, Return
<1>8. \/ posts' = posts
      \/ \E r : posts' = [posts EXCEPT ![t] = r]
  BY <1>4, Zenon DEF Step, GetPerson, GetPersonThrows, GetObjects, GetObjectsThrows, Return
<1> QED
  BY <1>3, <1>5, <1>6, <1>7, <1>8 DEF IInv, TypeOK, Untouched

\* A closure runs for a screen that has one, which is not released.
LEMMA MainTouches ==
    ASSUME IInv, NEW t \in Screens, Main(t), NEW s \in Screens, life[s] = "gone"
    PROVE  Untouched(s)
<1>1. posts[t].labels > 0 \/ posts[t].reloads > 0
  BY DEF Main, SetLabels, Reload
<1>2. s # t
  BY <1>1, NoPostsFacts DEF IInv, PostsQuiet
<1>3. /\ artist' = artist /\ records' = records
      /\ label' = label \/ \E r : label' = [label EXCEPT ![t] = r]
      /\ layout' = layout \/ \E r : layout' = [layout EXCEPT ![t] = r]
  BY DEF Main, SetLabels, Reload
<1>4. \E r : posts' = [posts EXCEPT ![t] = r]
  BY Zenon DEF Main, SetLabels, Reload
<1> QED
  BY <1>2, <1>3, <1>4 DEF IInv, TypeOK, Untouched

LEMMA NextTouches ==
    ASSUME IInv, [Next]_vars, NEW s \in Screens, life[s] = "gone", life'[s] = "gone"
    PROVE  Untouched(s)
<1>1. CASE UNCHANGED modelVars
  BY <1>1 DEF modelVars, Untouched
<1>2. ASSUME NEW t \in Screens, NEW f \in Fetches, Appear(t, f) PROVE Untouched(s)
  BY <1>2 DEF Appear, Untouched
<1>3. CASE Relaunched
  BY <1>3 DEF Relaunched
<1>4. ASSUME NEW t \in Screens, Main(t) PROVE Untouched(s)
  BY <1>4, MainTouches
<1>5. ASSUME NEW f \in Fetches, Step(f) PROVE Untouched(s)
  BY <1>5, TaskTouches
<1>6. CASE UNCHANGED vars
  BY <1>1, <1>6 DEF vars
<1>7. ASSUME NEW t \in Screens, NEW f \in Fetches,
             PushEnds(t, f) \/ OpenNews(t, f) \/ Uncover(t, f)
      PROVE  Untouched(s)
  BY <1>2, <1>7 DEF PushEnds, OpenNews, Uncover
<1>8. ASSUME NEW t \in Screens, NEW p \in BOOLEAN,
             \/ Back(t) \/ DidTapOnImage(t, p) \/ Cover(t) \/ Deinit(t)
             \/ WillDisplay(t) \/ PictureEnds(t) \/ SwitchToLogin \/ HideLoader
      PROVE  UNCHANGED modelVars
  BY <1>8 DEF Back, DidTapOnImage, Cover, Deinit, WillDisplay, PictureEnds,
              SwitchToLogin, HideLoader
<1>9. ASSUME NEW t \in Screens, DisplayTraps(t) \/ UnownedTraps(t) PROVE Relaunched
  BY <1>9 DEF DisplayTraps, UnownedTraps
<1>10. Records \subseteq Screens /\ News \subseteq Screens
  BY DEF Screens
<1> QED
  BY <1>1, <1>3, <1>4, <1>5, <1>6, <1>7, <1>8, <1>9, <1>10 DEF Next

\* Once a screen is released, no Task assigns to its view model and no closure is posted
\* or run for it, however many Tasks it had and whoever took it away: only the
\* [unowned] completion blocks of its pictures can still reach it.
THEOREM ReleasedUntouched == Spec => ReleasedIsUntouched
<1>1. IInv /\ [Next]_vars =>
        [\A s \in Screens : life[s] = "gone" /\ life'[s] = "gone" =>
            /\ artist'[s] = artist[s]
            /\ label'[s] = label[s]
            /\ records'[s] = records[s]
            /\ layout'[s] = layout[s]
            /\ posts'[s] = posts[s]]_vars
  BY NextTouches DEF Untouched
<1> QED
  BY <1>1, Invariant, PTL DEF Spec, ReleasedIsUntouched
=============================================================================
