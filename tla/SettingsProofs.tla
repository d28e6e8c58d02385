--------------------------- MODULE SettingsProofs ---------------------------
(***************************************************************************)
(* Proofs about the two components behind the settings screen: Profile,    *)
(* for any accounts, providers and documents, any number of settings       *)
(* screens and of fetches that share them; and, at the end, Languages.     *)
(***************************************************************************)
EXTENDS Profile, Languages, WellFoundedInduction, TLAPS

\* A fetch that is at p with the local variables j.  It works for a screen; what it does
\* after Begin it does for a user, and after a provider answered for an e-mail, of users
\* that signed in; the picture it got belongs to that e-mail.
FetchOK(p, j) ==
    /\ p \in Running => j.screen \in Screens
    /\ p \in {"next", "document", "image", "assign", "save"} => j.user \in Users
    /\ p \in {"image", "assign", "save"} => j.email \in Users
    /\ p \in {"assign", "save"} => j.picture \in {j.email, None}
    /\ j.user \in signed \cup {None}
    /\ j.email \in signed \cup {None}

FetchInv == \A f \in Fetches : FetchOK(pc[f], job[f])

\* The loader has a fetch to wait for: one that runs, or one that failed or hangs.
LoaderInv == loader => opener \in Fetches /\ pc[opener] \in Running \cup {"failed", "hung"}

\* Until two fetches meet there, avtarImage is the picture of the fetch about to save.
AvatarInv ==
    ~raced => \A f \in Fetches : pc[f] = "save" => avatar[job[f].screen] = job[f].picture

\* The users at hand signed in.
AuthInv == currentUser \in signed \cup {None} /\ googleUser \in signed \cup {None}

\* The users saved signed in; their pictures are their own until fetches meet.
RowsInv ==
    \A r \in rows : r.email \in signed /\ (~raced => r.picture \in {r.email, None})

\* What leads to an enrolment, or is one, comes from a right face on the screen below.
GateInv == covers > 0 \/ pushes > 0 => screen \in recognised

IInv ==
    TypeOK /\ FetchInv /\ LoaderInv /\ AvatarInv /\ AuthInv /\ RowsInv /\ GateInv

-----------------------------------------------------------------------------
(***************************************************************************)
(* The operators of the model.                                             *)
(***************************************************************************)
LEMMA NoneFacts == None \notin Users /\ None \notin Screens /\ None \notin Fetches
  BY NoneAssumption

\* A nonempty set of users saved has a first one, and fetch() finds it.
LEMMA FirstFacts ==
    ASSUME rows \subseteq Row, rows # {}
    PROVE  First(rows) \in Users /\ \E r \in rows : r.email = First(rows)
<1> DEFINE E == {r.email : r \in rows}
<1>1. E \subseteq Nat /\ E # {} /\ E \subseteq Users
  BY UsersAssumption DEF Row
<1>2. \E x \in E : \A y \in E : x <= y
  <2>1. PICK x \in E : \A y \in E : ~(<<y, x>> \in OpToRel(<, Nat))
    BY <1>1, WFMin, NatLessThanWellFounded, Zenon
  <2>2. \A y \in E : <<y, x>> \in OpToRel(<, Nat) <=> y < x
    BY <1>1 DEF OpToRel
  <2>3. \A y \in E : ~(y < x)
    BY <2>1, <2>2, Zenon
  <2> HIDE DEF E
  <2>4. \A y \in E : x <= y
    BY <1>1, <2>3, SMT
  <2> QED
    BY <2>4
<1>3. \E x \in E : \A r \in rows : x <= r.email
  BY <1>2
<1>4. First(rows) \in E
  BY <1>3 DEF First
<1> QED
  BY <1>1, <1>4

LEMMA JobFacts ==
    ASSUME NEW j \in Job
    PROVE  /\ j.screen \in Screens \cup {None} /\ j.user \in Users \cup {None}
           /\ j.at \in Nat /\ j.email \in Users \cup {None}
           /\ j.picture \in Users \cup {None}
  BY DEF Job

LEMMA WithScreen ==
    ASSUME NEW j \in Job, NEW s \in Screens
    PROVE  /\ [j EXCEPT !.screen = s] \in Job
           /\ [j EXCEPT !.screen = s].screen = s
           /\ [j EXCEPT !.screen = s].user = j.user
           /\ [j EXCEPT !.screen = s].email = j.email
           /\ [j EXCEPT !.screen = s].picture = j.picture
  BY DEF Job

LEMMA WithUser ==
    ASSUME NEW j \in Job, NEW u \in Users \cup {None}
    PROVE  /\ [j EXCEPT !.user = u] \in Job
           /\ [j EXCEPT !.user = u].screen = j.screen
           /\ [j EXCEPT !.user = u].user = u
           /\ [j EXCEPT !.user = u].email = j.email
           /\ [j EXCEPT !.user = u].picture = j.picture
  BY DEF Job

LEMMA WithEmail ==
    ASSUME NEW j \in Job, NEW e \in Users \cup {None}
    PROVE  /\ [j EXCEPT !.email = e] \in Job
           /\ [j EXCEPT !.email = e].screen = j.screen
           /\ [j EXCEPT !.email = e].user = j.user
           /\ [j EXCEPT !.email = e].email = e
           /\ [j EXCEPT !.email = e].picture = j.picture
  BY DEF Job

LEMMA WithPicture ==
    ASSUME NEW j \in Job, NEW p \in Users \cup {None}
    PROVE  /\ [j EXCEPT !.picture = p] \in Job
           /\ [j EXCEPT !.picture = p].screen = j.screen
           /\ [j EXCEPT !.picture = p].user = j.user
           /\ [j EXCEPT !.picture = p].email = j.email
           /\ [j EXCEPT !.picture = p].picture = p
  BY DEF Job

LEMMA NoJobFacts == NoJob \in Job /\ \A p \in Ended : FetchOK(p, NoJob)
  BY DEF NoJob, Job, FetchOK, Ended, Running

-----------------------------------------------------------------------------
(***************************************************************************)
(* Every step of a fetch moves it to a place p with local variables j.     *)
(***************************************************************************)
Moved(f, p, j) ==
    /\ pc' = [pc EXCEPT ![f] = p]
    /\ job' = [job EXCEPT ![f] = j]

LEMMA MovedFacts ==
    ASSUME TypeOK, NEW f \in Fetches, NEW p \in Running \cup Ended, NEW j \in Job,
           Moved(f, p, j)
    PROVE  /\ pc' \in [Fetches -> Running \cup Ended]
           /\ job' \in [Fetches -> Job]
           /\ \A g \in Fetches : pc'[g] = IF g = f THEN p ELSE pc[g]
           /\ \A g \in Fetches : job'[g] = IF g = f THEN j ELSE job[g]
  BY DEF TypeOK, Moved

\* The other fetches are where they were.
LEMMA MovedFetches ==
    ASSUME TypeOK, FetchInv, NEW f \in Fetches, NEW p \in Running \cup Ended, NEW j \in Job,
           Moved(f, p, j), FetchOK(p, j), signed' = signed
    PROVE  FetchInv'
<1> SUFFICES ASSUME NEW g \in Fetches PROVE FetchOK(pc[g], job[g])'
  BY DEF FetchInv
<1>1. /\ pc'[g] = IF g = f THEN p ELSE pc[g]
      /\ job'[g] = IF g = f THEN j ELSE job[g]
  BY MovedFacts
<1>2. FetchOK(pc'[g], job'[g])
  BY <1>1 DEF FetchInv
<1> QED
  BY <1>2 DEF FetchOK

\* The steps that change nothing but the fetch: where they lead.
Inner(f) ==
    \/ Begin(f) \/ NextProvider(f) \/ GetDocument(f) \/ GetNoDocument(f)
    \/ GetDocumentFails(f) \/ \E p \in Users \cup {None} : GetImage(f, p)

Between == (Running \ {"save"}) \cup {"failed", "hung"}

LEMMA InnerMoves ==
    ASSUME TypeOK, FetchInv, AuthInv, NEW f \in Fetches, Inner(f)
    PROVE  \E p \in Between, j \in Job : Moved(f, p, j) /\ FetchOK(p, j)
<1> DEFINE i == job[f]
<1>1. i \in Job /\ FetchOK(pc[f], i)
  BY DEF TypeOK, FetchInv
<1>2. /\ currentUser \in Users \cup {None} /\ googleUser \in Users \cup {None}
      /\ currentUser \in signed \cup {None} /\ googleUser \in signed \cup {None}
  BY DEF TypeOK, AuthInv
<1>3. CASE Begin(f)
  <2> DEFINE p == IF currentUser = None THEN "returning" ELSE "next"
             j == [i EXCEPT !.user = currentUser]
  <2>1. pc[f] = "started" /\ Moved(f, p, j)
    BY <1>3, Zenon DEF Begin, Go, Moved
  <2>2. /\ j \in Job /\ j.screen = i.screen /\ j.user = currentUser
        /\ j.email = i.email /\ j.picture = i.picture
    BY <1>1, <1>2, WithUser
  <2> HIDE DEF j, i
  <2>3. p \in Between /\ FetchOK(p, j)
    BY <1>1, <1>2, <2>1, <2>2 DEF FetchOK, Between, Running
  <2> QED
    BY <2>1, <2>2, <2>3
<1>4. CASE NextProvider(f)
  <2> DEFINE more   == i.at <= Len(Providers(f))
             google == more /\ Providers(f)[i.at] = "google"
             p == IF ~more \/ (google /\ googleUser = None) THEN "returning"
                  ELSE IF google THEN "image" ELSE "document"
             e == IF google THEN googleUser ELSE i.email
             j == [i EXCEPT !.email = e]
  <2>1. pc[f] = "next" /\ Moved(f, p, j)
    BY <1>4, Zenon DEF NextProvider, Go, Moved
  <2>2. \/ p = "returning"
        \/ p = "document"
        \/ p = "image" /\ e = googleUser /\ googleUser # None
    BY Zenon
  <2>3. e = googleUser \/ e = i.email
    BY Zenon
  <2> HIDE DEF p, e
  <2>4. e \in Users \cup {None} /\ e \in signed \cup {None}
    BY <1>1, <1>2, <2>3, JobFacts DEF FetchOK
  <2>5. /\ j \in Job /\ j.screen = i.screen /\ j.user = i.user
        /\ j.email = e /\ j.picture = i.picture
    BY <1>1, <2>4, WithEmail
  <2> HIDE DEF j, i
  <2>6. p \in Between /\ FetchOK(p, j)
    BY <1>1, <1>2, <2>1, <2>2, <2>4, <2>5 DEF FetchOK, Between, Running
  <2> QED
    BY <2>1, <2>5, <2>6
<1>5. CASE GetDocument(f)
  <2> DEFINE j == [i EXCEPT !.email = i.user]
  <2>1. pc[f] = "document" /\ Moved(f, "image", j)
    BY <1>5, Zenon DEF GetDocument, Go, Moved
  <2>2. /\ j \in Job /\ j.screen = i.screen /\ j.user = i.user
        /\ j.email = i.user /\ j.picture = i.picture
    BY <1>1, WithEmail, JobFacts
  <2> HIDE DEF j, i
  <2>3. "image" \in Between /\ FetchOK("image", j)
    BY <1>1, <2>1, <2>2 DEF FetchOK, Between, Running
  <2> QED
    BY <2>1, <2>2, <2>3
<1>6. CASE GetNoDocument(f)
  <2>1. Moved(f, "hung", NoJob) /\ "hung" \in Between /\ "hung" \in Ended
    BY <1>6 DEF GetNoDocument, Go, Forgets, Moved, Between, Ended
  <2> QED
    BY <2>1, NoJobFacts
<1>7. CASE GetDocumentFails(f)
  <2>1. Moved(f, "failed", NoJob) /\ "failed" \in Between /\ "failed" \in Ended
    BY <1>7 DEF GetDocumentFails, Go, Forgets, Moved, Between, Ended
  <2> QED
    BY <2>1, NoJobFacts
<1>8. ASSUME NEW q \in Users \cup {None}, GetImage(f, q)
      PROVE  \E p \in Between, j \in Job : Moved(f, p, j) /\ FetchOK(p, j)
  <2> DEFINE j == [i EXCEPT !.picture = q]
  <2>1. pc[f] = "image" /\ Moved(f, "assign", j) /\ q \in {i.email, None}
    BY <1>8, Zenon DEF GetImage, Go, Moved
  <2>2. /\ j \in Job /\ j.screen = i.screen /\ j.user = i.user
        /\ j.email = i.email /\ j.picture = q
    BY <1>1, WithPicture
  <2> HIDE DEF j, i
  <2>3. "assign" \in Between /\ FetchOK("assign", j)
    BY <1>1, <2>1, <2>2 DEF FetchOK, Between, Running
  <2> QED
    BY <2>1, <2>2, <2>3
<1> QED
  BY <1>3, <1>4, <1>5, <1>6, <1>7, <1>8 DEF Inner

-----------------------------------------------------------------------------
(***************************************************************************)
(* Each action keeps IInv.                                                 *)
(***************************************************************************)
LEMMA InitInv == Init => IInv
<1> SUFFICES ASSUME Init PROVE IInv
  OBVIOUS
<1>1. TypeOK
  <2>1. "none" \in Running \cup Ended
    BY DEF Running, Ended
  <2> QED
    BY <2>1, NoJobFacts DEF Init, TypeOK
<1>2. FetchInv
  BY NoJobFacts DEF Init, FetchInv, Ended
<1>3. LoaderInv /\ AvatarInv /\ AuthInv /\ RowsInv /\ GateInv
  BY DEF Init, LoaderInv, AvatarInv, AuthInv, RowsInv, GateInv
<1> QED
  BY <1>1, <1>2, <1>3 DEF IInv

\* More users may have signed in.
LEMMA SameFetches ==
    ASSUME FetchInv, pc' = pc, job' = job, signed \subseteq signed'
    PROVE  FetchInv'
  BY DEF FetchInv, FetchOK

LEMMA SameStore ==
    ASSUME RowsInv, rows' \subseteq rows, signed \subseteq signed', raced' = raced
    PROVE  RowsInv'
  BY DEF RowsInv

\* What happens around the fetches and the store.
LEMMA OutsideInv ==
    ASSUME IInv, TypeOK', GateInv', pc' = pc, job' = job, avatar' = avatar, rows' = rows,
           signed' = signed, raced' = raced, googleUser' = googleUser,
           currentUser' \in {currentUser, None}, loader' => loader /\ opener' = opener
    PROVE  IInv'
<1>1. FetchInv'
  BY SameFetches DEF IInv
<1>2. RowsInv'
  BY SameStore DEF IInv
<1>3. LoaderInv'
  BY DEF IInv, LoaderInv
<1>4. AvatarInv' /\ AuthInv'
  BY DEF IInv, AvatarInv, AuthInv
<1> QED
  BY <1>1, <1>2, <1>3, <1>4 DEF IInv

LEMMA SignInInv ==
    ASSUME IInv, NEW u \in Users, NEW g \in Users \cup {None}, SignIn(u, g)
    PROVE  IInv'
<1>1. /\ signed' = signed \cup ({u, g} \ {None})
      /\ currentUser' = u /\ googleUser' = IF g = None THEN googleUser ELSE g
      /\ pc' = pc /\ job' = job /\ rows' = rows /\ keychain' = keychain
      /\ raced' = raced /\ loader' = loader /\ opener' = opener /\ avatar' = avatar
  BY DEF SignIn, fetchVars, storeVars
<1>2. TypeOK'
  BY <1>1 DEF IInv, TypeOK, SignIn, screenVars
<1>3. FetchInv'
  BY <1>1, SameFetches DEF IInv
<1>4. RowsInv'
  BY <1>1, SameStore DEF IInv
<1>5. LoaderInv' /\ AvatarInv' /\ GateInv'
  BY <1>1 DEF IInv, LoaderInv, AvatarInv, GateInv, SignIn, screenVars
<1>6. AuthInv'
  BY <1>1, NoneFacts DEF IInv, AuthInv
<1> QED
  BY <1>2, <1>3, <1>4, <1>5, <1>6 DEF IInv

LEMMA LogOutInv == ASSUME IInv, LogOut \/ Expire PROVE IInv'
<1>1. /\ screen' \in Screens /\ used' = used /\ visible' = FALSE
      /\ covers' = 0 /\ pushes' = 0 /\ evaluating' = evaluating
  BY DEF LogOut, Expire, ReplaceScreens
<1>2. /\ currentUser' \in {currentUser, None} /\ googleUser' = googleUser
      /\ signed' = signed /\ loader' = loader /\ avatar' = avatar
      /\ pc' = pc /\ job' = job /\ rows' = rows /\ keychain' = keychain
      /\ recognised' = recognised /\ opener' = opener /\ raced' = raced
  BY DEF LogOut, Expire, authVars, fetchVars, storeVars
<1>3. TypeOK'
  BY <1>1, <1>2 DEF IInv, TypeOK
<1>4. GateInv'
  BY <1>1 DEF GateInv
<1> QED
  BY <1>2, <1>3, <1>4, OutsideInv

LEMMA HideLoaderInv == ASSUME IInv, HideLoader PROVE IInv'
<1>1. TypeOK' /\ GateInv'
  BY DEF IInv, TypeOK, GateInv, HideLoader, authVars, screenVars, fetchVars, storeVars
<1> QED
  BY <1>1, OutsideInv DEF HideLoader, authVars, fetchVars, storeVars

LEMMA CoverInv == ASSUME IInv, Disappear \/ PushEnrolment PROVE IInv'
<1>1. TypeOK'
  <2>1. covers' \in Nat /\ pushes' \in Nat
    BY DEF IInv, TypeOK, Disappear, PushEnrolment
  <2> QED
    BY <2>1 DEF IInv, TypeOK, Disappear, PushEnrolment, authVars, fetchVars, storeVars
<1>2. GateInv'
  BY DEF IInv, TypeOK, GateInv, Disappear, PushEnrolment
<1> QED
  BY <1>1, <1>2, OutsideInv DEF Disappear, PushEnrolment, authVars, fetchVars, storeVars

LEMMA FaceSwitchInv == ASSUME IInv, FaceSwitch PROVE IInv'
<1>1. TypeOK'
  <2>1. evaluating' \in [Screens -> Nat]
    BY DEF IInv, TypeOK, FaceSwitch
  <2> QED
    BY <2>1 DEF IInv, TypeOK, FaceSwitch, authVars, fetchVars, storeVars
<1>2. GateInv'
  BY DEF IInv, GateInv, FaceSwitch
<1> QED
  BY <1>1, <1>2, OutsideInv DEF FaceSwitch, authVars, fetchVars, storeVars

LEMMA FaceInv == ASSUME IInv, NEW s \in Screens, Face(s) PROVE IInv'
<1>1. TypeOK'
  <2>1. evaluating' \in [Screens -> Nat]
    BY DEF IInv, TypeOK, Face, FaceIsRight, FaceIsWrong
  <2>2. pushes' \in Nat /\ recognised' \subseteq Screens
    BY DEF IInv, TypeOK, Face, FaceIsRight, FaceIsWrong
  <2> QED
    BY <2>1, <2>2
       DEF IInv, TypeOK, Face, FaceIsRight, FaceIsWrong, authVars, fetchVars, storeVars
<1>2. GateInv'
  BY DEF IInv, GateInv, Face, FaceIsRight, FaceIsWrong
<1> QED
  BY <1>1, <1>2, OutsideInv DEF Face, FaceIsRight, FaceIsWrong, authVars, fetchVars, storeVars

\* The process ends: its Tasks are lost, with what they knew.
LEMMA RelaunchInv == ASSUME IInv, Relaunch PROVE IInv'
<1>1. /\ rows' \subseteq rows /\ keychain' = keychain /\ raced' = raced /\ signed' = signed
      /\ currentUser' = currentUser /\ googleUser' = None /\ ~loader'
  BY DEF Relaunch
<1>2. /\ job' = [f \in Fetches |-> NoJob]
      /\ \A f \in Fetches : pc'[f] \in {"none", "lost"}
      /\ pc' \in [Fetches -> {"none", "lost"}]
  BY DEF Relaunch
<1>3. TypeOK'
  <2>1. pc' \in [Fetches -> Running \cup Ended] /\ job' \in [Fetches -> Job]
    BY <1>2, NoJobFacts DEF Ended
  <2> QED
    BY <1>1, <2>1 DEF IInv, TypeOK, Relaunch, ReplaceScreens
<1>4. FetchInv'
  <2>1. \A f \in Fetches : FetchOK(pc'[f], job'[f])
    BY <1>2, NoJobFacts DEF Ended
  <2> QED
    BY <1>1, <2>1 DEF FetchInv, FetchOK
<1>5. RowsInv'
  BY <1>1, SameStore DEF IInv
<1>6. LoaderInv' /\ AvatarInv' /\ AuthInv' /\ GateInv'
  BY <1>1, <1>2 DEF IInv, LoaderInv, AvatarInv, AuthInv, GateInv, Relaunch, ReplaceScreens
<1> QED
  BY <1>3, <1>4, <1>5, <1>6 DEF IInv

-----------------------------------------------------------------------------
\* A settings screen appears: a fetch f that did not run is started for it, and if it
\* is the first of the screen, the loader waits for f.
LEMMA AppearsInv ==
    ASSUME IInv, NEW f \in Fetches, Appears(f),
           avatar' = avatar, rows' = rows, signed' = signed, raced' = raced
    PROVE  /\ pc' \in [Fetches -> Running \cup Ended] /\ job' \in [Fetches -> Job]
           /\ loader' \in BOOLEAN /\ opener' \in Fetches \cup {None}
           /\ used' \subseteq Screens /\ visible' \in BOOLEAN
           /\ FetchInv' /\ LoaderInv' /\ AvatarInv' /\ RowsInv'
<1> DEFINE i == job[f]
           j == [i EXCEPT !.screen = screen]
<1>1. TypeOK /\ FetchInv /\ i \in Job /\ FetchOK(pc[f], i) /\ screen \in Screens
  BY DEF IInv, TypeOK, FetchInv
<1>2. pc[f] = "none" /\ Moved(f, "started", j)
  BY Zenon DEF Appears, Moved
<1>3. /\ j \in Job /\ j.screen = screen /\ j.user = i.user
      /\ j.email = i.email /\ j.picture = i.picture
  BY <1>1, WithScreen
<1> HIDE DEF j
<1>4. FetchOK("started", j) /\ "started" \in Running
  BY <1>1, <1>2, <1>3 DEF FetchOK, Running, i
<1>5. /\ pc' \in [Fetches -> Running \cup Ended] /\ job' \in [Fetches -> Job]
      /\ \A g \in Fetches : pc'[g] = IF g = f THEN "started" ELSE pc[g]
      /\ \A g \in Fetches : job'[g] = IF g = f THEN j ELSE job[g]
  BY <1>1, <1>2, <1>3, <1>4, MovedFacts
<1>6. loader' \in BOOLEAN
  BY Zenon DEF Appears
<1>7. opener' \in Fetches \cup {None} /\ used' \subseteq Screens /\ visible' \in BOOLEAN
  BY <1>1 DEF IInv, TypeOK, Appears
<1>8. FetchInv'
  BY <1>1, <1>2, <1>3, <1>4, MovedFetches
<1>9. LoaderInv'
  <2>1. CASE screen \notin used
    BY <1>4, <1>5, <2>1 DEF Appears, LoaderInv
  <2>2. CASE screen \in used
    <3>1. loader' = loader /\ opener' = opener
      BY <2>2 DEF Appears, IInv, TypeOK
    <3> QED
      BY <1>4, <1>5, <3>1 DEF IInv, LoaderInv
  <2> QED
    BY <2>1, <2>2
<1>10. AvatarInv'
  BY <1>5 DEF IInv, AvatarInv
<1>11. RowsInv'
  BY DEF IInv, RowsInv
<1> QED
  BY <1>5, <1>6, <1>7, <1>8, <1>9, <1>10, <1>11

\* An enrolment screen is popped.
LEMMA PopsInv ==
    ASSUME IInv, NEW f \in Fetches, Pops(f),
           avatar' = avatar, rows' = rows, signed' = signed, raced' = raced
    PROVE  /\ pc' \in [Fetches -> Running \cup Ended] /\ job' \in [Fetches -> Job]
           /\ loader' \in BOOLEAN /\ opener' \in Fetches \cup {None}
           /\ used' \subseteq Screens /\ visible' \in BOOLEAN
           /\ covers > 0 /\ covers' \in Nat
           /\ screen' = screen /\ pushes' = pushes /\ evaluating' = evaluating
           /\ FetchInv' /\ LoaderInv' /\ AvatarInv' /\ RowsInv'
<1>1. covers > 0 /\ covers' \in Nat
  BY DEF IInv, TypeOK, Pops
<1>2. screen' = screen /\ pushes' = pushes /\ evaluating' = evaluating
  BY DEF Pops
<1>3. CASE covers = 1
  <2>1. Appears(f)
    BY <1>3 DEF Pops
  <2> QED
    BY <1>1, <1>2, <2>1, AppearsInv
<1>4. CASE covers # 1
  <2>1. /\ pc' = pc /\ job' = job /\ loader' = loader /\ opener' = opener
        /\ used' = used /\ visible' = visible
    BY <1>4 DEF Pops
  <2>2. FetchInv'
    BY <2>1, SameFetches DEF IInv
  <2>3. LoaderInv' /\ AvatarInv' /\ RowsInv'
    BY <2>1 DEF IInv, LoaderInv, AvatarInv, RowsInv
  <2> QED
    BY <1>1, <1>2, <2>1, <2>2, <2>3 DEF IInv, TypeOK
<1> QED
  BY <1>3, <1>4

LEMMA AppearInv == ASSUME IInv, NEW f \in Fetches, Appear(f) PROVE IInv'
<1>1. /\ Appears(f) /\ avatar' = avatar /\ rows' = rows /\ keychain' = keychain
      /\ signed' = signed /\ raced' = raced /\ recognised' = recognised
      /\ currentUser' = currentUser /\ googleUser' = googleUser
      /\ screen' = screen /\ covers' = covers /\ pushes' = pushes
      /\ evaluating' = evaluating
  BY DEF Appear, authVars, storeVars
<1>2. /\ pc' \in [Fetches -> Running \cup Ended] /\ job' \in [Fetches -> Job]
      /\ loader' \in BOOLEAN /\ opener' \in Fetches \cup {None}
      /\ used' \subseteq Screens /\ visible' \in BOOLEAN
      /\ FetchInv' /\ LoaderInv' /\ AvatarInv' /\ RowsInv'
  BY <1>1, AppearsInv
<1>3. TypeOK'
  BY <1>1, <1>2 DEF IInv, TypeOK
<1>4. AuthInv' /\ GateInv'
  BY <1>1 DEF IInv, AuthInv, GateInv
<1> QED
  BY <1>2, <1>3, <1>4 DEF IInv

LEMMA BackInv == ASSUME IInv, NEW f \in Fetches, Back(f) PROVE IInv'
<1>1. /\ Pops(f) /\ avatar' = avatar /\ rows' = rows /\ keychain' = keychain
      /\ signed' = signed /\ raced' = raced /\ recognised' = recognised
      /\ currentUser' = currentUser /\ googleUser' = googleUser
  BY DEF Back, authVars, storeVars
<1>2. /\ pc' \in [Fetches -> Running \cup Ended] /\ job' \in [Fetches -> Job]
      /\ loader' \in BOOLEAN /\ opener' \in Fetches \cup {None}
      /\ used' \subseteq Screens /\ visible' \in BOOLEAN
      /\ covers > 0 /\ covers' \in Nat
      /\ screen' = screen /\ pushes' = pushes /\ evaluating' = evaluating
      /\ FetchInv' /\ LoaderInv' /\ AvatarInv' /\ RowsInv'
  BY <1>1, PopsInv
<1>3. TypeOK'
  BY <1>1, <1>2 DEF IInv, TypeOK
<1>4. AuthInv' /\ GateInv'
  BY <1>1, <1>2 DEF IInv, AuthInv, GateInv
<1> QED
  BY <1>2, <1>3, <1>4 DEF IInv

\* The item is made under the e-mail of a saved user, who signed in.
LEMMA EnrolInv ==
    ASSUME IInv, NEW p \in Users, Enrol(p)
    PROVE  /\ IInv' /\ screen \in recognised
           /\ \A e \in Users : keychain'[e] # keychain[e] => e \in signed
<1>1. rows # {} /\ covers > 0 /\ keychain' = [keychain EXCEPT ![First(rows)] = p]
  BY DEF Enrol
<1>2. First(rows) \in Users /\ First(rows) \in signed
  <2>1. rows \subseteq Row
    BY DEF IInv, TypeOK
  <2>2. First(rows) \in Users /\ \E r \in rows : r.email = First(rows)
    BY <1>1, <2>1, FirstFacts
  <2> QED
    BY <2>2 DEF IInv, RowsInv
<1>3. /\ keychain' \in [Users -> Users \cup {None}]
      /\ \A e \in Users : keychain'[e] # keychain[e] => e = First(rows)
  BY <1>1 DEF IInv, TypeOK
<1>4. TypeOK' /\ GateInv'
  BY <1>3 DEF IInv, TypeOK, GateInv, Enrol, authVars, screenVars, fetchVars
<1>5. IInv'
  BY <1>4, OutsideInv DEF Enrol, authVars, fetchVars
<1> QED
  BY <1>1, <1>2, <1>3, <1>5 DEF IInv, GateInv

-----------------------------------------------------------------------------
(***************************************************************************)
(* The steps of a fetch.                                                   *)
(***************************************************************************)
LEMMA InnerInv == ASSUME IInv, NEW f \in Fetches, Inner(f) PROVE IInv'
<1>1. /\ currentUser' = currentUser /\ googleUser' = googleUser /\ signed' = signed
      /\ screen' = screen /\ used' = used /\ visible' = visible /\ covers' = covers
      /\ pushes' = pushes /\ evaluating' = evaluating /\ loader' = loader
      /\ avatar' = avatar /\ rows' = rows /\ keychain' = keychain /\ recognised' = recognised
      /\ opener' = opener /\ raced' = raced
  BY DEF Inner, Begin, NextProvider, GetDocument, GetNoDocument, GetDocumentFails,
         GetImage, FetchOnly, authVars, screenVars, storeVars
<1>2. TypeOK /\ FetchInv /\ AuthInv
  BY DEF IInv
<1>3. PICK p \in Between, j \in Job : Moved(f, p, j) /\ FetchOK(p, j)
  BY <1>2, InnerMoves
<1>4. p \in Running \cup Ended /\ p # "save" /\ p \in Running \cup {"failed", "hung"}
  BY DEF Between, Ended
<1>5. /\ pc' \in [Fetches -> Running \cup Ended] /\ job' \in [Fetches -> Job]
      /\ \A g \in Fetches : pc'[g] = IF g = f THEN p ELSE pc[g]
      /\ \A g \in Fetches : job'[g] = IF g = f THEN j ELSE job[g]
  BY <1>2, <1>3, <1>4, MovedFacts
<1>6. TypeOK'
  BY <1>1, <1>5 DEF IInv, TypeOK
<1>7. FetchInv'
  BY <1>1, <1>2, <1>3, <1>4, MovedFetches
<1>8. LoaderInv'
  BY <1>1, <1>4, <1>5 DEF IInv, LoaderInv
<1>9. AvatarInv'
  BY <1>1, <1>4, <1>5 DEF IInv, AvatarInv
<1>10. AuthInv' /\ GateInv'
  BY <1>1 DEF IInv, AuthInv, GateInv
<1>11. RowsInv'
  BY <1>1, SameStore DEF IInv
<1> QED
  BY <1>6, <1>7, <1>8, <1>9, <1>10, <1>11 DEF IInv

\* avtarImage becomes this fetch's picture; a fetch about to save another one for the
\* same screen is a race.
LEMMA AssignInv == ASSUME IInv, NEW f \in Fetches, Assign(f) PROVE IInv'
<1> DEFINE i == job[f]
<1>1. TypeOK /\ FetchInv /\ i \in Job /\ FetchOK(pc[f], i)
  BY DEF IInv, TypeOK, FetchInv
<1>2. /\ pc[f] = "assign" /\ pc' = [pc EXCEPT ![f] = "save"] /\ job' = job
      /\ avatar' = [avatar EXCEPT ![i.screen] = i.picture]
      /\ currentUser' = currentUser /\ googleUser' = googleUser /\ signed' = signed
      /\ screen' = screen /\ used' = used /\ visible' = visible /\ covers' = covers
      /\ pushes' = pushes /\ evaluating' = evaluating /\ loader' = loader
      /\ rows' = rows /\ keychain' = keychain /\ recognised' = recognised /\ opener' = opener
  BY DEF Assign, Go, authVars, screenVars, storeVars
<1>3. raced' = \/ raced
                \/ \E g \in Fetches \ {f} : pc[g] = "save" /\ job[g].screen = i.screen
  BY Zenon DEF Assign
<1>4. raced' \in BOOLEAN
  BY <1>3, Zenon
<1>5. ~raced' => /\ ~raced
                 /\ \A g \in Fetches \ {f} : pc[g] = "save" => job[g].screen # i.screen
  BY <1>3, Zenon
<1>6. Moved(f, "save", i)
  <2>1. job = [job EXCEPT ![f] = i]
    BY <1>1 DEF TypeOK
  <2> QED
    BY <1>2, <2>1 DEF Moved
<1>7. i.screen \in Screens /\ i.picture \in Users \cup {None} /\ FetchOK("save", i)
  BY <1>1, <1>2, JobFacts DEF FetchOK, Running
<1>8. "save" \in Running
  BY DEF Running
<1>9. /\ pc' \in [Fetches -> Running \cup Ended]
      /\ \A g \in Fetches : pc'[g] = IF g = f THEN "save" ELSE pc[g]
  BY <1>1, <1>6, <1>8, MovedFacts
<1>10. /\ avatar' \in [Screens -> Users \cup {None}]
       /\ \A s \in Screens : avatar'[s] = IF s = i.screen THEN i.picture ELSE avatar[s]
  BY <1>1, <1>2, <1>7 DEF TypeOK
<1>11. TypeOK'
  BY <1>1, <1>2, <1>4, <1>9, <1>10 DEF TypeOK
<1>12. FetchInv'
  BY <1>1, <1>2, <1>6, <1>7, <1>8, MovedFetches
<1>13. LoaderInv'
  BY <1>2, <1>8, <1>9 DEF IInv, LoaderInv
<1>14. AvatarInv'
  <2> SUFFICES ASSUME ~raced', NEW g \in Fetches, pc'[g] = "save"
               PROVE  avatar'[job[g].screen] = job[g].picture
    BY <1>2 DEF AvatarInv
  <2>1. CASE g = f
    BY <1>7, <1>10, <2>1
  <2>2. CASE g # f
    <3>1. pc[g] = "save" /\ job[g].screen # i.screen /\ ~raced
      BY <1>5, <1>9, <2>2
    <3>2. job[g].screen \in Screens
      BY <1>1, <1>8, <3>1 DEF FetchInv, FetchOK
    <3>3. avatar'[job[g].screen] = avatar[job[g].screen]
      BY <1>10, <3>1, <3>2
    <3> QED
      BY <3>1, <3>3 DEF IInv, AvatarInv
  <2> QED
    BY <2>1, <2>2
<1>15. RowsInv' /\ GateInv' /\ AuthInv'
  BY <1>2, <1>5 DEF IInv, RowsInv, GateInv, AuthInv
<1> QED
  BY <1>11, <1>12, <1>13, <1>14, <1>15 DEF IInv

\* The row that is saved has the fetch's e-mail and what avtarImage holds.
LEMMA SaveInv == ASSUME IInv, NEW f \in Fetches, Save(f) PROVE IInv'
<1> DEFINE i == job[f]
           j == [screen |-> i.screen, user |-> i.user, at |-> i.at + 1,
                 email |-> None, picture |-> None]
           r == [email |-> i.email, picture |-> avatar[i.screen]]
<1>1. TypeOK /\ FetchInv /\ i \in Job /\ FetchOK(pc[f], i)
  BY DEF IInv, TypeOK, FetchInv
<1>2. /\ pc[f] = "save" /\ Moved(f, "next", j) /\ rows' = rows \cup {r}
      /\ currentUser' = currentUser /\ googleUser' = googleUser /\ signed' = signed
      /\ screen' = screen /\ used' = used /\ visible' = visible /\ covers' = covers
      /\ pushes' = pushes /\ evaluating' = evaluating /\ loader' = loader
      /\ avatar' = avatar /\ keychain' = keychain /\ recognised' = recognised
      /\ opener' = opener /\ raced' = raced
  BY DEF Save, Go, Moved, authVars, screenVars
<1>3. i.screen \in Screens /\ i.user \in Users /\ i.email \in Users
  BY <1>1, <1>2 DEF FetchOK, Running
<1>4. i.picture \in {i.email, None} /\ i.user \in signed /\ i.email \in signed
  BY <1>1, <1>2, <1>3, NoneFacts DEF FetchOK
<1>5. /\ j \in Job /\ j.screen = i.screen /\ j.user = i.user /\ j.email = None
  <2>1. i.at + 1 \in Nat
    BY <1>1, JobFacts
  <2> HIDE DEF i
  <2> QED
    BY <1>3, <2>1 DEF Job
<1>6. r \in Row /\ r.email = i.email /\ r.picture = avatar[i.screen]
  <2>1. avatar[i.screen] \in Users \cup {None}
    BY <1>1, <1>3 DEF TypeOK
  <2> HIDE DEF i
  <2> QED
    BY <1>3, <2>1 DEF Row
<1>7. ~raced => r.picture \in {r.email, None}
  BY <1>2, <1>4, <1>6 DEF IInv, AvatarInv
<1> HIDE DEF i, j, r
<1>8. FetchOK("next", j) /\ "next" \in Running
  BY <1>3, <1>4, <1>5 DEF FetchOK, Running
<1>9. /\ pc' \in [Fetches -> Running \cup Ended] /\ job' \in [Fetches -> Job]
      /\ \A g \in Fetches : pc'[g] = IF g = f THEN "next" ELSE pc[g]
      /\ \A g \in Fetches : job'[g] = IF g = f THEN j ELSE job[g]
  BY <1>1, <1>2, <1>5, <1>8, MovedFacts
<1>10. TypeOK'
  BY <1>1, <1>2, <1>6, <1>9 DEF TypeOK
<1>11. FetchInv'
  BY <1>1, <1>2, <1>5, <1>8, MovedFetches
<1>12. LoaderInv'
  BY <1>2, <1>8, <1>9 DEF IInv, LoaderInv
<1>13. AvatarInv'
  BY <1>2, <1>9 DEF IInv, AvatarInv
<1>14. RowsInv'
  BY <1>2, <1>4, <1>6, <1>7 DEF IInv, RowsInv
<1>15. GateInv' /\ AuthInv'
  BY <1>2 DEF IInv, GateInv, AuthInv
<1> QED
  BY <1>10, <1>11, <1>12, <1>13, <1>14, <1>15 DEF IInv

LEMMA ReturnInv == ASSUME IInv, NEW f \in Fetches, Return(f) PROVE IInv'
<1>1. TypeOK /\ FetchInv
  BY DEF IInv
<1>2. /\ Moved(f, "done", NoJob) /\ ~loader' /\ loader' \in BOOLEAN
      /\ currentUser' = currentUser /\ googleUser' = googleUser /\ signed' = signed
      /\ screen' = screen /\ used' = used /\ visible' = visible /\ covers' = covers
      /\ pushes' = pushes /\ evaluating' = evaluating
      /\ avatar' = avatar /\ rows' = rows /\ keychain' = keychain /\ recognised' = recognised
      /\ opener' = None /\ raced' = raced
  BY DEF Return, Go, Forgets, Moved, authVars, screenVars, storeVars
<1>3. "done" \in Ended
  BY DEF Ended
<1>4. /\ pc' \in [Fetches -> Running \cup Ended] /\ job' \in [Fetches -> Job]
      /\ \A g \in Fetches : pc'[g] = IF g = f THEN "done" ELSE pc[g]
      /\ \A g \in Fetches : job'[g] = IF g = f THEN NoJob ELSE job[g]
  BY <1>1, <1>2, <1>3, NoJobFacts, MovedFacts
<1>5. TypeOK'
  BY <1>1, <1>2, <1>4 DEF TypeOK
<1>6. FetchInv'
  BY <1>1, <1>2, <1>3, NoJobFacts, MovedFetches
<1>7. LoaderInv' /\ AvatarInv'
  BY <1>2, <1>4 DEF IInv, LoaderInv, AvatarInv
<1>8. AuthInv' /\ RowsInv' /\ GateInv'
  BY <1>2 DEF IInv, AuthInv, RowsInv, GateInv
<1> QED
  BY <1>5, <1>6, <1>7, <1>8 DEF IInv

-----------------------------------------------------------------------------
LEMMA NextInv == IInv /\ [Next]_vars => IInv'
<1> SUFFICES ASSUME IInv, [Next]_vars PROVE IInv'
  OBVIOUS
<1>1. ASSUME NEW u \in Users, NEW g \in Users \cup {None}, SignIn(u, g) PROVE IInv'
  BY <1>1, SignInInv
<1>2. CASE LogOut \/ Expire
  BY <1>2, LogOutInv
<1>3. CASE Relaunch
  BY <1>3, RelaunchInv
<1>4. CASE HideLoader
  BY <1>4, HideLoaderInv
<1>5. CASE Disappear \/ PushEnrolment
  BY <1>5, CoverInv
<1>6. CASE FaceSwitch
  BY <1>6, FaceSwitchInv
<1>7. ASSUME NEW s \in Screens, Face(s) PROVE IInv'
  BY <1>7, FaceInv
<1>8. ASSUME NEW f \in Fetches, Appear(f) \/ Back(f) PROVE IInv'
  BY <1>8, AppearInv, BackInv
<1>11. ASSUME NEW p \in Users, Enrol(p) PROVE IInv'
  BY <1>11, EnrolInv
<1>9. ASSUME NEW f \in Fetches, Step(f) PROVE IInv'
  <2>1. Inner(f) \/ Assign(f) \/ Save(f) \/ Return(f)
    BY <1>9 DEF Step, Inner
  <2> QED
    BY <2>1, InnerInv, AssignInv, SaveInv, ReturnInv
<1>10. CASE UNCHANGED vars
  <2>1. TypeOK' /\ GateInv'
    BY <1>10 DEF IInv, TypeOK, GateInv, vars, authVars, screenVars, fetchVars, storeVars
  <2> QED
    BY <1>10, <2>1, OutsideInv DEF vars, authVars, fetchVars, storeVars
<1> QED
  BY <1>1, <1>2, <1>3, <1>4, <1>5, <1>6, <1>7, <1>8, <1>9, <1>10, <1>11 DEF Next

LEMMA Invariant == Spec => []IInv
  BY InitInv, NextInv, PTL DEF Spec

\* Every variable keeps its type; in particular a row is saved under an e-mail, and an
\* avatar assigned to a screen, that the fetch really has.
THEOREM TypeCorrect == Spec => []TypeOK
<1>1. IInv => TypeOK
  BY DEF IInv
<1> QED
  BY <1>1, Invariant, PTL

\* The loader that viewDidLoad shows is covered by the fetch that viewDidAppear started:
\* as long as it is shown, that fetch runs, or it failed or hangs.  Every early return
\* of getUserInformation ends in Loader.shared.hide().
THEOREM LoaderIsOwed == Spec => []LoaderOwed
<1>1. IInv => LoaderOwed
  BY DEF IInv, LoaderInv, LoaderOwed
<1> QED
  BY <1>1, Invariant, PTL

\* Until two fetches of one screen meet between the assignment of avtarImage and save,
\* whatever else overlaps, a saved user has his own picture or none.
THEOREM PicturesAreOwn == Spec => []PictureOwn
<1>1. IInv => PictureOwn
  BY DEF IInv, RowsInv, PictureOwn
<1> QED
  BY <1>1, Invariant, PTL

\* The other steps leave the keychain alone.
LEMMA KeychainKept ==
    ASSUME [Next]_vars
    PROVE  keychain' = keychain \/ \E p \in Users : Enrol(p)
<1>1. ASSUME NEW f \in Fetches, Appear(f) \/ Back(f) \/ Step(f) PROVE keychain' = keychain
  BY <1>1 DEF Appear, Back, Step, Begin, NextProvider, GetDocument, GetNoDocument,
     GetDocumentFails, GetImage, Assign, Save, Return, FetchOnly, storeVars
<1> QED
  BY <1>1 DEF Next, SignIn, LogOut, Expire, Relaunch, HideLoader, Disappear, FaceSwitch,
     PushEnrolment, Face, FaceIsRight, FaceIsWrong, vars, storeVars

\* However evaluations, replaced screens, fetches and log-ins interleave, the keychain
\* changes only on an enrolment screen that a right face on the settings screen below
\* opened, and only under an e-mail that signed in on the device.
THEOREM EnrolmentNeedsFace == Spec => EnrolledByFace
<1>1. IInv /\ [Next]_vars =>
        [\A e \in Users : keychain'[e] # keychain[e] =>
            screen \in recognised /\ e \in signed]_vars
  BY EnrolInv, KeychainKept
<1> QED
  BY <1>1, Invariant, PTL DEF Spec, EnrolledByFace
-----------------------------------------------------------------------------
(***************************************************************************)
(* The language switch of the settings screen: Languages.  Both properties *)
(* relate what is on display to the stored language; they are inductive    *)
(* with the types, the one about the switch with the fact that Japanese    *)
(* can be chosen.                                                          *)
(***************************************************************************)
LanguageInv == LanguagesTypeOK /\ "ja" \in available /\ TextsCurrent /\ SwitchTruthful

LEMMA DefaultTranslated ==
    ASSUME LanguagesTypeOK
    PROVE  DefaultLanguage \in Translated
  BY NilAssumption DEF LanguagesTypeOK, DefaultLanguage, Translated

LEMMA CurrentTranslated ==
    ASSUME LanguagesTypeOK
    PROVE  CurrentLanguage \in Translated
  BY DefaultTranslated DEF LanguagesTypeOK, CurrentLanguage

LEMMA LanguageInit == LanguagesInit => LanguageInv
<1> SUFFICES ASSUME LanguagesInit PROVE LanguageInv
    OBVIOUS
<1>1. LanguagesTypeOK /\ "ja" \in available
    BY DEF LanguagesInit, LanguagesTypeOK, Translated
<1>2. TextsCurrent /\ SwitchTruthful
    BY DEF LanguagesInit, TextsCurrent, SwitchTruthful
<1> QED BY <1>1, <1>2 DEF LanguageInv

\* A flip of the switch: the language selected is stored or current already, and the
\* labels, the titles and the position of the switch agree with it.
LEMMA ChangeLanguagesInv ==
    ASSUME LanguageInv, ChangeLanguages
    PROVE  LanguageInv'
<1> USE NilAssumption
<1>1. settings \in [labels : Translated, isOn : BOOLEAN] /\ enrolment' = Nil /\ sideBar' = Nil
    BY DEF ChangeLanguages, LanguageInv, LanguagesTypeOK
<1>2. /\ available' = available /\ preferred' = preferred
      /\ DefaultLanguage' = DefaultLanguage
    BY DEF ChangeLanguages, DefaultLanguage
<1>3. DefaultLanguage \in Translated /\ CurrentLanguage \in Translated
    BY DefaultTranslated, CurrentTranslated DEF LanguageInv
<1> DEFINE language == IF settings.isOn THEN DefaultLanguage ELSE "ja"
           selected == IF language \in available THEN language ELSE DefaultLanguage
<1>4. selected = language /\ selected \in Translated
    BY <1>3 DEF LanguageInv, Translated
<1>5. SetCurrentLanguage(language)
    BY DEF ChangeLanguages
<1>6. CurrentLanguage' = selected
    <2>1. CASE selected = CurrentLanguage
        <3>1. stored' = stored
            BY <1>5, <2>1 DEF SetCurrentLanguage
        <3> QED BY <3>1, <1>2, <2>1 DEF CurrentLanguage
    <2>2. CASE selected # CurrentLanguage
        <3>1. stored' = selected
            BY <1>5, <2>2 DEF SetCurrentLanguage
        <3> QED BY <3>1, <1>4 DEF CurrentLanguage
    <2> QED BY <2>1, <2>2
<1>7. tabTitles' \in {tabTitles, selected} /\ stored' \in {stored, selected}
    BY <1>5 DEF SetCurrentLanguage, Translate
<1>8. settings' = [labels |-> selected, isOn |-> ~settings.isOn]
    <2>1. CASE selected = CurrentLanguage
        <3>1. settings' = [settings EXCEPT !.isOn = ~@]
            BY <1>5, <2>1 DEF SetCurrentLanguage
        <3>2. settings.labels = CurrentLanguage
            BY <1>1 DEF LanguageInv, TextsCurrent, ChangeLanguages
        <3> QED BY <3>1, <3>2, <1>1, <2>1
    <2>2. CASE selected # CurrentLanguage
        <3>1. settings' = [settings EXCEPT !.labels = selected, !.isOn = ~@]
            BY <1>5, <2>2 DEF SetCurrentLanguage, Translate
        <3> QED BY <3>1, <1>1
    <2> QED BY <2>1, <2>2
<1>9. tabTitles' # Nil => tabTitles' = selected
    BY <1>5 DEF SetCurrentLanguage, Translate, LanguageInv, TextsCurrent
<1>10. TextsCurrent'
    BY <1>1, <1>6, <1>8, <1>9 DEF TextsCurrent
<1>11. LanguagesTypeOK'
    BY <1>1, <1>2, <1>4, <1>7, <1>8 DEF LanguageInv, LanguagesTypeOK
<1>12. SwitchTruthful'
    BY <1>2, <1>4, <1>6, <1>8 DEF SwitchTruthful
<1> QED BY <1>2, <1>10, <1>11, <1>12 DEF LanguageInv

LEMMA LanguageStep ==
    LanguageInv /\ [LanguagesNext]_languagesVars => LanguageInv'
<1> SUFFICES ASSUME LanguageInv, [LanguagesNext]_languagesVars PROVE LanguageInv'
    OBVIOUS
<1> USE NilAssumption
<1>0. DefaultLanguage \in Translated /\ CurrentLanguage \in Translated
    BY DefaultTranslated, CurrentTranslated DEF LanguageInv
<1>1. ASSUME UNCHANGED <<available, preferred, stored>>
      PROVE  /\ DefaultLanguage' = DefaultLanguage
             /\ CurrentLanguage' = CurrentLanguage
    BY <1>1 DEF DefaultLanguage, CurrentLanguage
<1>2. CASE SwitchToArtHome
    BY <1>0, <1>1, <1>2
       DEF SwitchToArtHome, LanguageInv, LanguagesTypeOK, TextsCurrent, SwitchTruthful
<1>3. CASE SwitchToLogin
    BY <1>0, <1>1, <1>3
       DEF SwitchToLogin, LanguageInv, LanguagesTypeOK, TextsCurrent, SwitchTruthful
<1>4. CASE LoadSettings
    <2>1. /\ settings' = [labels |-> CurrentLanguage, isOn |-> IsOn]
          /\ IsOn \in BOOLEAN
        BY <1>4 DEF LoadSettings, IsOn
    <2>2. UNCHANGED <<available, preferred, stored, tabTitles, enrolment, sideBar>>
        BY <1>4 DEF LoadSettings
    <2>3. /\ DefaultLanguage' = DefaultLanguage
          /\ CurrentLanguage' = CurrentLanguage
        BY <1>1, <2>2
    <2>4. LanguagesTypeOK' /\ TextsCurrent'
        BY <1>0, <2>1, <2>2, <2>3 DEF LanguageInv, LanguagesTypeOK, TextsCurrent
    <2>5. SwitchTruthful'
        BY <1>0, <2>1, <2>3 DEF SwitchTruthful, IsOn, Translated
    <2> QED BY <2>2, <2>4, <2>5 DEF LanguageInv
<1>5. CASE ChangeLanguages
    BY <1>5, ChangeLanguagesInv
<1>6. CASE OpenSideBar
    BY <1>0, <1>1, <1>6
       DEF OpenSideBar, LanguageInv, LanguagesTypeOK, TextsCurrent, SwitchTruthful
<1>7. CASE CloseSideBar
    BY <1>0, <1>1, <1>7
       DEF CloseSideBar, LanguageInv, LanguagesTypeOK, TextsCurrent, SwitchTruthful
<1>8. CASE RelaunchDevice
    BY <1>8
       DEF RelaunchDevice, LanguageInv, LanguagesTypeOK, TextsCurrent, SwitchTruthful
<1>9. CASE OpenEnrolment \/ CloseEnrolment
    BY <1>0, <1>1, <1>9
       DEF OpenEnrolment, CloseEnrolment, LanguageInv, LanguagesTypeOK, TextsCurrent, SwitchTruthful
<1>10. CASE UNCHANGED languagesVars
    BY <1>1, <1>10
       DEF languagesVars, LanguageInv, LanguagesTypeOK, TextsCurrent, SwitchTruthful
<1> QED BY <1>2, <1>3, <1>4, <1>5, <1>6, <1>7, <1>8, <1>9, <1>10 DEF LanguagesNext

\* Every screen that shows texts has them in a language the tables hold.
THEOREM LanguagesTypeCorrect == LanguagesSpec => []LanguagesTypeOK
<1>1. LanguageInv => LanguagesTypeOK
    BY DEF LanguageInv
<1> QED BY <1>1, LanguageInit, LanguageStep, PTL DEF LanguagesSpec

\* The localised texts of tab bar, settings, enrolment screen and side bar are in the
\* current language, however often the switch is flipped and the process launched.
THEOREM TextsAreCurrent == LanguagesSpec => []TextsCurrent
<1>1. LanguageInv => TextsCurrent
    BY DEF LanguageInv
<1>2. LanguageInv /\ [LanguagesNext]_languagesVars => LanguageInv'
    BY LanguageStep
<1> QED BY <1>1, <1>2, LanguageInit, PTL DEF LanguagesSpec

\* On a device that does not ask for Japanese, the switch tells the language.
THEOREM SwitchIsTruthful == LanguagesSpec => []SwitchTruthful
<1>1. LanguageInv => SwitchTruthful
    BY DEF LanguageInv
<1>2. LanguageInv /\ [LanguagesNext]_languagesVars => LanguageInv'
    BY LanguageStep
<1> QED BY <1>1, <1>2, LanguageInit, PTL DEF LanguagesSpec
=============================================================================
