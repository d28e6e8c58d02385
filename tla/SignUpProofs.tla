---------------------------- MODULE SignUpProofs ----------------------------
(***************************************************************************)
(* Proofs about SignUp, for any number of e-mails, avatars, screens and    *)
(* attempts.                                                               *)
(***************************************************************************)
EXTENDS SignUp, TLAPS

\* A running attempt was started by a screen.
OwnerInv == \A t \in Attempts : pc[t] # "none" => owner[t] \in Screens

\* What an attempt that got past createUser has achieved so far.
CreatorInv ==
    \A t \in Attempts :
        /\ pc[t] \in Creators => EmailOf(t) \in account
        /\ pc[t] = "putData" => /\ object[EmailOf(t)] = NoAvatar
                                /\ document[EmailOf(t)] = NoDoc
        /\ pc[t] \in {"downloadURL", "setData", "detached"} =>
               /\ object[EmailOf(t)] = AvatarOf(t)
               /\ document[EmailOf(t)] = NoDoc

\* Nothing is stored for an e-mail that has no account.
NothingStored ==
    \A e \in Emails \ account : object[e] = NoAvatar /\ document[e] = NoDoc

\* The inductive invariant.
Inv ==
    /\ TypeOK
    /\ OwnerInv
    /\ OneCreator
    /\ CreatorInv
    /\ NothingStored
    /\ SuccessMeansStored
    /\ DocumentSound

-----------------------------------------------------------------------------
LEMMA InitInv == Init => Inv
<1> SUFFICES ASSUME Init PROVE Inv
  OBVIOUS
<1>1. TypeOK
  BY DEF Init, TypeOK, Blank, Over
<1>2. \A t \in Attempts : pc[t] = "none" /\ pc[t] \notin Creators
  BY DEF Init, Creators
<1>3. OwnerInv /\ OneCreator /\ CreatorInv /\ SuccessMeansStored
  BY <1>2 DEF OwnerInv, OneCreator, CreatorInv, SuccessMeansStored
<1>4. NothingStored /\ DocumentSound
  BY DEF Init, NothingStored, DocumentSound
<1> QED
  BY <1>1, <1>3, <1>4 DEF Inv

\* What the servers and the attempts that created an account rely on is untouched
\* by a step that changes no call and moves nobody into Creators.
LEMMA CalmInv ==
    ASSUME Inv, TypeOK', OwnerInv',
           UNCHANGED <<call, serverVars>>,
           \A t \in Attempts : \/ pc'[t] \notin Creators
                               \/ pc'[t] = pc[t]
                               \/ pc'[t] = "detached" /\ pc[t] = "setData"
    PROVE  Inv'
<1> USE DEF Inv, TypeOK, Creators, EmailOf, AvatarOf, serverVars
<1>1. OneCreator'
  BY DEF OneCreator
<1>2. CreatorInv'
  BY DEF CreatorInv
<1>3. SuccessMeansStored'
  BY DEF SuccessMeansStored
<1>4. (NothingStored /\ DocumentSound)'
  BY DEF NothingStored, DocumentSound
<1> QED
  BY <1>1, <1>2, <1>3, <1>4

LEMMA UserInv ==
    ASSUME Inv, User \/ SwitchToArtHome \/ UNCHANGED vars
    PROVE  Inv'
<1> DEFINE Calm == /\ TypeOK' /\ OwnerInv'
                   /\ UNCHANGED <<call, serverVars>>
                   /\ \A t \in Attempts : pc'[t] \notin Creators \/ pc'[t] = pc[t]
<1> USE DEF Inv, TypeOK, OwnerInv, taskVars, serverVars, OnScreen
<1>1. ASSUME NEW s \in Screens, Open(s) PROVE Calm
  BY <1>1 DEF Open, Blank
<1>2. ASSUME NEW s \in Screens, Leave(s) \/ OpenCamera(s) PROVE Calm
  BY <1>2 DEF Leave, OpenCamera
<1>3. ASSUME NEW s \in Screens, NEW a \in Avatars \cup {NoAvatar}, CloseCamera(s, a)
      PROVE  Calm
  BY <1>3 DEF CloseCamera
<1>4. ASSUME NEW s \in Screens, NEW a \in Avatars, PickFromLibrary(s, a) PROVE Calm
  BY <1>4 DEF PickFromLibrary
<1>5. ASSUME NEW s \in Screens, NEW e \in Emails \cup {Empty}, PressRejected(s, e)
      PROVE  Calm
  BY <1>5 DEF PressRejected
<1>6. ASSUME NEW s \in Screens, NEW e \in Emails, NEW t \in Attempts, PressAccepted(s, e, t)
      PROVE  Calm
  BY <1>6 DEF PressAccepted, Running, Creators
<1>7. ASSUME HideLoader \/ SwitchToLogin PROVE Calm
  BY <1>7 DEF HideLoader, SwitchToLogin
<1>8. ASSUME SwitchToArtHome PROVE Calm
  <2>1. switches' \in Nat
    BY <1>8 DEF SwitchToArtHome
  <2> QED
    BY <1>8, <2>1 DEF SwitchToArtHome
<1>9. ASSUME UNCHANGED vars PROVE Calm
  BY <1>9 DEF vars, uiVars
<1>10. Calm
  BY <1>1, <1>2, <1>3, <1>4, <1>5, <1>6, <1>7, <1>8, <1>9 DEF User
<1> HIDE DEF Inv, TypeOK, OwnerInv, serverVars
<1> QED
  BY <1>10, CalmInv

-----------------------------------------------------------------------------
\* Steps of an attempt.

LEMMA ReadEmailInv ==
    ASSUME Inv, NEW t \in Attempts, ReadEmail(t)
    PROVE  Inv'
<1> USE DEF ReadEmail, Go, uiVars, serverVars, EmailOf, AvatarOf
<1>1. TypeOK'
  BY DEF Inv, TypeOK, OwnerInv, Running, Over
<1>2. OwnerInv'
  BY DEF Inv, TypeOK, OwnerInv, Running, Over
<1>3. OneCreator'
  BY DEF Inv, TypeOK, OneCreator, Creators
<1>4. CreatorInv'
  BY DEF Inv, TypeOK, CreatorInv, Creators
<1>5. NothingStored'
  BY DEF Inv, TypeOK, NothingStored, Creators, CreatorInv
<1>6. SuccessMeansStored'
  BY DEF Inv, TypeOK, SuccessMeansStored, Creators
<1>7. DocumentSound'
  BY DEF Inv, TypeOK, DocumentSound, Creators, CreatorInv
<1> QED
  BY <1>1, <1>2, <1>3, <1>4, <1>5, <1>6, <1>7 DEF Inv

LEMMA ReadAvatarInv ==
    ASSUME Inv, NEW t \in Attempts, ReadAvatar(t)
    PROVE  Inv'
<1> USE DEF ReadAvatar, Go, uiVars, serverVars, EmailOf, AvatarOf
<1>1. TypeOK'
  BY DEF Inv, TypeOK, OwnerInv, Running, Over
<1>2. OwnerInv'
  BY DEF Inv, TypeOK, OwnerInv, Running, Over
<1>3. OneCreator'
  BY DEF Inv, TypeOK, OneCreator, Creators
<1>4. CreatorInv'
  BY DEF Inv, TypeOK, CreatorInv, Creators
<1>5. NothingStored'
  BY DEF Inv, TypeOK, NothingStored, Creators, CreatorInv
<1>6. SuccessMeansStored'
  BY DEF Inv, TypeOK, SuccessMeansStored, Creators
<1>7. DocumentSound'
  BY DEF Inv, TypeOK, DocumentSound, Creators, CreatorInv
<1> QED
  BY <1>1, <1>2, <1>3, <1>4, <1>5, <1>6, <1>7 DEF Inv

LEMMA CreateUserInv ==
    ASSUME Inv, NEW t \in Attempts, CreateUser(t)
    PROVE  Inv'
<1> USE DEF CreateUser, Go, uiVars, serverVars, EmailOf, AvatarOf
<1>1. TypeOK'
  BY DEF Inv, TypeOK, OwnerInv, Running, Over
<1>2. OwnerInv'
  BY DEF Inv, TypeOK, OwnerInv, Running, Over
<1>3. OneCreator'
  BY DEF Inv, TypeOK, OneCreator, Creators, CreatorInv
<1>4. CreatorInv'
  BY DEF Inv, TypeOK, CreatorInv, Creators, NothingStored
<1>5. NothingStored'
  BY DEF Inv, TypeOK, NothingStored, Creators, CreatorInv
<1>6. SuccessMeansStored'
  BY DEF Inv, TypeOK, SuccessMeansStored, Creators, CreatorInv
<1>7. DocumentSound'
  BY DEF Inv, TypeOK, DocumentSound, NothingStored
<1> QED
  BY <1>1, <1>2, <1>3, <1>4, <1>5, <1>6, <1>7 DEF Inv

LEMMA CreateUserUnansweredInv ==
    ASSUME Inv, NEW t \in Attempts, CreateUserUnanswered(t)
    PROVE  Inv'
<1> USE DEF CreateUserUnanswered, Go, uiVars, serverVars, EmailOf, AvatarOf
<1>1. TypeOK'
  BY DEF Inv, TypeOK, OwnerInv, Running, Over
<1>2. OwnerInv'
  BY DEF Inv, TypeOK, OwnerInv, Running, Over
<1>3. OneCreator'
  BY DEF Inv, TypeOK, OneCreator, Creators, CreatorInv
<1>4. CreatorInv'
  BY DEF Inv, TypeOK, CreatorInv, Creators, NothingStored
<1>5. NothingStored'
  BY DEF Inv, TypeOK, NothingStored, Creators, CreatorInv
<1>6. SuccessMeansStored'
  BY DEF Inv, TypeOK, SuccessMeansStored, Creators, CreatorInv
<1>7. DocumentSound'
  BY DEF Inv, TypeOK, DocumentSound, NothingStored
<1> QED
  BY <1>1, <1>2, <1>3, <1>4, <1>5, <1>6, <1>7 DEF Inv

LEMMA PutDataInv ==
    ASSUME Inv, NEW t \in Attempts, PutData(t)
    PROVE  Inv'
<1> USE DEF PutData, Go, uiVars, serverVars, EmailOf, AvatarOf
<1>1. TypeOK'
  BY DEF Inv, TypeOK, OwnerInv, Running, Over
<1>2. OwnerInv'
  BY DEF Inv, TypeOK, OwnerInv, Running, Over
<1>3. OneCreator'
  BY DEF Inv, TypeOK, OneCreator, Creators
<1>4. CreatorInv'
  BY DEF Inv, TypeOK, CreatorInv, Creators, OneCreator
<1>5. NothingStored'
  BY DEF Inv, TypeOK, NothingStored, Creators, CreatorInv
<1>6. SuccessMeansStored'
  BY DEF Inv, TypeOK, SuccessMeansStored, Creators, OneCreator
<1>7. DocumentSound'
  BY DEF Inv, TypeOK, DocumentSound, Creators, CreatorInv, NothingStored
<1> QED
  BY <1>1, <1>2, <1>3, <1>4, <1>5, <1>6, <1>7 DEF Inv

LEMMA PutDataUnansweredInv ==
    ASSUME Inv, NEW t \in Attempts, PutDataUnanswered(t)
    PROVE  Inv'
<1> USE DEF PutDataUnanswered, Go, uiVars, serverVars, EmailOf, AvatarOf
<1>1. TypeOK'
  BY DEF Inv, TypeOK, OwnerInv, Running, Over
<1>2. OwnerInv'
  BY DEF Inv, TypeOK, OwnerInv, Running, Over
<1>3. OneCreator'
  BY DEF Inv, TypeOK, OneCreator, Creators
<1>4. CreatorInv'
  BY DEF Inv, TypeOK, CreatorInv, Creators, OneCreator
<1>5. NothingStored'
  BY DEF Inv, TypeOK, NothingStored, Creators, CreatorInv
<1>6. SuccessMeansStored'
  BY DEF Inv, TypeOK, SuccessMeansStored, Creators, OneCreator
<1>7. DocumentSound'
  BY DEF Inv, TypeOK, DocumentSound, Creators, CreatorInv, NothingStored
<1> QED
  BY <1>1, <1>2, <1>3, <1>4, <1>5, <1>6, <1>7 DEF Inv

LEMMA DownloadURLInv ==
    ASSUME Inv, NEW t \in Attempts, DownloadURL(t)
    PROVE  Inv'
<1> USE DEF DownloadURL, Go, uiVars, serverVars, EmailOf, AvatarOf
<1>1. TypeOK'
  BY DEF Inv, TypeOK, OwnerInv, Running, Over
<1>2. OwnerInv'
  BY DEF Inv, TypeOK, OwnerInv, Running, Over
<1>3. OneCreator'
  BY DEF Inv, TypeOK, OneCreator, Creators
<1>4. CreatorInv'
  BY DEF Inv, TypeOK, CreatorInv, Creators
<1>5. NothingStored'
  BY DEF Inv, TypeOK, NothingStored, Creators, CreatorInv
<1>6. SuccessMeansStored'
  BY DEF Inv, TypeOK, SuccessMeansStored, Creators
<1>7. DocumentSound'
  BY DEF Inv, TypeOK, DocumentSound, Creators, CreatorInv
<1> QED
  BY <1>1, <1>2, <1>3, <1>4, <1>5, <1>6, <1>7 DEF Inv

LEMMA SetDataInv ==
    ASSUME Inv, NEW t \in Attempts, SetData(t)
    PROVE  Inv'
<1> USE DEF SetData, Go, uiVars, serverVars, EmailOf, AvatarOf
<1>1. TypeOK'
  BY DEF Inv, TypeOK, OwnerInv, Running, Over
<1>2. OwnerInv'
  BY DEF Inv, TypeOK, OwnerInv, Running, Over
<1>3. OneCreator'
  BY DEF Inv, TypeOK, OneCreator, Creators
<1>4. CreatorInv'
  BY DEF Inv, TypeOK, CreatorInv, Creators, OneCreator
<1>5. NothingStored'
  BY DEF Inv, TypeOK, NothingStored, Creators, CreatorInv
<1>6. SuccessMeansStored'
  BY DEF Inv, TypeOK, SuccessMeansStored, Creators, OneCreator, CreatorInv
<1>7. DocumentSound'
  BY DEF Inv, TypeOK, DocumentSound, Creators, CreatorInv, NothingStored
<1> QED
  BY <1>1, <1>2, <1>3, <1>4, <1>5, <1>6, <1>7 DEF Inv

LEMMA SetDataUnansweredInv ==
    ASSUME Inv, NEW t \in Attempts, SetDataUnanswered(t)
    PROVE  Inv'
<1> USE DEF SetDataUnanswered, Go, uiVars, serverVars, EmailOf, AvatarOf
<1>1. TypeOK'
  BY DEF Inv, TypeOK, OwnerInv, Running, Over
<1>2. OwnerInv'
  BY DEF Inv, TypeOK, OwnerInv, Running, Over
<1>3. OneCreator'
  BY DEF Inv, TypeOK, OneCreator, Creators
<1>4. CreatorInv'
  BY DEF Inv, TypeOK, CreatorInv, Creators, OneCreator
<1>5. NothingStored'
  BY DEF Inv, TypeOK, NothingStored, Creators, CreatorInv
<1>6. SuccessMeansStored'
  BY DEF Inv, TypeOK, SuccessMeansStored, Creators, OneCreator, CreatorInv
<1>7. DocumentSound'
  BY DEF Inv, TypeOK, DocumentSound, Creators, CreatorInv, NothingStored
<1> QED
  BY <1>1, <1>2, <1>3, <1>4, <1>5, <1>6, <1>7 DEF Inv

LEMMA EndInv ==
    ASSUME Inv, NEW t \in Attempts, Trap(t) \/ Fail(t) \/ Return(t)
    PROVE  Inv'
<1> USE DEF Go
<1>1. TypeOK'
  <2> USE DEF Inv, TypeOK, OwnerInv, uiVars, serverVars
  <2>1. CASE Trap(t)
    BY <2>1 DEF Trap, Running, Over
  <2>2. CASE Fail(t)
    BY <2>2 DEF Fail, Over
  <2>3. CASE Return(t)
    <3>1. switches' \in Nat
      BY <2>3 DEF Return
    <3> QED
      BY <2>3, <3>1 DEF Return, Over
  <2> QED
    BY <2>1, <2>2, <2>3
<1>2. OwnerInv'
  BY DEF Inv, TypeOK, OwnerInv, Trap, Fail, Return, Running
<1>3. UNCHANGED <<call, serverVars>>
  BY DEF Trap, Fail, Return
<1>4. CASE Trap(t) \/ Fail(t)
  <2>1. \A u \in Attempts : \/ pc'[u] \notin Creators
                            \/ pc'[u] = pc[u]
                            \/ pc'[u] = "detached" /\ pc[u] = "setData"
    BY <1>4 DEF Inv, TypeOK, Trap, Fail, Creators, Running
  <2> QED
    BY <1>1, <1>2, <1>3, <2>1, CalmInv
<1>5. CASE Return(t)
  BY <1>1, <1>2, <1>3, <1>5 DEF Inv, TypeOK, OneCreator, CreatorInv, NothingStored,
     SuccessMeansStored, DocumentSound, Return, Creators, serverVars, EmailOf, AvatarOf
<1> QED
  BY <1>4, <1>5

LEMMA NextInv == Inv /\ [Next]_vars => Inv'
<1> SUFFICES ASSUME Inv, [Next]_vars PROVE Inv'
  OBVIOUS
<1> QED
  BY UserInv, ReadEmailInv, ReadAvatarInv, CreateUserInv, CreateUserUnansweredInv,
     PutDataInv, PutDataUnansweredInv, DownloadURLInv, SetDataInv,
     SetDataUnansweredInv, EndInv DEF Next, Step, Answer

THEOREM InvAlways == Spec => []Inv
BY InitInv, NextInv, PTL DEF Spec

\* Every variable keeps its type: no switch is performed that was not posted.
THEOREM TypeCorrect == Spec => []TypeOK
<1>1. Inv => TypeOK
  BY DEF Inv
<1> QED
  BY <1>1, InvAlways, PTL

\* The avatar and the document of an account have one writer, ever.
THEOREM SingleWriter == Spec => []OneCreator
<1>1. Inv => OneCreator
  BY DEF Inv
<1> QED
  BY <1>1, InvAlways, PTL

\* An attempt that returned true has its document and its avatar stored.
THEOREM SuccessIsStored == Spec => []SuccessMeansStored
<1>1. Inv => SuccessMeansStored
  BY DEF Inv
<1> QED
  BY <1>1, InvAlways, PTL

\* No document without an account, none that names a picture that is not stored.
THEOREM DocumentsSound == Spec => []DocumentSound
<1>1. Inv => DocumentSound
  BY DEF Inv
<1> QED
  BY <1>1, InvAlways, PTL

\* An orphan stays an orphan.
THEOREM OrphansStay == Spec => OrphanForever
<1> DEFINE Stays == \A e \in Emails : Orphan(e) => Orphan(e)'
<1>1. Inv /\ [Next]_vars => [Stays]_vars
  <2> SUFFICES ASSUME Inv, [Next]_vars, NEW e \in Emails, Orphan(e) PROVE Orphan(e)'
    OBVIOUS
  <2> USE DEF Inv, TypeOK, Orphan, Go, EmailOf, Creators
  <2>1. CASE User \/ SwitchToArtHome \/ UNCHANGED vars
    BY <2>1 DEF User, Open, Leave, OpenCamera, CloseCamera, PickFromLibrary, PressRejected,
       PressAccepted, HideLoader, SwitchToLogin, SwitchToArtHome, vars, taskVars, serverVars
  <2>2. ASSUME NEW t \in Attempts, ReadEmail(t) \/ ReadAvatar(t) PROVE Orphan(e)'
    BY <2>2 DEF ReadEmail, ReadAvatar, serverVars
  <2>3. ASSUME NEW t \in Attempts, CreateUser(t) \/ CreateUserUnanswered(t) PROVE Orphan(e)'
    BY <2>3 DEF CreateUser, CreateUserUnanswered
  <2>4. ASSUME NEW t \in Attempts, PutData(t) \/ PutDataUnanswered(t) \/ DownloadURL(t)
        PROVE  Orphan(e)'
    BY <2>4 DEF PutData, PutDataUnanswered, DownloadURL, serverVars
  <2>5. ASSUME NEW t \in Attempts, SetData(t) \/ SetDataUnanswered(t) PROVE Orphan(e)'
    BY <2>5 DEF SetData, SetDataUnanswered
  <2>6. ASSUME NEW t \in Attempts, Trap(t) \/ Fail(t) \/ Return(t) PROVE Orphan(e)'
    BY <2>6 DEF Trap, Fail, Return, serverVars
  <2> QED
    BY <2>1, <2>2, <2>3, <2>4, <2>5, <2>6 DEF Next, Step, Answer
<1> QED
  BY <1>1, InvAlways, PTL DEF Spec, OrphanForever

\* SignUp implements Registration: the account is the claim, the document its
\* completion, and every step of an attempt is a step of Registration or changes
\* nothing there.
THEOREM SignUpImplements == Spec => ImplementsRegistration
<1>1. Init => Reg!Init
  <2> SUFFICES ASSUME Init PROVE Reg!Init
    OBVIOUS
  <2>1. \A t \in Attempts : pc[t] = "none"
    BY DEF Init
  <2>2. Holds = [t \in Attempts |-> None] /\ Told = {}
    BY <2>1 DEF Holds, Told, Creators
  <2> QED
    BY <2>2 DEF Init, Reg!Init
<1>2. Inv /\ [Next]_vars => [Reg!Next]_(Reg!vars)
  <2> SUFFICES ASSUME Inv, [Next]_vars
               PROVE  Reg!Next \/ UNCHANGED <<account, document, Holds, Told>>
    BY DEF Reg!vars
  <2> USE DEF Inv, TypeOK, EmailOf, AvatarOf, Go
  <2>1. CASE User \/ SwitchToArtHome \/ UNCHANGED vars
    <3>1. UNCHANGED <<account, document, call>>
      BY <2>1 DEF User, Open, Leave, OpenCamera, CloseCamera, PickFromLibrary, PressRejected,
         PressAccepted, HideLoader, SwitchToLogin, SwitchToArtHome, vars, taskVars, serverVars
    <3>2. \A t \in Attempts : pc'[t] = pc[t] \/ (pc[t] = "none" /\ pc'[t] = "queued")
      BY <2>1 DEF User, Open, Leave, OpenCamera, CloseCamera, PickFromLibrary, PressRejected,
         PressAccepted, HideLoader, SwitchToLogin, SwitchToArtHome, vars, taskVars, serverVars
    <3>3. UNCHANGED <<Holds, Told>>
      BY <3>1, <3>2 DEF Holds, Told, Creators
    <3> QED
      BY <3>1, <3>3
  <2>2. ASSUME NEW t \in Attempts,
               ReadEmail(t) \/ ReadAvatar(t) \/ PutData(t) \/ DownloadURL(t)
        PROVE  UNCHANGED <<account, document, Holds, Told>>
    <3>1. UNCHANGED <<account, document>>
      BY <2>2 DEF ReadEmail, ReadAvatar, PutData, DownloadURL, serverVars
    <3>2. \A u \in Attempts :
             /\ (pc'[u] \in Creators) = (pc[u] \in Creators)
             /\ (pc'[u] = "done") = (pc[u] = "done")
             /\ pc[u] \in Creators => call'[u] = call[u]
      BY <2>2 DEF ReadEmail, ReadAvatar, PutData, DownloadURL, Creators
    <3> QED
      BY <3>1, <3>2 DEF Holds, Told
  <2>3. ASSUME NEW t \in Attempts, CreateUser(t) PROVE Reg!Next
    <3>1. Holds[t] = None /\ EmailOf(t) \in Emails
      BY <2>3 DEF CreateUser, Holds, Creators
    <3>2. Holds' = [Holds EXCEPT ![t] = EmailOf(t)] /\ Told' = Told
      BY <2>3 DEF CreateUser, Holds, Told, Creators
    <3> QED
      BY <2>3, <3>1, <3>2 DEF CreateUser, Reg!Next, Reg!Claim
  <2>4. ASSUME NEW t \in Attempts, CreateUserUnanswered(t) PROVE Reg!Next
    <3>1. EmailOf(t) \in Emails
      BY <2>4 DEF CreateUserUnanswered
    <3>2. UNCHANGED <<Holds, Told>>
      BY <2>4 DEF CreateUserUnanswered, Holds, Told, Creators
    <3> QED
      BY <2>4, <3>1, <3>2 DEF CreateUserUnanswered, Reg!Next, Reg!ClaimUnheard
  <2>5. ASSUME NEW t \in Attempts, SetData(t) \/ SetDataUnanswered(t) PROVE Reg!Next
    <3>1. /\ pc[t] \in {"setData", "detached"}
          /\ Holds[t] = EmailOf(t) /\ EmailOf(t) \in Emails /\ EmailOf(t) # None
          /\ document[EmailOf(t)] = NoDoc
      BY <2>5, NoneAssumption DEF SetData, SetDataUnanswered, CreatorInv, Holds, Creators
    <3>2. Holds' \in {Holds, [Holds EXCEPT ![t] = None]} /\ Told' = Told
      BY <2>5 DEF SetData, SetDataUnanswered, Holds, Told, Creators
    <3>3. /\ AvatarOf(t) \in Avatars \cup {NoAvatar}
          /\ document' = [document EXCEPT ![Holds[t]] = AvatarOf(t)]
          /\ account' = account
      BY <2>5, <3>1 DEF SetData, SetDataUnanswered
    <3>4. Reg!Store(t, AvatarOf(t))
      BY <3>1, <3>2, <3>3 DEF Reg!Store
    <3> QED
      BY <3>3, <3>4 DEF Reg!Next
  <2>6. ASSUME NEW t \in Attempts, Return(t) PROVE Reg!Next
    <3>1. Holds[t] = EmailOf(t) /\ EmailOf(t) \in Emails /\ EmailOf(t) # None
      BY <2>6, NoneAssumption DEF Return, CreatorInv, Holds, Creators
    <3>2. document[EmailOf(t)] # NoDoc
      BY <2>6, PictureAssumption DEF Return, SuccessMeansStored, NoAvatar, NoDoc
    <3>3. Holds' = Holds /\ Told' = Told \cup {t}
      BY <2>6 DEF Return, Holds, Told, Creators
    <3> QED
      BY <2>6, <3>1, <3>2, <3>3 DEF Return, serverVars, Reg!Next, Reg!Tell
  <2>7. ASSUME NEW t \in Attempts, Trap(t) \/ Fail(t) \/ PutDataUnanswered(t) PROVE Reg!Next
    <3> DEFINE T == {u \in Attempts : pc[u] \in Creators /\ pc'[u] \notin Creators}
    <3>1. UNCHANGED <<account, document, call>> /\ Told' = Told
      BY <2>7 DEF Trap, Fail, PutDataUnanswered, serverVars, Told, Running
    <3>2. \A u \in T : Holds[u] # None /\ u \notin Told
      BY <2>7, NoneAssumption DEF Trap, Fail, PutDataUnanswered, CreatorInv, Holds, Told,
         Creators, Running
    <3>3. Holds' = [u \in Attempts |-> IF u \in T THEN None ELSE Holds[u]]
      BY <2>7, <3>1 DEF Trap, Fail, PutDataUnanswered, Holds, Creators, Running
    <3>4. Reg!LetGo(T)
      BY <3>1, <3>2, <3>3 DEF Reg!LetGo
    <3> QED
      BY <3>4 DEF Reg!Next
  <2> QED
    BY <2>1, <2>2, <2>3, <2>4, <2>5, <2>6, <2>7 DEF Next, Step, Answer
<1> QED
  BY <1>1, <1>2, InvAlways, PTL DEF Spec, ImplementsRegistration, Reg!Spec
=============================================================================
