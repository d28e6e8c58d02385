---------------------------- MODULE TabBarProofs ----------------------------
(***************************************************************************)
(* Proofs about TabBar, for any set of tabs and any number of closures and *)
(* animations in flight.                                                   *)
(***************************************************************************)
EXTENDS TabBar, SequenceTheorems, TLAPS

\* Without a race, only the tab on display has a screen pushed onto it, one at most;
\* no flag waits to be applied; and the bar is hidden only under that screen.
CalmInv ==
    ~raced =>
        /\ \A t \in Tabs : Level(t) <= 2 /\ \A k \in 1..Level(t) : stack[t][k] = "nil"
        /\ \A t \in Tabs : t # selectedIndex => Level(t) = 1
        /\ hidden => Level(selectedIndex) = 2

StackInv == TypeOK /\ CalmInv

-----------------------------------------------------------------------------
LEMMA StackFacts ==
    ASSUME TypeOK, NEW t \in Tabs
    PROVE  /\ stack[t] \in Seq(Flags)
           /\ Level(t) \in Nat /\ Level(t) >= 1
           /\ DOMAIN stack[t] = 1..Level(t)
           /\ \A k \in 1..Level(t) : stack[t][k] \in Flags
<1>1. stack[t] \in Seq(Flags) /\ stack[t] # <<>>
  BY DEF TypeOK
<1> QED
  BY <1>1 DEF Level

LEMMA LeftFacts ==
    ASSUME NEW s \in Seq(Flags), s # <<>>
    PROVE  /\ Left(s) \in Seq(Flags) /\ Left(s) # <<>>
           /\ Len(Left(s)) = Len(s)
           /\ \A k \in 1..Len(s) : Left(s)[k] = IF k = Len(s) THEN "nil" ELSE s[k]
  BY DEF Left, Flags

LEMMA AppliedType == ASSUME hidden \in BOOLEAN, NEW f PROVE Applied(f) \in BOOLEAN
  BY DEF Applied

LEMMA PrefixFacts ==
    ASSUME NEW s \in Seq(Flags), NEW n \in Nat, n < Len(s), n >= 1
    PROVE  /\ SubSeq(s, 1, n) \in Seq(Flags)
           /\ SubSeq(s, 1, n) # <<>>
           /\ Len(SubSeq(s, 1, n)) = n
           /\ \A k \in 1..n : SubSeq(s, 1, n)[k] = s[k]
  OBVIOUS

LEMMA PoppedFacts ==
    ASSUME NEW s \in Seq(Flags), Len(s) > 1
    PROVE  /\ SubSeq(s, 1, Len(s) - 1) \in Seq(Flags)
           /\ SubSeq(s, 1, Len(s) - 1) # <<>>
           /\ Len(SubSeq(s, 1, Len(s) - 1)) = Len(s) - 1
           /\ \A k \in 1..(Len(s) - 1) : SubSeq(s, 1, Len(s) - 1)[k] = s[k]
<1>1. Len(s) - 1 \in Nat /\ Len(s) - 1 < Len(s) /\ Len(s) - 1 >= 1
  OBVIOUS
<1> QED
  BY <1>1, PrefixFacts

LEMMA QueueFacts ==
    ASSUME TypeOK, NEW kind \in {"switch", "push", "pop"}, Next1(kind)
    PROVE  /\ Head(mainQueue) \in Closures
           /\ Tail(mainQueue) \in Seq(Closures)
           /\ Len(Tail(mainQueue)) = Len(mainQueue) - 1
           /\ Len(mainQueue) \in Nat /\ Len(mainQueue) >= 1
           /\ \A k \in 1..(Len(mainQueue) - 1) : Tail(mainQueue)[k] = mainQueue[k + 1]
           /\ Head(mainQueue) = mainQueue[1]
           /\ kind = "switch" => Head(mainQueue).to \in Tabs
           /\ kind = "pop" => Head(mainQueue).level \in Nat
<1>1. mainQueue \in Seq(Closures) /\ mainQueue # <<>> /\ Head(mainQueue).kind = kind
  BY DEF TypeOK, Next1
<1>2. Head(mainQueue) \in Closures
  BY <1>1
<1>3. /\ kind = "switch" => Head(mainQueue).to \in Tabs
      /\ kind = "pop" => Head(mainQueue).level \in Nat
  BY <1>1, <1>2 DEF Closures
<1> QED
  BY <1>1, <1>2, <1>3

-----------------------------------------------------------------------------
LEMMA InitStack == Init => StackInv
<1> SUFFICES ASSUME Init PROVE StackInv
  OBVIOUS
<1>1. /\ <<"nil">> \in Seq(Flags) \ {<<>>}
      /\ <<>> \in Seq(Tabs) /\ <<>> \in Seq(Closures)
  BY DEF Flags
<1>2. TypeOK
  BY <1>1, TabsAssumption DEF Init, TypeOK
<1>3. CalmInv
  BY DEF Init, CalmInv, Level
<1> QED
  BY <1>2, <1>3 DEF StackInv

\* A closure is posted at the end of the queue.
LEMMA PostInv ==
    ASSUME TypeOK, NEW c \in Closures, Post(c)
    PROVE  mainQueue' \in Seq(Closures)
  BY DEF TypeOK, Post

\* The same closures as in q, but for the levels of those that pop.
Alike(q) ==
    /\ mainQueue' \in Seq(Closures)
    /\ DOMAIN mainQueue' = DOMAIN q
    /\ \A k \in DOMAIN q : /\ mainQueue'[k].kind = q[k].kind
                           /\ q[k].kind # "pop" => mainQueue'[k] = q[k]

LEMMA OrphanedAlike ==
    ASSUME NEW q \in Seq(Closures), NEW n, mainQueue' = Orphaned(q, n)
    PROVE  Alike(q)
<1>1. Len(q) \in Nat /\ DOMAIN q = 1..Len(q)
  OBVIOUS
<1>2. [kind |-> "pop", level |-> 0] \in Closures
  BY DEF Closures
<1>3. /\ DOMAIN mainQueue' = DOMAIN q
      /\ mainQueue' = [k \in 1..Len(q) |-> mainQueue'[k]]
      /\ \A k \in DOMAIN q :
            mainQueue'[k] = IF q[k].kind = "pop" /\ q[k].level = n
                            THEN [kind |-> "pop", level |-> 0] ELSE q[k]
  BY <1>1, Zenon DEF Orphaned
<1>4. ASSUME NEW k \in DOMAIN q
      PROVE  /\ mainQueue'[k] \in Closures
             /\ mainQueue'[k].kind = q[k].kind
             /\ q[k].kind # "pop" => mainQueue'[k] = q[k]
  <2>1. q[k] \in Closures
    BY <1>1
  <2>2. CASE q[k].kind = "pop" /\ q[k].level = n
    BY <1>2, <1>3, <2>2
  <2>3. CASE ~(q[k].kind = "pop" /\ q[k].level = n)
    BY <1>3, <2>1, <2>3
  <2> QED
    BY <2>2, <2>3
<1>5. mainQueue' \in [1..Len(q) -> Closures]
  <2>1. ASSUME NEW k \in 1..Len(q) PROVE mainQueue'[k] \in Closures
    <3>1. k \in DOMAIN q
      BY <1>1
    <3> QED
      BY <1>4, <3>1
  <2> QED
    BY <1>3, <2>1, Zenon
<1>6. mainQueue' \in Seq(Closures)
  BY <1>1, <1>5, SeqDef
<1> QED
  BY <1>3, <1>4, <1>6 DEF Alike

LEMMA SameAlike ==
    ASSUME NEW q \in Seq(Closures), mainQueue' = q
    PROVE  Alike(q)
  BY DEF Alike

\* What the back button and the closures that are served do to the queue.
LEMMA BackAlike == ASSUME TypeOK, NEW t \in Tabs, Back(t) PROVE Alike(mainQueue)
<1>1. mainQueue \in Seq(Closures)
  BY DEF TypeOK
<1> QED
  BY <1>1, OrphanedAlike, SameAlike DEF Back

LEMMA PopAlike == ASSUME TypeOK, PopEnrolment PROVE Next1("pop") /\ Alike(Tail(mainQueue))
<1>1. Next1("pop")
  BY DEF PopEnrolment
<1>2. Tail(mainQueue) \in Seq(Closures)
  BY <1>1, QueueFacts
<1> QED
  BY <1>1, <1>2, OrphanedAlike, SameAlike DEF PopEnrolment

LEMMA PushAlike == ASSUME TypeOK, PushEnrolment PROVE Next1("push") /\ Alike(Tail(mainQueue))
<1>1. Next1("push") /\ mainQueue' = Tail(mainQueue)
  BY DEF PushEnrolment
<1>2. Tail(mainQueue) \in Seq(Closures)
  BY <1>1, QueueFacts
<1> QED
  BY <1>1, <1>2, SameAlike

\* A step that leaves the screens, the bar and the selected tab alone.
LEMMA SameStack ==
    ASSUME CalmInv, UNCHANGED <<stack, hidden, selectedIndex, raced>>
    PROVE  CalmInv'
  BY DEF CalmInv, Level

-----------------------------------------------------------------------------
(***************************************************************************)
(* Each action keeps StackInv.                                             *)
(***************************************************************************)
LEMMA TapInv == ASSUME StackInv, NEW t \in Tabs, Tap(t) PROVE StackInv'
<1> DEFINE c == [kind |-> "switch", from |-> activeItem, to |-> t]
<1>1. c \in Closures /\ c.kind # "pop"
  BY DEF StackInv, TypeOK, Closures
<1>2. TypeOK /\ CalmInv /\ Post(c)
  BY DEF StackInv, Tap
<1> HIDE DEF c
<1>3. mainQueue' \in Seq(Closures)
  BY <1>1, <1>2, PostInv
<1>4. TypeOK'
  BY <1>2, <1>3 DEF TypeOK, Tap, barVars, Switching
<1>5. CalmInv'
  BY <1>2, SameStack DEF Tap, barVars
<1> QED
  BY <1>3, <1>4, <1>5 DEF StackInv

LEMMA TapActiveInv == ASSUME StackInv, TapActive PROVE StackInv'
<1>1. TypeOK /\ CalmInv
  BY DEF StackInv
<1>2. TypeOK'
  BY <1>1 DEF TypeOK, TapActive, barVars, Switching
<1>4. CalmInv'
  BY <1>1, SameStack DEF TapActive, barVars
<1> QED
  BY <1>2, <1>4 DEF StackInv

LEMMA AnimateInv == ASSUME StackInv, Animate PROVE StackInv'
<1>1. TypeOK /\ CalmInv /\ Next1("switch")
  BY DEF StackInv, Animate
<1>2. mainQueue' \in Seq(Closures)
  BY <1>1, QueueFacts DEF Animate
<1>3. Head(mainQueue).to \in Tabs
  BY <1>1, QueueFacts
<1>4. highlighted' \subseteq Tabs /\ animating' \in Seq(Tabs)
  BY <1>1, <1>3 DEF TypeOK, Animate
<1>5. TypeOK'
  BY <1>1, <1>2, <1>4 DEF TypeOK, Animate, taps
<1>6. CalmInv'
  BY <1>1, SameStack DEF Animate
<1> QED
  BY <1>2, <1>5, <1>6 DEF StackInv

LEMMA CompleteInv == ASSUME StackInv, Complete PROVE StackInv'
<1> DEFINE to == Head(animating)
           s  == stack[selectedIndex]
<1>1. TypeOK /\ CalmInv
  BY DEF StackInv
<1>2. to \in Tabs /\ Tail(animating) \in Seq(Tabs) /\ selectedIndex \in Tabs
  BY <1>1 DEF TypeOK, Complete
<1>3. s \in Seq(Flags) /\ s # <<>> /\ Level(selectedIndex) = Len(s)
  BY <1>1, <1>2 DEF TypeOK, Level
<1>5. CASE to = selectedIndex
  <2>1. UNCHANGED <<stack, hidden, selectedIndex, raced>>
    BY <1>5 DEF Complete
  <2>2. CalmInv'
    BY <1>1, <2>1, SameStack
  <2>3. TypeOK'
    BY <1>1, <1>2, <2>1 DEF TypeOK, Complete, taps
  <2> QED
    BY <2>2, <2>3 DEF StackInv
<1>6. CASE to # selectedIndex
  <2>1. /\ hidden' = Applied(s[Level(selectedIndex)])
        /\ stack' = [stack EXCEPT ![selectedIndex] = Left(s)]
        /\ raced' = (raced \/ Level(selectedIndex) > 1)
        /\ selectedIndex' = to
    BY <1>6 DEF Complete
  <2>2. Left(s) \in Seq(Flags) /\ Left(s) # <<>> /\ Len(Left(s)) = Len(s)
    BY <1>3, LeftFacts
  <2>3. stack' \in [Tabs -> Seq(Flags) \ {<<>>}]
    BY <1>1, <2>1, <2>2 DEF TypeOK
  <2>4. hidden' \in BOOLEAN /\ raced' \in BOOLEAN
    BY <1>1, <2>1, AppliedType DEF TypeOK
  <2>5. TypeOK'
    BY <1>1, <1>2, <2>3, <2>4 DEF TypeOK, Complete, taps
  <2>6. CalmInv'
    <3> SUFFICES ASSUME ~raced' PROVE CalmInv'
      BY DEF CalmInv
    <3>0. ~raced /\ ~(Level(selectedIndex) > 1)
      BY <2>1, Zenon
    <3>1. ~raced /\ Len(s) = 1
      <4>1. Len(s) \in Nat /\ Len(s) # 0
        BY <1>3
      <4>2. ~(Len(s) > 1)
        BY <1>3, <3>0, Zenon
      <4>3. \A n \in Nat : n # 0 /\ ~(n > 1) => n = 1
        OBVIOUS
      <4> QED
        BY <3>0, <4>1, <4>2, <4>3, Zenon
    <3>2. /\ \A t \in Tabs : Level(t) = 1 /\ stack[t][1] = "nil"
          /\ ~hidden
      BY <1>1, <1>2, <1>3, <3>1 DEF CalmInv
    <3>3. Left(s)[1] = "nil"
      BY <1>3, <3>1, LeftFacts
    <3>4. \A t \in Tabs : Len(stack'[t]) = 1 /\ stack'[t][1] = "nil"
      BY <1>1, <1>2, <2>1, <2>2, <3>1, <3>2, <3>3 DEF TypeOK, Level
    <3>5. ~hidden'
      BY <1>2, <1>3, <2>1, <3>1, <3>2 DEF Applied
    <3>6. \A t \in Tabs : Len(stack'[t]) <= 2 /\ \A k \in 1..Len(stack'[t]) : stack'[t][k] = "nil"
      <4> SUFFICES ASSUME NEW t \in Tabs
                   PROVE  /\ Len(stack'[t]) <= 2
                          /\ \A k \in 1..Len(stack'[t]) : stack'[t][k] = "nil"
        OBVIOUS
      <4>1. Len(stack'[t]) = 1 /\ stack'[t][1] = "nil"
        BY <3>4
      <4>2. \A k \in 1..1 : k = 1
        OBVIOUS
      <4> QED
        BY <4>1, <4>2
    <3> QED
      BY <3>4, <3>5, <3>6 DEF CalmInv, Level
  <2> QED
    BY <2>5, <2>6 DEF StackInv
<1> QED
  BY <1>5, <1>6

\* Without a race, the screens of the tab on display become q.
LEMMA CalmUpdate ==
    ASSUME TypeOK, CalmInv, ~raced,
           NEW q \in Seq(Flags), Len(q) <= 2, \A k \in 1..Len(q) : q[k] = "nil",
           stack' = [stack EXCEPT ![selectedIndex] = q],
           selectedIndex' = selectedIndex,
           hidden' => Len(q) = 2
    PROVE  CalmInv'
<1>1. selectedIndex \in Tabs /\ \A t \in Tabs : stack'[t] = IF t = selectedIndex THEN q ELSE stack[t]
  BY DEF TypeOK
<1>2. \A t \in Tabs : /\ Len(stack[t]) <= 2 
                      /\ \A k \in 1..Len(stack[t]) : stack[t][k] = "nil"
                      /\ t # selectedIndex => Len(stack[t]) = 1
  BY DEF CalmInv, Level
<1>3. \A t \in Tabs : Len(stack'[t]) <= 2
  BY <1>1, <1>2
<1>4. \A t \in Tabs : \A k \in 1..Len(stack'[t]) : stack'[t][k] = "nil"
  BY <1>1, <1>2
<1>5. \A t \in Tabs : t # selectedIndex => Len(stack'[t]) = 1
  BY <1>1, <1>2
<1>6. hidden' => Len(stack'[selectedIndex]) = 2
  BY <1>1
<1> QED
  BY <1>3, <1>4, <1>5, <1>6 DEF CalmInv, Level

LEMMA OpenRecordInv == ASSUME StackInv, OpenRecord PROVE StackInv'
<1> DEFINE q == <<"nil", "nil">>
<1>1. TypeOK /\ CalmInv
  BY DEF StackInv
<1>2. /\ q \in Seq(Flags) /\ q # <<>> /\ Len(q) = 2
      /\ \A k \in 1..2 : q[k] = "nil"
  BY DEF Flags
<1>3. stack' = [stack EXCEPT ![Home] = q] /\ selectedIndex = Home
  BY DEF OpenRecord
<1> HIDE DEF q
<1>4. TypeOK'
  <2>1. stack' \in [Tabs -> Seq(Flags) \ {<<>>}]
    BY <1>1, <1>2, <1>3 DEF TypeOK
  <2> QED
    BY <1>1, <2>1 DEF TypeOK, OpenRecord, barVars, taps
<1>6. CalmInv'
  <2>1. CASE raced
    BY <2>1 DEF OpenRecord, CalmInv
  <2>2. CASE ~raced
    <3>1. stack' = [stack EXCEPT ![selectedIndex] = q] /\ selectedIndex' = selectedIndex
      BY <1>3 DEF OpenRecord, barVars
    <3>2. Len(q) <= 2 /\ \A k \in 1..Len(q) : q[k] = "nil"
      BY <1>2
    <3> QED
      BY <1>1, <1>2, <2>2, <3>1, <3>2, CalmUpdate
  <2> QED
    BY <2>1, <2>2
<1> QED
  BY <1>4, <1>6 DEF StackInv

LEMMA FaceIsRightInv == ASSUME StackInv, FaceIsRight PROVE StackInv'
<1> DEFINE c == [kind |-> "push"]
<1>1. c \in Closures /\ c.kind # "pop"
  BY DEF Closures
<1>2. TypeOK /\ CalmInv /\ Post(c)
  BY DEF StackInv, FaceIsRight
<1> HIDE DEF c
<1>3. mainQueue' \in Seq(Closures)
  BY <1>1, <1>2, PostInv
<1>4. TypeOK'
  BY <1>2, <1>3 DEF TypeOK, FaceIsRight, barVars, taps
<1>5. CalmInv'
  BY <1>2, SameStack DEF FaceIsRight, barVars
<1> QED
  BY <1>3, <1>4, <1>5 DEF StackInv

LEMMA EnrolInv == ASSUME StackInv, Enrol PROVE StackInv'
<1> DEFINE c == [kind |-> "pop", level |-> Level(Settings)]
<1>1. c \in Closures /\ c.kind = "pop" /\ c.level > 1
  <2>1. Level(Settings) \in Nat /\ Level(Settings) > 1
    BY StackFacts, TabsAssumption DEF Enrol, StackInv
  <2> QED
    BY <2>1 DEF Closures
<1>2. TypeOK /\ CalmInv /\ Post(c)
  BY DEF StackInv, Enrol
<1> HIDE DEF c
<1>3. mainQueue' \in Seq(Closures)
  BY <1>1, <1>2, PostInv
<1>4. TypeOK'
  BY <1>2, <1>3 DEF TypeOK, Enrol, barVars, taps
<1>5. CalmInv'
  BY <1>2, SameStack DEF Enrol, barVars
<1> QED
  BY <1>3, <1>4, <1>5 DEF StackInv

LEMMA BackInv == ASSUME StackInv, NEW t \in Tabs, Back(t) PROVE StackInv'
<1> DEFINE s == stack[t]
           q == SubSeq(s, 1, Len(s) - 1)
<1>1. TypeOK /\ CalmInv
  BY DEF StackInv
<1>2. s \in Seq(Flags) /\ Len(s) > 1
  BY <1>1 DEF TypeOK, Back, Level
<1>3. /\ q \in Seq(Flags) /\ q # <<>> /\ Len(q) = Len(s) - 1
      /\ \A k \in 1..(Len(s) - 1) : q[k] = s[k]
  BY <1>2, PoppedFacts
<1>4. stack' = [stack EXCEPT ![t] = q] /\ selectedIndex = t /\ ~hidden'
  BY DEF Back
<1> HIDE DEF q
<1>5. TypeOK'
  <2>1. stack' \in [Tabs -> Seq(Flags) \ {<<>>}]
    BY <1>1, <1>3, <1>4 DEF TypeOK
  <2>2. mainQueue' \in Seq(Closures)
    BY <1>1, BackAlike DEF Alike
  <2> QED
    BY <1>1, <2>1, <2>2 DEF TypeOK, Back, barVars, taps
<1>7. CalmInv'
  <2>1. CASE raced
    BY <2>1 DEF Back, CalmInv
  <2>2. CASE ~raced
    <3>1. Len(s) <= 2 /\ \A k \in 1..Len(s) : s[k] = "nil"
      BY <1>1, <2>2 DEF CalmInv, Level
    <3>2. Len(q) <= 2 /\ \A k \in 1..Len(q) : q[k] = "nil"
      BY <1>2, <1>3, <3>1
    <3>3. stack' = [stack EXCEPT ![selectedIndex] = q] /\ selectedIndex' = selectedIndex
      BY <1>4 DEF Back, barVars
    <3> QED
      BY <1>1, <1>3, <1>4, <2>2, <3>2, <3>3, CalmUpdate
  <2> QED
    BY <2>1, <2>2
<1> QED
  BY <1>5, <1>7 DEF StackInv

LEMMA PushEnrolmentInv == ASSUME StackInv, PushEnrolment PROVE StackInv'
<1> DEFINE r == stack[Settings]
           s == [r EXCEPT ![1] = "hide"]
           l == Left(s)
           q == Append(l, "nil")
           p == Append(s, "nil")
<1>1. TypeOK /\ CalmInv /\ Next1("push")
  BY DEF StackInv, PushEnrolment
<1>2. mainQueue' \in Seq(Closures)
  BY <1>1, PushAlike DEF Alike
<1>3. r \in Seq(Flags) /\ r # <<>> /\ Level(Settings) = Len(r)
  BY <1>1, TabsAssumption DEF TypeOK, Level
<1>4. /\ IF selectedIndex = Settings
         THEN hidden' = Applied(s[Len(s)]) /\ stack' = [stack EXCEPT ![Settings] = q]
         ELSE hidden' = hidden /\ stack' = [stack EXCEPT ![Settings] = p]
      /\ raced' = (raced \/ selectedIndex # Settings \/ Level(Settings) > 1)
      /\ selectedIndex' = selectedIndex
  BY DEF PushEnrolment, barVars
<1> HIDE DEF r
<1>5. s \in Seq(Flags) /\ s # <<>> /\ Len(s) = Len(r) /\ s[1] = "hide"
  BY <1>3 DEF Flags
<1> HIDE DEF s
<1>6. /\ l \in Seq(Flags) /\ l # <<>> /\ Len(l) = Len(s)
      /\ \A k \in 1..Len(s) : l[k] = IF k = Len(s) THEN "nil" ELSE s[k]
  BY <1>5, LeftFacts
<1> HIDE DEF l
<1>7. q \in Seq(Flags) /\ q # <<>> /\ p \in Seq(Flags) /\ p # <<>>
  BY <1>5, <1>6 DEF Flags
<1>8. /\ Len(q) = Len(l) + 1 /\ q[Len(l) + 1] = "nil"
      /\ \A k \in 1..Len(l) : q[k] = l[k]
  BY <1>6
<1> HIDE DEF q, p
<1>9. TypeOK'
  <2>1. stack' \in [Tabs -> Seq(Flags) \ {<<>>}]
    BY <1>1, <1>4, <1>7 DEF TypeOK
  <2>2. hidden' \in BOOLEAN /\ raced' \in BOOLEAN
    BY <1>1, <1>4, AppliedType DEF TypeOK
  <2> QED
    BY <1>1, <1>2, <2>1, <2>2 DEF TypeOK, PushEnrolment, barVars, taps
<1>10. CalmInv'
  <2> SUFFICES ASSUME ~raced' PROVE CalmInv'
    BY DEF CalmInv
  <2>1. ~raced /\ selectedIndex = Settings /\ ~(Level(Settings) > 1)
    BY <1>4, Zenon
  <2>2. Len(s) = 1
    <3>1. Len(s) \in Nat /\ Len(s) # 0
      BY <1>5
    <3>2. ~(Len(s) > 1)
      BY <1>3, <1>5, <2>1, Zenon
    <3>3. \A n \in Nat : n # 0 /\ ~(n > 1) => n = 1
      OBVIOUS
    <3> QED
      BY <3>1, <3>2, <3>3, Zenon
  <2>3. Len(q) = 2 /\ q[1] = "nil" /\ q[2] = "nil"
    BY <1>6, <1>8, <2>2
  <2>4. Len(q) <= 2 /\ \A k \in 1..Len(q) : q[k] = "nil"
    BY <2>3
  <2>5. stack' = [stack EXCEPT ![selectedIndex] = q]
    BY <1>4, <2>1
  <2> QED
    BY <1>1, <1>4, <1>7, <2>1, <2>3, <2>4, <2>5, CalmUpdate
<1> QED
  BY <1>2, <1>9, <1>10 DEF StackInv

LEMMA PopEnrolmentInv == ASSUME StackInv, PopEnrolment PROVE StackInv'
<1> DEFINE own == Head(mainQueue).level
           r   == stack[Settings]
           top == Level(Settings)
           s   == [r EXCEPT ![own] = "show"]
           q   == SubSeq(s, 1, top - 1)
<1>1. TypeOK /\ CalmInv /\ Next1("pop")
  BY DEF StackInv, PopEnrolment
<1>2. mainQueue' \in Seq(Closures)
  BY <1>1, PopAlike DEF Alike
<1>3. r \in Seq(Flags) /\ r # <<>> /\ top = Len(r) /\ top \in Nat
  BY <1>1, TabsAssumption DEF TypeOK, Level
<1>4. own \in Nat
  BY <1>1, QueueFacts
<1>5. /\ IF own \in 2..top
         THEN /\ stack' = [stack EXCEPT ![Settings] = q]
              /\ hidden' = IF selectedIndex = Settings THEN Applied(s[top]) ELSE hidden
              /\ raced' = (raced \/ selectedIndex # Settings \/ own < top)
         ELSE UNCHANGED <<stack, hidden, raced>>
      /\ selectedIndex' = selectedIndex
  BY DEF PopEnrolment, barVars
<1>6. CASE own \notin 2..top
  <2>1. TypeOK'
    BY <1>1, <1>2, <1>5, <1>6 DEF TypeOK, PopEnrolment, barVars, taps
  <2>2. CalmInv'
    BY <1>1, <1>5, <1>6, SameStack
  <2> QED
    BY <1>2, <2>1, <2>2 DEF StackInv
<1>7. CASE own \in 2..top
  <2> HIDE DEF own, r, top
  <2>1. own > 1 /\ own <= top /\ top > 1
    BY <1>3, <1>4, <1>7
  <2>2. /\ s \in Seq(Flags) /\ Len(s) = top /\ s[own] = "show"
        /\ \A k \in 1..top : k # own => s[k] = r[k]
    BY <1>3, <1>4, <2>1 DEF Flags
  <2> HIDE DEF s
  <2>3. q \in Seq(Flags) /\ q # <<>> /\ Len(q) = top - 1 /\ \A k \in 1..(top - 1) : q[k] = s[k]
    BY <2>1, <2>2, PoppedFacts
  <2> HIDE DEF q
  <2>4. /\ stack' = [stack EXCEPT ![Settings] = q]
        /\ hidden' = IF selectedIndex = Settings THEN Applied(s[top]) ELSE hidden
        /\ raced' = (raced \/ selectedIndex # Settings \/ own < top)
    BY <1>5, <1>7
  <2>5. TypeOK'
    <3>1. stack' \in [Tabs -> Seq(Flags) \ {<<>>}]
      BY <1>1, <2>3, <2>4 DEF TypeOK
    <3>2. hidden' \in BOOLEAN /\ raced' \in BOOLEAN
      BY <1>1, <2>4, AppliedType DEF TypeOK
    <3> QED
      BY <1>1, <1>2, <3>1, <3>2 DEF TypeOK, PopEnrolment, barVars, taps
  <2>6. CalmInv'
    <3> SUFFICES ASSUME ~raced' PROVE CalmInv'
      BY DEF CalmInv
    <3>1. ~raced /\ selectedIndex = Settings /\ ~(own < top)
      BY <2>4, Zenon
    <3>2. top <= 2 /\ \A k \in 1..top : r[k] = "nil"
      BY <1>1, <1>3, <3>1, TabsAssumption DEF CalmInv, r, top
    <3>3. own = 2 /\ top = 2
      BY <1>3, <1>4, <2>1, <3>2
    <3>4. Len(q) = 1 /\ q[1] = "nil"
      BY <2>2, <2>3, <3>2, <3>3
    <3>5. Len(q) <= 2 /\ \A k \in 1..Len(q) : q[k] = "nil"
      BY <3>4
    <3>6. ~hidden'
      BY <2>2, <2>4, <3>1, <3>3 DEF Applied
    <3>7. stack' = [stack EXCEPT ![selectedIndex] = q]
      BY <2>4, <3>1
    <3> QED
      BY <1>1, <1>5, <2>3, <3>1, <3>5, <3>6, <3>7, CalmUpdate
  <2> QED
    BY <1>2, <2>5, <2>6 DEF StackInv
<1> QED
  BY <1>6, <1>7

LEMMA SwitchToArtHomeInv == ASSUME SwitchToArtHome PROVE StackInv'
<1>1. /\ <<"nil">> \in Seq(Flags) \ {<<>>}
      /\ <<>> \in Seq(Tabs) /\ <<>> \in Seq(Closures)
  BY DEF Flags
<1>2. TypeOK'
  BY <1>1, TabsAssumption DEF SwitchToArtHome, TypeOK
<1>3. CalmInv'
  BY DEF SwitchToArtHome, CalmInv, Level
<1> QED
  BY <1>2, <1>3 DEF StackInv

LEMMA NextStack == StackInv /\ [Next]_vars => StackInv'
<1> SUFFICES ASSUME StackInv, [Next]_vars PROVE StackInv'
  OBVIOUS
<1>1. ASSUME NEW t \in Tabs, Tap(t) PROVE StackInv'
  BY <1>1, TapInv
<1>2. ASSUME NEW t \in Tabs, Back(t) PROVE StackInv'
  BY <1>2, BackInv
<1>3. CASE TapActive
  BY <1>3, TapActiveInv
<1>4. CASE Complete
  BY <1>4, CompleteInv
<1>5. CASE Serve
  BY <1>5, AnimateInv, PushEnrolmentInv, PopEnrolmentInv DEF Serve
<1>6. CASE OpenRecord
  BY <1>6, OpenRecordInv
<1>7. CASE FaceIsRight
  BY <1>7, FaceIsRightInv
<1>8. CASE Enrol
  BY <1>8, EnrolInv
<1>9. CASE SwitchToArtHome
  BY <1>9, SwitchToArtHomeInv
<1>10. CASE UNCHANGED vars
  BY <1>10 DEF vars, barVars, taps, StackInv, TypeOK, CalmInv, Level
<1> QED
  BY <1>1, <1>2, <1>3, <1>4, <1>5, <1>6, <1>7, <1>8, <1>9, <1>10 DEF Next

LEMMA StackInvariant == Spec => []StackInv
  BY InitStack, NextStack, PTL DEF Spec

\* Every variable keeps its type; in particular no closure, however late, pops the root
\* screen of the settings.
THEOREM TypeCorrect == Spec => []TypeOK
<1>1. StackInv => TypeOK
  BY DEF StackInv
<1> QED
  BY <1>1, StackInvariant, PTL

\* A root screen is without the tab bar only after a switch of tabs overtook a pushed
\* screen, or a closure pushed or popped one that was not on display.
THEOREM NotStranded == Spec => []StrandedOnlyByRace
<1>1. StackInv => StrandedOnlyByRace
  <2> SUFFICES ASSUME StackInv, Stranded, ~raced PROVE FALSE
    BY DEF StrandedOnlyByRace
  <2>1. Level(selectedIndex) = 2
    BY DEF StackInv, CalmInv, Stranded
  <2> QED
    BY <2>1 DEF Stranded
<1> QED
  BY <1>1, StackInvariant, PTL

-----------------------------------------------------------------------------
(***************************************************************************)
(* Which tap counts.  Unless the last tap was ignored, the last switch in  *)
(* flight, on the queue or under animation, leads to the tab tapped last.  *)
(***************************************************************************)
IsSwitch(k)  == mainQueue[k].kind = "switch"
QueuedSwitch == \E k \in DOMAIN mainQueue : IsSwitch(k)

LastQueued ==
    \E k \in DOMAIN mainQueue :
        /\ IsSwitch(k) /\ mainQueue[k].to = lastTap
        /\ \A j \in DOMAIN mainQueue : j > k => ~IsSwitch(j)

LastAnimated == animating # <<>> /\ animating[Len(animating)] = lastTap

LastInv ==
    /\ activeItem = selectedIndex
    /\ \/ dropped
       \/ LastQueued
       \/ ~QueuedSwitch /\ LastAnimated
       \/ ~QueuedSwitch /\ animating = <<>> /\ selectedIndex = lastTap

\* A closure that is not a switch is posted.
LEMMA PostOther ==
    ASSUME TypeOK, NEW c, Post(c), c.kind # "switch", lastTap' = lastTap
    PROVE  (LastQueued => LastQueued') /\ (QueuedSwitch' => QueuedSwitch)
<1>1. /\ mainQueue' = Append(mainQueue, c)
      /\ mainQueue \in Seq(Closures)
  BY DEF TypeOK, Post
<1>2. /\ \A k \in DOMAIN mainQueue : k \in DOMAIN mainQueue' /\ mainQueue'[k] = mainQueue[k]
      /\ \A k \in DOMAIN mainQueue' : k \in DOMAIN mainQueue \/ mainQueue'[k] = c
  BY <1>1
<1>3. QueuedSwitch' => QueuedSwitch
  BY <1>2 DEF QueuedSwitch, IsSwitch
<1>4. LastQueued => LastQueued'
  BY <1>2 DEF LastQueued, IsSwitch
<1> QED
  BY <1>3, <1>4

\* The queue without its first closure.
LEMMA TailAlike ==
    ASSUME TypeOK, NEW kind \in {"push", "pop"}, Next1(kind), Alike(Tail(mainQueue))
    PROVE  /\ \A k \in DOMAIN mainQueue' :
                 /\ k \in Nat /\ k + 1 \in DOMAIN mainQueue
                 /\ mainQueue'[k].kind = mainQueue[k + 1].kind
                 /\ mainQueue[k + 1].kind = "switch" => mainQueue'[k] = mainQueue[k + 1]
           /\ \A k \in DOMAIN mainQueue : k \in Nat /\ (k = 1 \/ k - 1 \in DOMAIN mainQueue')
<1>1. PICK q \in Seq(Closures) : q = Tail(mainQueue)
  BY QueueFacts
<1>2. /\ DOMAIN mainQueue' = DOMAIN q
      /\ \A k \in DOMAIN q : /\ mainQueue'[k].kind = q[k].kind
                             /\ q[k].kind # "pop" => mainQueue'[k] = q[k]
  BY <1>1 DEF Alike
<1>3. /\ \A k \in DOMAIN q : k \in Nat /\ k + 1 \in DOMAIN mainQueue /\ q[k] = mainQueue[k + 1]
      /\ \A k \in DOMAIN mainQueue : k \in Nat /\ (k = 1 \/ k - 1 \in DOMAIN q)
  BY <1>1, QueueFacts DEF TypeOK
<1> QED
  BY <1>2, <1>3

\* A closure that is not a switch is served.
LEMMA ServeOther ==
    ASSUME TypeOK, NEW kind \in {"push", "pop"}, Next1(kind),
           Alike(Tail(mainQueue)), lastTap' = lastTap
    PROVE  (LastQueued => LastQueued') /\ (QueuedSwitch' => QueuedSwitch)
<1>1. \A k \in DOMAIN mainQueue' :
         /\ k \in Nat /\ k + 1 \in DOMAIN mainQueue
         /\ mainQueue'[k].kind = mainQueue[k + 1].kind
         /\ mainQueue[k + 1].kind = "switch" => mainQueue'[k] = mainQueue[k + 1]
  BY TailAlike
<1>2. \A k \in DOMAIN mainQueue : k \in Nat /\ (k = 1 \/ k - 1 \in DOMAIN mainQueue')
  BY TailAlike
<1>3. mainQueue[1].kind # "switch"
  BY QueueFacts DEF Next1
<1>4. QueuedSwitch' => QueuedSwitch
  BY <1>1 DEF QueuedSwitch, IsSwitch
<1>5. ASSUME LastQueued PROVE LastQueued'
  <2>1. PICK k \in DOMAIN mainQueue :
           /\ IsSwitch(k) /\ mainQueue[k].to = lastTap
           /\ \A j \in DOMAIN mainQueue : j > k => ~IsSwitch(j)
    BY <1>5 DEF LastQueued
  <2>2. k \in Nat /\ k - 1 \in DOMAIN mainQueue' /\ (k - 1) + 1 = k
    BY <1>2, <1>3, <2>1 DEF IsSwitch
  <2>3. mainQueue'[k - 1] = mainQueue[k]
    BY <1>1, <2>1, <2>2 DEF IsSwitch
  <2>4. \A j \in DOMAIN mainQueue' : j > k - 1 => mainQueue'[j].kind # "switch"
    <3> SUFFICES ASSUME NEW j \in DOMAIN mainQueue', j > k - 1
                 PROVE  mainQueue'[j].kind # "switch"
      OBVIOUS
    <3>1. /\ j \in Nat /\ j + 1 \in DOMAIN mainQueue
          /\ mainQueue'[j].kind = mainQueue[j + 1].kind
      BY <1>1
    <3>2. j + 1 > k
      BY <2>2, <3>1
    <3> QED
      BY <2>1, <3>1, <3>2 DEF IsSwitch
  <2> QED
    BY <2>1, <2>2, <2>3, <2>4 DEF LastQueued, IsSwitch
<1> QED
  BY <1>4, <1>5

\* A step that leaves the switches in flight alone keeps LastInv.
LEMMA SameSwitches ==
    ASSUME LastInv, UNCHANGED <<barVars, taps>>,
           LastQueued => LastQueued', QueuedSwitch' => QueuedSwitch
    PROVE  LastInv'
  BY DEF LastInv, LastAnimated, barVars, taps

LEMMA SameQueue ==
    ASSUME mainQueue' = mainQueue, lastTap' = lastTap
    PROVE  (LastQueued => LastQueued') /\ (QueuedSwitch' => QueuedSwitch)
  BY DEF LastQueued, QueuedSwitch, IsSwitch

LEMMA AlikeQueue ==
    ASSUME Alike(mainQueue), lastTap' = lastTap
    PROVE  (LastQueued => LastQueued') /\ (QueuedSwitch' => QueuedSwitch)
  BY DEF Alike, LastQueued, QueuedSwitch, IsSwitch

LEMMA TapLast == ASSUME TypeOK, LastInv, NEW t \in Tabs, Tap(t) PROVE LastInv'
<1> DEFINE c == [kind |-> "switch", from |-> activeItem, to |-> t]
           n == Len(mainQueue) + 1
<1>1. mainQueue' = Append(mainQueue, c) /\ mainQueue \in Seq(Closures) /\ lastTap' = t
  BY DEF TypeOK, Tap, Post
<1>2. c.kind = "switch" /\ c.to = t
  OBVIOUS
<1> HIDE DEF c
<1>3. n \in DOMAIN mainQueue' /\ mainQueue'[n] = c /\ \A j \in DOMAIN mainQueue' : ~(j > n)
  BY <1>1
<1> HIDE DEF n
<1>4. LastQueued'
  BY <1>1, <1>2, <1>3 DEF LastQueued, IsSwitch
<1> QED
  BY <1>4 DEF LastInv, Tap, barVars

LEMMA TapActiveLast == ASSUME LastInv, TapActive PROVE LastInv'
<1>1. CASE Switching
  BY <1>1 DEF LastInv, TapActive, barVars
<1>2. CASE ~Switching
  <2>1. ~QueuedSwitch /\ animating = <<>>
    BY <1>2 DEF Switching, QueuedSwitch, IsSwitch
  <2>2. ~QueuedSwitch' /\ animating' = <<>>
    BY <2>1 DEF TapActive, barVars, QueuedSwitch, IsSwitch
  <2>3. activeItem' = selectedIndex' /\ lastTap' = selectedIndex'
    BY DEF LastInv, TapActive, barVars
  <2> QED
    BY <2>2, <2>3 DEF LastInv
<1> QED
  BY <1>1, <1>2

LEMMA AnimateLast == ASSUME TypeOK, LastInv, Animate PROVE LastInv'
<1>1. Next1("switch") /\ mainQueue' = Tail(mainQueue)
  BY DEF Animate
<1>2. \A k \in DOMAIN mainQueue' : /\ k \in Nat /\ k >= 1 /\ k + 1 \in DOMAIN mainQueue
                                  /\ mainQueue'[k] = mainQueue[k + 1]
  BY <1>1, QueueFacts DEF TypeOK
<1>3. \A k \in DOMAIN mainQueue : k \in Nat /\ (k = 1 \/ k - 1 \in DOMAIN mainQueue')
  BY <1>1, QueueFacts DEF TypeOK
<1>4. /\ animating' # <<>> /\ animating'[Len(animating')] = mainQueue[1].to
      /\ 1 \in DOMAIN mainQueue
      /\ IsSwitch(1)
  <2>1. Head(mainQueue) = mainQueue[1] /\ Head(mainQueue).to \in Tabs /\ 1 \in DOMAIN mainQueue
    BY <1>1, QueueFacts DEF TypeOK
  <2>2. animating \in Seq(Tabs) /\ animating' = Append(animating, mainQueue[1].to)
    BY <2>1 DEF TypeOK, Animate
  <2>3. animating' # <<>> /\ animating'[Len(animating')] = mainQueue[1].to
    BY <2>1, <2>2
  <2> QED
    BY <1>1, <2>1, <2>3 DEF Next1, IsSwitch
<1>5. /\ activeItem' = activeItem /\ selectedIndex' = selectedIndex
      /\ lastTap' = lastTap /\ dropped' = dropped
  BY DEF Animate, taps
<1>6. CASE dropped
  BY <1>5, <1>6 DEF LastInv
<1>7. CASE ~dropped
  <2>1. PICK k \in DOMAIN mainQueue :
           /\ IsSwitch(k) /\ mainQueue[k].to = lastTap
           /\ \A j \in DOMAIN mainQueue : j > k => ~IsSwitch(j)
    BY <1>4, <1>7 DEF LastInv, QueuedSwitch, LastQueued
  <2>2. \A j \in DOMAIN mainQueue' : j > k - 1 => mainQueue'[j].kind # "switch"
    <3> SUFFICES ASSUME NEW j \in DOMAIN mainQueue', j > k - 1
                 PROVE  mainQueue'[j].kind # "switch"
      OBVIOUS
    <3>1. j \in Nat /\ j + 1 \in DOMAIN mainQueue /\ mainQueue'[j] = mainQueue[j + 1]
      BY <1>2
    <3>2. k \in Nat
      BY <1>3
    <3>3. j + 1 > k
      BY <3>1, <3>2
    <3> QED
      BY <2>1, <3>1, <3>3 DEF IsSwitch
  <2>3. CASE k = 1
    <3>1. \A j \in DOMAIN mainQueue' : j > k - 1
      BY <1>2, <2>3
    <3>2. ~QueuedSwitch'
      BY <2>2, <3>1 DEF QueuedSwitch, IsSwitch
    <3>3. LastAnimated'
      BY <1>4, <1>5, <2>1, <2>3 DEF LastAnimated
    <3> QED
      BY <1>5, <3>2, <3>3 DEF LastInv
  <2>4. CASE k # 1
    <3>1. k \in Nat /\ k - 1 \in DOMAIN mainQueue' /\ (k - 1) + 1 = k
      BY <1>3, <2>4
    <3>2. mainQueue'[k - 1] = mainQueue[k]
      BY <1>2, <3>1
    <3>3. LastQueued'
      BY <1>5, <2>1, <2>2, <3>1, <3>2 DEF LastQueued, IsSwitch
    <3> QED
      BY <1>5, <3>3 DEF LastInv
  <2> QED
    BY <2>3, <2>4
<1> QED
  BY <1>6, <1>7

LEMMA CompleteLastTap == ASSUME TypeOK, LastInv, Complete PROVE LastInv'
<1>1. /\ activeItem' = selectedIndex' /\ selectedIndex' = animating[1]
      /\ mainQueue' = mainQueue /\ lastTap' = lastTap /\ dropped' = dropped
  BY DEF TypeOK, Complete, taps
<1>2. (LastQueued => LastQueued') /\ (QueuedSwitch' => QueuedSwitch)
  BY <1>1, SameQueue
<1>3. CASE dropped \/ LastQueued
  BY <1>1, <1>2, <1>3 DEF LastInv
<1>4. CASE ~(dropped \/ LastQueued)
  <2>1. ~QueuedSwitch' /\ animating # <<>> /\ animating[Len(animating)] = lastTap
    BY <1>2, <1>4 DEF LastInv, LastAnimated, Complete
  <2>2. animating \in Seq(Tabs) /\ animating' = Tail(animating)
    BY DEF TypeOK, Complete
  <2>3. CASE Len(animating) = 1
    <3>1. animating' = <<>>
      BY <2>1, <2>2, <2>3
    <3> QED
      BY <1>1, <2>1, <2>3, <3>1 DEF LastInv
  <2>4. CASE Len(animating) # 1
    <3>1. animating' # <<>> /\ animating'[Len(animating')] = animating[Len(animating)]
      <4> DEFINE n == Len(animating)
      <4>0. n \in Nat /\ n # 0 /\ n # 1
        BY <2>1, <2>2, <2>4
      <4>1. n \in Nat /\ n >= 2 /\ n - 1 \in 1..(n - 1) /\ (n - 1) + 1 = n
        <5> HIDE DEF n
        <5> QED
          BY <4>0
      <4>2. /\ animating' \in Seq(Tabs) /\ Len(animating') = n - 1
            /\ \A k \in 1..(n - 1) : animating'[k] = animating[k + 1]
        BY <2>1, <2>2
      <4> HIDE DEF n
      <4>3. animating'[n - 1] = animating[n]
        BY <4>1, <4>2
      <4>4. animating' # <<>>
        BY <4>1, <4>2
      <4> QED
        BY <4>2, <4>3, <4>4 DEF n
    <3> QED
      BY <1>1, <2>1, <3>1 DEF LastInv, LastAnimated
  <2> QED
    BY <2>3, <2>4
<1> QED
  BY <1>3, <1>4

LEMMA NextLast == TypeOK /\ LastInv /\ [Next]_vars => LastInv'
<1> SUFFICES ASSUME TypeOK, LastInv, [Next]_vars PROVE LastInv'
  OBVIOUS
<1>1. ASSUME NEW t \in Tabs, Tap(t) PROVE LastInv'
  BY <1>1, TapLast
<1>2. ASSUME NEW t \in Tabs, Back(t) PROVE LastInv'
  BY <1>2, BackAlike, AlikeQueue, SameSwitches DEF Back, taps
<1>3. CASE TapActive
  BY <1>3, TapActiveLast
<1>4. CASE Complete
  BY <1>4, CompleteLastTap
<1>5. CASE Animate
  BY <1>5, AnimateLast
<1>6. CASE PushEnrolment
  <2>1. UNCHANGED <<barVars, taps>> /\ lastTap' = lastTap
    BY <1>6 DEF PushEnrolment, taps
  <2>2. (LastQueued => LastQueued') /\ (QueuedSwitch' => QueuedSwitch)
    BY <1>6, <2>1, PushAlike, ServeOther
  <2> QED
    BY <2>1, <2>2, SameSwitches
<1>7. CASE PopEnrolment
  <2>1. UNCHANGED <<barVars, taps>> /\ lastTap' = lastTap
    BY <1>7 DEF PopEnrolment, taps
  <2>2. (LastQueued => LastQueued') /\ (QueuedSwitch' => QueuedSwitch)
    BY <1>7, <2>1, PopAlike, ServeOther
  <2> QED
    BY <2>1, <2>2, SameSwitches
<1>8. CASE OpenRecord
  BY <1>8, SameQueue, SameSwitches DEF OpenRecord, taps
<1>9. CASE FaceIsRight
  <2>1. UNCHANGED <<barVars, taps>> /\ lastTap' = lastTap /\ Post([kind |-> "push"])
    BY <1>9 DEF FaceIsRight, taps
  <2>2. (LastQueued => LastQueued') /\ (QueuedSwitch' => QueuedSwitch)
    BY <2>1, PostOther
  <2> QED
    BY <2>1, <2>2, SameSwitches
<1>10. CASE Enrol
  <2>1. /\ UNCHANGED <<barVars, taps>> /\ lastTap' = lastTap
        /\ Post([kind |-> "pop", level |-> Level(Settings)])
    BY <1>10 DEF Enrol, taps
  <2>2. (LastQueued => LastQueued') /\ (QueuedSwitch' => QueuedSwitch)
    BY <2>1, PostOther
  <2> QED
    BY <2>1, <2>2, SameSwitches
<1>11. CASE SwitchToArtHome
  BY <1>11 DEF SwitchToArtHome, LastInv, QueuedSwitch
<1>12. CASE UNCHANGED vars
  BY <1>12, SameQueue, SameSwitches DEF vars, taps
<1> QED
  BY <1>1, <1>2, <1>3, <1>4, <1>5, <1>6, <1>7, <1>8, <1>9, <1>10, <1>11, <1>12 DEF Next, Serve

\* When no switch is in flight, the tab tapped last is selected, unless that tap came
\* back to the tab that was still active and switchTab ignored it.
THEOREM LastTapSelected == Spec => []LastTapWins
<1>1. Init => LastInv
  BY DEF Init, LastInv, QueuedSwitch
<1>2. LastInv => LastTapWins
  BY DEF LastInv, LastTapWins, LastQueued, LastAnimated, Switching, IsSwitch
<1> QED
  BY <1>1, <1>2, NextLast, TypeCorrect, PTL DEF Spec

-----------------------------------------------------------------------------
(***************************************************************************)
(* Which icons are highlighted.  The icon a switch highlights is never the *)
(* one it dims, so the target of the latest animation stays lit until its  *)
(* completion selects it.  As long as switches did not overlap, there is   *)
(* one switch in flight at most, it leaves the tab that is selected, and   *)
(* one icon only is lit.                                                   *)
(***************************************************************************)
LitInv ==
    /\ \A k \in DOMAIN mainQueue : IsSwitch(k) => mainQueue[k].from # mainQueue[k].to
    /\ animating # <<>> => animating[Len(animating)] \in highlighted
    /\ animating = <<>> => selectedIndex \in highlighted

SoleInv ==
    ~overlapped =>
        /\ \A j, k \in DOMAIN mainQueue : IsSwitch(j) /\ IsSwitch(k) => j = k
        /\ \A k \in DOMAIN mainQueue :
              IsSwitch(k) => animating = <<>> /\ mainQueue[k].from = selectedIndex
        /\ animating # <<>> => Len(animating) = 1 /\ highlighted = {animating[1]}
        /\ animating = <<>> => highlighted = {selectedIndex}

LightInv == LitInv /\ SoleInv

\* A step that leaves the bar alone and adds or removes no switch: every switch that
\* waits afterwards is one that waited before, p places further back.
LEMMA SameLight ==
    ASSUME LightInv, UNCHANGED barVars, overlapped' = overlapped, NEW p \in Nat,
           \A k \in DOMAIN mainQueue' :
              IsSwitch(k)' => /\ k \in Nat /\ k + p \in DOMAIN mainQueue
                              /\ mainQueue'[k] = mainQueue[k + p]
    PROVE  LightInv'
<1>1. \A k \in DOMAIN mainQueue' :
         IsSwitch(k)' => /\ k \in Nat /\ k + p \in DOMAIN mainQueue /\ IsSwitch(k + p)
                         /\ mainQueue'[k] = mainQueue[k + p]
  BY DEF IsSwitch
<1>2. /\ animating' = animating /\ highlighted' = highlighted
      /\ selectedIndex' = selectedIndex
  BY DEF barVars
<1>3. LitInv'
  BY <1>1, <1>2 DEF LightInv, LitInv
<1>4. SoleInv'
  <2> SUFFICES ASSUME ~overlapped PROVE SoleInv'
    BY DEF SoleInv
  <2>1. \A j, k \in DOMAIN mainQueue' : (IsSwitch(j) /\ IsSwitch(k))' => j = k
    <3> SUFFICES ASSUME NEW j \in DOMAIN mainQueue', NEW k \in DOMAIN mainQueue',
                        IsSwitch(j)', IsSwitch(k)'
                 PROVE  j = k
      OBVIOUS
    <3>1. j + p = k + p
      BY <1>1 DEF LightInv, SoleInv
    <3>2. j \in Nat /\ k \in Nat
      BY <1>1
    <3> QED
      BY <3>1, <3>2
  <2>2. \A k \in DOMAIN mainQueue' :
           IsSwitch(k)' => animating = <<>> /\ mainQueue'[k].from = selectedIndex
    BY <1>1 DEF LightInv, SoleInv
  <2> QED
    BY <1>2, <2>1, <2>2 DEF LightInv, SoleInv
<1> QED
  BY <1>3, <1>4 DEF LightInv

LEMMA SameQueueLight ==
    ASSUME TypeOK, LightInv, UNCHANGED <<barVars, mainQueue>>, overlapped' = overlapped
    PROVE  LightInv'
<1>1. \A k \in DOMAIN mainQueue' :
         k \in Nat /\ k + 0 \in DOMAIN mainQueue /\ mainQueue'[k] = mainQueue[k + 0]
  BY DEF TypeOK
<1> QED
  BY <1>1, SameLight

LEMMA AlikeQueueLight ==
    ASSUME TypeOK, LightInv, Alike(mainQueue), UNCHANGED barVars, overlapped' = overlapped
    PROVE  LightInv'
<1>1. \A k \in DOMAIN mainQueue : k \in Nat /\ k + 0 = k
  BY DEF TypeOK
<1>2. \A k \in DOMAIN mainQueue' :
         IsSwitch(k)' => /\ k \in Nat /\ k + 0 \in DOMAIN mainQueue
                         /\ mainQueue'[k] = mainQueue[k + 0]
  BY <1>1 DEF Alike, IsSwitch
<1> QED
  BY <1>2, SameLight

LEMMA PostLight ==
    ASSUME TypeOK, LightInv, NEW c, Post(c), c.kind # "switch",
           UNCHANGED barVars, overlapped' = overlapped
    PROVE  LightInv'
<1>1. mainQueue' = Append(mainQueue, c) /\ mainQueue \in Seq(Closures)
  BY DEF TypeOK, Post
<1>2. \A k \in DOMAIN mainQueue' :
         IsSwitch(k)' => /\ k \in Nat /\ k + 0 \in DOMAIN mainQueue
                         /\ mainQueue'[k] = mainQueue[k + 0]
  BY <1>1 DEF IsSwitch
<1> QED
  BY <1>2, SameLight

LEMMA ServeLight ==
    ASSUME TypeOK, LightInv, NEW kind \in {"push", "pop"}, Next1(kind),
           Alike(Tail(mainQueue)), UNCHANGED barVars, overlapped' = overlapped
    PROVE  LightInv'
<1>1. \A k \in DOMAIN mainQueue' :
         IsSwitch(k)' => /\ k \in Nat /\ k + 1 \in DOMAIN mainQueue
                         /\ mainQueue'[k] = mainQueue[k + 1]
  BY TailAlike DEF IsSwitch
<1> QED
  BY <1>1, SameLight

LEMMA TapLight == ASSUME TypeOK, LastInv, LightInv, NEW t \in Tabs, Tap(t) PROVE LightInv'
<1> DEFINE c == [kind |-> "switch", from |-> activeItem, to |-> t]
           n == Len(mainQueue) + 1
<1>1. mainQueue' = Append(mainQueue, c) /\ mainQueue \in Seq(Closures)
  BY DEF TypeOK, Tap, Post
<1>2. c.from = selectedIndex /\ c.from # c.to
  BY DEF LastInv, Tap
<1> HIDE DEF c
<1>3. \A k \in DOMAIN mainQueue' :
         \/ k \in DOMAIN mainQueue /\ mainQueue'[k] = mainQueue[k]
         \/ k = n /\ mainQueue'[k] = c
  BY <1>1
<1>4. /\ animating' = animating /\ highlighted' = highlighted
      /\ selectedIndex' = selectedIndex
  BY DEF Tap, barVars
<1> HIDE DEF n
<1>5. LitInv'
  BY <1>2, <1>3, <1>4 DEF LightInv, LitInv, IsSwitch
<1>6. SoleInv'
  <2> SUFFICES ASSUME ~overlapped' PROVE SoleInv'
    BY DEF SoleInv
  <2>1. ~overlapped /\ ~Switching
    BY Zenon DEF Tap
  <2>2. animating = <<>> /\ \A k \in DOMAIN mainQueue : ~IsSwitch(k)
    BY <2>1 DEF Switching, IsSwitch
  <2>3. \A k \in DOMAIN mainQueue' : IsSwitch(k)' => k = n /\ mainQueue'[k] = c
    BY <1>3, <2>2 DEF IsSwitch
  <2> QED
    BY <1>2, <1>4, <2>1, <2>2, <2>3 DEF LightInv, SoleInv
<1> QED
  BY <1>5, <1>6 DEF LightInv

LEMMA AnimateLight == ASSUME TypeOK, LightInv, Animate PROVE LightInv'
<1> DEFINE h == mainQueue[1]
<1>1. Next1("switch") /\ mainQueue' = Tail(mainQueue)
  BY DEF Animate
<1>2. /\ Head(mainQueue) = h /\ h.to \in Tabs
      /\ 1 \in DOMAIN mainQueue /\ IsSwitch(1)
  BY <1>1, QueueFacts DEF TypeOK, Next1, IsSwitch
<1>3. \A k \in DOMAIN mainQueue' :
         k \in Nat /\ k >= 1 /\ k + 1 \in DOMAIN mainQueue /\ mainQueue'[k] = mainQueue[k + 1]
  BY <1>1, QueueFacts DEF TypeOK
<1>4. /\ animating' = Append(animating, h.to) /\ animating \in Seq(Tabs)
      /\ highlighted' = (highlighted \cup {h.to}) \ {h.from}
      /\ selectedIndex' = selectedIndex /\ overlapped' = overlapped
  BY <1>2 DEF TypeOK, Animate, taps
<1>5. h.from # h.to
  BY <1>2 DEF LightInv, LitInv
<1> HIDE DEF h
<1>6. animating' # <<>> /\ animating'[Len(animating')] = h.to
  BY <1>2, <1>4
<1>7. LitInv'
  <2>1. \A k \in DOMAIN mainQueue' : IsSwitch(k)' => mainQueue'[k].from # mainQueue'[k].to
    BY <1>3 DEF LightInv, LitInv, IsSwitch
  <2>2. h.to \in highlighted'
    BY <1>4, <1>5
  <2> QED
    BY <1>6, <2>1, <2>2 DEF LitInv
<1>8. SoleInv'
  <2> SUFFICES ASSUME ~overlapped PROVE SoleInv'
    BY <1>4 DEF SoleInv
  <2>1. h.from = selectedIndex /\ animating = <<>> /\ highlighted = {selectedIndex}
    BY <1>2 DEF LightInv, SoleInv, h
  <2>2. \A k \in DOMAIN mainQueue' : ~IsSwitch(k)'
    <3> SUFFICES ASSUME NEW k \in DOMAIN mainQueue', IsSwitch(k)' PROVE FALSE
      OBVIOUS
    <3>1. k + 1 \in DOMAIN mainQueue /\ IsSwitch(k + 1) /\ k \in Nat /\ k >= 1
      BY <1>3 DEF IsSwitch
    <3>2. k + 1 = 1
      BY <1>2, <3>1 DEF LightInv, SoleInv
    <3> QED
      BY <3>1, <3>2
  <2>3. Len(animating') = 1 /\ animating'[1] = h.to
    BY <1>2, <1>4, <2>1
  <2>4. highlighted' = {h.to}
    BY <1>4, <1>5, <2>1
  <2> QED
    BY <1>6, <2>2, <2>3, <2>4 DEF SoleInv
<1> QED
  BY <1>7, <1>8 DEF LightInv

LEMMA CompleteLight == ASSUME TypeOK, LightInv, Complete PROVE LightInv'
<1> DEFINE n == Len(animating)
<1>1. /\ animating \in Seq(Tabs) /\ animating # <<>> /\ animating' = Tail(animating)
      /\ selectedIndex' = animating[1]
      /\ highlighted' = highlighted /\ mainQueue' = mainQueue /\ overlapped' = overlapped
  BY DEF TypeOK, Complete, taps
<1>2. n \in Nat /\ n >= 1
  BY <1>1
<1>3. /\ animating' \in Seq(Tabs) /\ Len(animating') = n - 1
      /\ \A k \in 1..(n - 1) : animating'[k] = animating[k + 1]
  BY <1>1
<1>4. animating[n] \in highlighted
  BY <1>1 DEF LightInv, LitInv
<1>5. animating' = <<>> => selectedIndex' = animating[n]
  BY <1>1, <1>2, <1>3
<1>6. animating' # <<>> => animating'[Len(animating')] = animating[n]
  <2> SUFFICES ASSUME animating' # <<>> PROVE animating'[Len(animating')] = animating[n]
    OBVIOUS
  <2>1. Len(animating') # 0
    BY <1>3
  <2> HIDE DEF n
  <2>2. n - 1 \in 1..(n - 1) /\ (n - 1) + 1 = n
    BY <1>2, <1>3, <2>1
  <2> QED
    BY <1>3, <2>2
<1> HIDE DEF n
<1>7. LitInv'
  BY <1>1, <1>4, <1>5, <1>6 DEF LightInv, LitInv, IsSwitch
<1>8. SoleInv'
  <2> SUFFICES ASSUME ~overlapped PROVE SoleInv'
    BY <1>1 DEF SoleInv
  <2>1. Len(animating) = 1 /\ highlighted = {animating[1]}
    BY <1>1 DEF LightInv, SoleInv
  <2>2. animating' = <<>>
    BY <1>3, <2>1 DEF n
  <2>3. \A k \in DOMAIN mainQueue : ~IsSwitch(k)
    BY <1>1 DEF LightInv, SoleInv
  <2> QED
    BY <1>1, <2>1, <2>2, <2>3 DEF SoleInv, IsSwitch
<1> QED
  BY <1>7, <1>8 DEF LightInv

LEMMA NextLight == TypeOK /\ LastInv /\ LightInv /\ [Next]_vars => LightInv'
<1> SUFFICES ASSUME TypeOK, LastInv, LightInv, [Next]_vars PROVE LightInv'
  OBVIOUS
<1>1. ASSUME NEW t \in Tabs, Tap(t) PROVE LightInv'
  BY <1>1, TapLight
<1>2. ASSUME NEW t \in Tabs, Back(t) PROVE LightInv'
  BY <1>2, BackAlike, AlikeQueueLight DEF Back, taps
<1>3. CASE TapActive \/ OpenRecord \/ UNCHANGED vars
  BY <1>3, SameQueueLight DEF TapActive, OpenRecord, vars, taps
<1>4. CASE Complete
  BY <1>4, CompleteLight
<1>5. CASE Animate
  BY <1>5, AnimateLight
<1>6. CASE PushEnrolment
  <2>1. UNCHANGED barVars /\ overlapped' = overlapped
    BY <1>6 DEF PushEnrolment, taps
  <2> QED
    BY <1>6, <2>1, PushAlike, ServeLight
<1>7. CASE PopEnrolment
  <2>1. UNCHANGED barVars /\ overlapped' = overlapped
    BY <1>7 DEF PopEnrolment, taps
  <2> QED
    BY <1>7, <2>1, PopAlike, ServeLight
<1>8. CASE FaceIsRight
  <2>1. UNCHANGED barVars /\ overlapped' = overlapped /\ Post([kind |-> "push"])
    BY <1>8 DEF FaceIsRight, taps
  <2> QED
    BY <2>1, PostLight
<1>9. CASE Enrol
  <2>1. /\ UNCHANGED barVars /\ overlapped' = overlapped
        /\ Post([kind |-> "pop", level |-> Level(Settings)])
    BY <1>9 DEF Enrol, taps
  <2> QED
    BY <2>1, PostLight
<1>10. CASE SwitchToArtHome
  BY <1>10 DEF SwitchToArtHome, LightInv, LitInv, SoleInv
<1> QED
  BY <1>1, <1>2, <1>3, <1>4, <1>5, <1>6, <1>7, <1>8, <1>9, <1>10 DEF Next, Serve

\* When no switch is in flight, the icon of the selected tab is highlighted; and it is
\* the only one as long as switchTab was never called while a switch was under way.
THEOREM HighlightIsSound == Spec => []HighlightSound
<1>1. Init => LastInv /\ LightInv
  BY DEF Init, LastInv, QueuedSwitch, LightInv, LitInv, SoleInv
<1>2. LightInv => HighlightSound
  BY DEF LightInv, LitInv, SoleInv, HighlightSound, Switching
<1> QED
  BY <1>1, <1>2, NextLast, NextLight, TypeCorrect, PTL DEF Spec
=============================================================================
