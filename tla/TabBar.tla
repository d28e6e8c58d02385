------------------------------- MODULE TabBar -------------------------------
(***************************************************************************)
(* The tabs: BaseTabBarController, its CustomTabBar, the screens pushed    *)
(* onto the tabs, and the flag hideTabBarController by which a screen that *)
(* disappears hides or shows the bar.  A tap reads activeItem at once, but *)
(* the tab is selected, and activeItem assigned, only when the animation   *)
(* has ended; meanwhile the user goes on, and closures that push or pop a  *)
(* screen wait on the same main queue.                                     *)
(***************************************************************************)
EXTENDS Naturals, Sequences

CONSTANTS
    Tabs,       \* the tabs
    Home,       \* the one whose root pushes record screens
    Settings,   \* the one whose root pushes enrolment screens
    MaxPosted   \* bound: closures that wait and switches that are animated

ASSUME TabsAssumption == Home \in Tabs /\ Settings \in Tabs /\ Home # Settings
ASSUME BoundAssumption == MaxPosted \in Nat

VARIABLES
    activeItem,     \* CustomTabBar.activeItem
    selectedIndex,  \* UITabBarController.selectedIndex
    highlighted,    \* tabs whose icon is highlighted
    animating,      \* switches under way, in the order they were started
    mainQueue,      \* closures waiting on the main queue
    stack,          \* per tab: hideTabBarController of its screens, the root first
    hidden,         \* customTabBar.isHidden
    lastTap,        \* history: the tab tapped last
    dropped,        \* history: that tap was ignored while a switch was under way
    overlapped,     \* history: two switches were under way at once
    raced           \* history: a screen was left, pushed or popped out of turn

barVars == <<activeItem, selectedIndex, highlighted, animating>>
taps    == <<lastTap, dropped, overlapped>>
vars    == <<barVars, mainQueue, stack, hidden, taps, raced>>

Flags    == {"nil", "hide", "show"}
Closures == [kind : {"switch"}, from : Tabs, to : Tabs]
            \cup [kind : {"push"}]
            \cup [kind : {"pop"}, level : Nat]    \* 0 if its screen was popped

TypeOK ==
    /\ activeItem \in Tabs
    /\ selectedIndex \in Tabs
    /\ highlighted \subseteq Tabs
    /\ animating \in Seq(Tabs)
    /\ mainQueue \in Seq(Closures)
    /\ stack \in [Tabs -> Seq(Flags) \ {<<>>}]
    /\ hidden \in BOOLEAN
    /\ lastTap \in Tabs
    /\ dropped \in BOOLEAN
    /\ overlapped \in BOOLEAN
    /\ raced \in BOOLEAN

Init ==
    /\ activeItem = Home
    /\ selectedIndex = Home
    /\ highlighted = {Home}
    /\ animating = <<>>
    /\ mainQueue = <<>>
    /\ stack = [t \in Tabs |-> <<"nil">>]
    /\ hidden = FALSE
    /\ lastTap = Home
    /\ dropped = FALSE
    /\ overlapped = FALSE
    /\ raced = FALSE

Switching == animating # <<>> \/ \E k \in DOMAIN mainQueue : mainQueue[k].kind = "switch"

Post(c) ==
    /\ Len(mainQueue) + Len(animating) < MaxPosted
    /\ mainQueue' = Append(mainQueue, c)

Next1(kind) == mainQueue # <<>> /\ Head(mainQueue).kind = kind

-----------------------------------------------------------------------------
(***************************************************************************)
(* The flag of the screen on top.                                          *)
(***************************************************************************)
Level(t) == Len(stack[t])

\* hideBottomTabBarController of a screen with flag f.
Applied(f) == IF f = "nil" THEN hidden ELSE f = "hide"

\* The screens s of a tab, after the top one has disappeared and applied its flag.
Left(s) == [s EXCEPT ![Len(s)] = "nil"]

-----------------------------------------------------------------------------
(***************************************************************************)
(* Taps on the bar: handleTap and switchTab.                               *)
(***************************************************************************)

\* Fault: the tab that is active can be tapped again.
TapAny(t) ==
    /\ ~hidden
    /\ Post([kind |-> "switch", from |-> activeItem, to |-> t])
    /\ lastTap' = t
    /\ dropped' = FALSE
    /\ overlapped' = (overlapped \/ Switching)
    /\ UNCHANGED <<barVars, stack, hidden, raced>>

Tap(t) ==
    /\ ~hidden
    /\ activeItem # t
    /\ Post([kind |-> "switch", from |-> activeItem, to |-> t])
    /\ lastTap' = t
    /\ dropped' = FALSE
    /\ overlapped' = (overlapped \/ Switching)
    /\ UNCHANGED <<barVars, stack, hidden, raced>>

\* The guard from != to: a tap on the tab that is active, or still is.
TapActive ==
    /\ ~hidden
    /\ lastTap' = activeItem
    /\ dropped' = Switching
    /\ UNCHANGED <<barVars, mainQueue, stack, hidden, overlapped, raced>>

\* Fault: a switch is not animated while another one is.
AnimateOver ==
    /\ Next1("switch")
    /\ mainQueue' = Tail(mainQueue)
    /\ highlighted' = (highlighted \cup {Head(mainQueue).to}) \ {Head(mainQueue).from}
    /\ animating' = IF animating = <<>> THEN <<Head(mainQueue).to>> ELSE animating
    /\ UNCHANGED <<activeItem, selectedIndex, stack, hidden, taps, raced>>

Animate ==
    /\ Next1("switch")
    /\ mainQueue' = Tail(mainQueue)
    /\ highlighted' = (highlighted \cup {Head(mainQueue).to}) \ {Head(mainQueue).from}
    /\ animating' = Append(animating, Head(mainQueue).to)
    /\ UNCHANGED <<activeItem, selectedIndex, stack, hidden, taps, raced>>

\* Fault: the latest switch ends first.
CompleteLast ==
    /\ animating # <<>>
    /\ LET to == animating[Len(animating)]
       IN  /\ animating' = SubSeq(animating, 1, Len(animating) - 1)
           /\ selectedIndex' = to
           /\ activeItem' = to
           /\ IF to = selectedIndex
              THEN UNCHANGED <<stack, hidden, raced>>
              ELSE /\ hidden' = Applied(stack[selectedIndex][Level(selectedIndex)])
                   /\ stack' = [stack EXCEPT ![selectedIndex] = Left(@)]
                   /\ raced' = (raced \/ Level(selectedIndex) > 1)
    /\ UNCHANGED <<highlighted, mainQueue, taps>>

\* The completion: changeTab selects the tab, and the screen on top of the old one
\* disappears.  Animations have one duration and end in order.
Complete ==
    /\ animating # <<>>
    /\ animating' = Tail(animating)
    /\ selectedIndex' = Head(animating)
    /\ activeItem' = Head(animating)
    /\ IF Head(animating) = selectedIndex
       THEN UNCHANGED <<stack, hidden, raced>>
       ELSE /\ hidden' = Applied(stack[selectedIndex][Level(selectedIndex)])
            /\ stack' = [stack EXCEPT ![selectedIndex] = Left(@)]
            /\ raced' = (raced \/ Level(selectedIndex) > 1)
    /\ UNCHANGED <<highlighted, mainQueue, taps>>

-----------------------------------------------------------------------------
(***************************************************************************)
(* Screens that are pushed and popped.                                     *)
(***************************************************************************)

\* A picture of the home screen is tapped.
OpenRecord ==
    /\ selectedIndex = Home
    /\ Level(Home) = 1
    /\ stack' = [stack EXCEPT ![Home] = <<"nil", "nil">>]
    /\ hidden' = TRUE
    /\ UNCHANGED <<barVars, mainQueue, taps, raced>>

\* The right face while the settings are displayed: the observer posts a closure.
FaceIsRight ==
    /\ selectedIndex = Settings
    /\ Level(Settings) = 1
    /\ Post([kind |-> "push"])
    /\ UNCHANGED <<barVars, stack, hidden, taps, raced>>

\* The closure: the flag of the settings is set and an enrolment screen pushed,
\* whatever is on display by now.
PushEnrolment ==
    /\ Next1("push")
    /\ mainQueue' = Tail(mainQueue)
    /\ LET s == [stack[Settings] EXCEPT ![1] = "hide"]
       IN  IF selectedIndex = Settings
           THEN /\ hidden' = Applied(s[Len(s)])
                /\ stack' = [stack EXCEPT ![Settings] = Append(Left(s), "nil")]
           ELSE /\ stack' = [stack EXCEPT ![Settings] = Append(s, "nil")]
                /\ UNCHANGED hidden
    /\ raced' = (raced \/ selectedIndex # Settings \/ Level(Settings) > 1)
    /\ UNCHANGED <<barVars, taps>>

\* The closures q after the screen at level n of the settings was popped.
Orphaned(q, n) ==
    [k \in DOMAIN q |-> IF q[k].kind = "pop" /\ q[k].level = n
                        THEN [kind |-> "pop", level |-> 0] ELSE q[k]]

\* Fault: the bar is not shown again.
BackQuietly(t) ==
    /\ selectedIndex = t
    /\ Level(t) > 1
    /\ stack' = [stack EXCEPT ![t] = SubSeq(@, 1, Len(@) - 1)]
    /\ mainQueue' = IF t = Settings THEN Orphaned(mainQueue, Level(t)) ELSE mainQueue
    /\ UNCHANGED <<barVars, hidden, taps, raced>>

\* The back button of a record or enrolment screen.
Back(t) ==
    /\ selectedIndex = t
    /\ Level(t) > 1
    /\ stack' = [stack EXCEPT ![t] = SubSeq(@, 1, Len(@) - 1)]
    /\ hidden' = FALSE
    /\ mainQueue' = IF t = Settings THEN Orphaned(mainQueue, Level(t)) ELSE mainQueue
    /\ UNCHANGED <<barVars, taps, raced>>

\* The enrol button, with a password that is saved: the observer posts a closure.
Enrol ==
    /\ selectedIndex = Settings
    /\ Level(Settings) > 1
    /\ Post([kind |-> "pop", level |-> Level(Settings)])
    /\ UNCHANGED <<barVars, stack, hidden, taps, raced>>

\* The closure sets the flag of its own screen, and pops the one on top if its own
\* is still there.  It holds its screen unowned: if the screen has been released as
\* well as popped, the process ends, and comes back as SwitchToArtHome has it.
PopEnrolment ==
    /\ Next1("pop")
    /\ LET own == Head(mainQueue).level
           top == Level(Settings)
           s   == [stack[Settings] EXCEPT ![own] = "show"]
       IN  IF own \in 2..top
           THEN /\ mainQueue' = Orphaned(Tail(mainQueue), top)
                /\ stack' = [stack EXCEPT ![Settings] = SubSeq(s, 1, top - 1)]
                /\ hidden' = IF selectedIndex = Settings THEN Applied(s[top]) ELSE hidden
                /\ raced' = (raced \/ selectedIndex # Settings \/ own < top)
           ELSE /\ mainQueue' = Tail(mainQueue)
                /\ UNCHANGED <<stack, hidden, raced>>
    /\ UNCHANGED <<barVars, taps>>

\* The session ends (a shake, expiry, a log-out) and somebody logs in again, or the
\* process ends and is launched again: there is a new tab bar, and what was posted works
\* on the old one.
SwitchToArtHome ==
    /\ activeItem' = Home
    /\ selectedIndex' = Home
    /\ highlighted' = {Home}
    /\ animating' = <<>>
    /\ mainQueue' = <<>>
    /\ stack' = [t \in Tabs |-> <<"nil">>]
    /\ hidden' = FALSE
    /\ lastTap' = Home
    /\ dropped' = FALSE
    /\ overlapped' = FALSE
    /\ raced' = FALSE

-----------------------------------------------------------------------------
Serve == Animate \/ PushEnrolment \/ PopEnrolment

Next ==
    \/ TapActive \/ Complete \/ Serve
    \/ OpenRecord \/ FaceIsRight \/ Enrol \/ SwitchToArtHome
    \/ \E t \in Tabs : Tap(t) \/ Back(t)

Spec == Init /\ [][Next]_vars

\* The main queue is served and animations end.
FairSpec == Spec /\ WF_vars(Serve) /\ WF_vars(Complete)

-----------------------------------------------------------------------------
(***************************************************************************)
(* Properties.                                                             *)
(***************************************************************************)

\* A root screen without the tab bar, from which no button leads away.
Stranded == hidden /\ Level(selectedIndex) = 1

\* The user is stranded only after a switch of tabs overtook a pushed screen, or a
\* closure pushed or popped one that was not on display.
StrandedOnlyByRace == Stranded => raced

\* When all switches have ended, the icon of the selected tab is highlighted, and it
\* is the only one unless switches overlapped.
HighlightSound ==
    ~Switching =>
        /\ selectedIndex \in highlighted
        /\ highlighted # {selectedIndex} => overlapped

\* When all switches have ended, the tab tapped last is selected, unless that tap came
\* back to the tab that was still active and was ignored.
LastTapWins == ~Switching => selectedIndex = lastTap \/ dropped

\* The bar as a log-in leaves it, or taps that came back to it.
AtHome == ~Switching /\ selectedIndex = Home /\ lastTap = Home

\* Every tap that is not ignored selects its tab, if only for a moment, unless a new
\* log-in replaces the bar.
TapIsServed ==
    \A t \in Tabs :
        (\E k \in DOMAIN mainQueue : mainQueue[k].kind = "switch" /\ mainQueue[k].to = t)
            ~> (selectedIndex = t \/ AtHome)
=============================================================================
