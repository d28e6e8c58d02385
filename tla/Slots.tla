------------------------------- MODULE Slots --------------------------------
(***************************************************************************)
(* What a screen may count on when it hands the loading of a picture to    *)
(* its queue, whatever the threads do: a job waits, gets one of Capacity   *)
(* slots, and leaves it either done, with its picture, or never.  Only a   *)
(* job that was cancelled while it waited is done without a picture, and   *)
(* that one never held a slot.  A job that is stuck keeps its slot: there  *)
(* is no action that takes one away.  ImageLoading implements this.        *)
(***************************************************************************)
EXTENDS Naturals, FiniteSets

CONSTANTS
    Jobs,       \* jobs; each is added at most once
    Capacity    \* slots of the queue

VARIABLES
    phase,      \* where a job is
    cancelled,  \* jobs that were cancelled, in time or too late
    loaded      \* jobs that have their picture

vars == <<phase, cancelled, loaded>>

\* The jobs that hold a slot.
Held == {j \in Jobs : phase[j] \in {"running", "stuck"}}

Room == Cardinality(Held) < Capacity

TypeOK ==
    /\ phase \in [Jobs -> {"new", "waiting", "running", "stuck", "done"}]
    /\ cancelled \subseteq Jobs
    /\ loaded \subseteq Jobs

Init ==
    /\ phase = [j \in Jobs |-> "new"]
    /\ cancelled = {}
    /\ loaded = {}

\* Jobs join the queue, one or several at once.
Add(J) ==
    /\ \A j \in J : phase[j] = "new"
    /\ phase' = [j \in Jobs |-> IF j \in J THEN "waiting" ELSE phase[j]]
    /\ UNCHANGED <<cancelled, loaded>>

\* A cancel stops nothing by itself: it is a mark on the job.
Cancel(J) ==
    /\ \A j \in J : phase[j] # "new"
    /\ cancelled' = cancelled \cup J
    /\ UNCHANGED <<phase, loaded>>

\* The queue comes to a waiting job, which runs ...
Start(j) ==
    /\ phase[j] = "waiting"
    /\ Room
    /\ j \notin cancelled
    /\ phase' = [phase EXCEPT ![j] = "running"]
    /\ UNCHANGED <<cancelled, loaded>>

\* ... or, cancelled in time, is over at once.
Skip(j) ==
    /\ phase[j] = "waiting"
    /\ Room
    /\ j \in cancelled
    /\ phase' = [phase EXCEPT ![j] = "done"]
    /\ UNCHANGED <<cancelled, loaded>>

Load(j) ==
    /\ phase[j] = "running"
    /\ j \notin loaded
    /\ loaded' = loaded \cup {j}
    /\ UNCHANGED <<phase, cancelled>>

Finish(j) ==
    /\ phase[j] = "running"
    /\ j \in loaded
    /\ phase' = [phase EXCEPT ![j] = "done"]
    /\ UNCHANGED <<cancelled, loaded>>

\* The queue will never hear that the job is over: it failed or was cancelled
\* too late, both before it had its picture, or its news were overwritten.
Stick(j) ==
    /\ phase[j] = "running"
    /\ phase' = [phase EXCEPT ![j] = "stuck"]
    /\ UNCHANGED <<cancelled, loaded>>

Next ==
    \/ \E J \in SUBSET Jobs : Add(J) \/ Cancel(J)
    \/ \E j \in Jobs : Start(j) \/ Skip(j) \/ Load(j) \/ Finish(j) \/ Stick(j)

Spec == Init /\ [][Next]_vars
=============================================================================
