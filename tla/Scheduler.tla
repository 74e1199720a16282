------------------------------- MODULE Scheduler -------------------------------
(***************************************************************************)
(* The scheduler of XnLib: one thread that calls the callbacks of the      *)
(* tasks in a linked list, each of which has an interval and a next time.  *)
(* Clients add, remove and reschedule tasks under a critical section and   *)
(* wake the thread with an auto-reset event after they have left it, so    *)
(* what the critical section holds together is one step here and what it   *)
(* does not is a step of its own.  Times are relative to now: due[t] is    *)
(* nNextTime - nNow of the code, and a Tick takes one off all of them.     *)
(***************************************************************************)
EXTENDS Integers, Sequences, FiniteSets, SequencesExt

CONSTANTS
    Tasks,
    Clients,    \* how many threads call the scheduler
    Intervals,  \* the values of nInterval
    Late,       \* bound: time stops when the thread is so late for the head,
                \* or a client that adds a task with the time it has read
    Infinite    \* XN_WAIT_INFINITE

ASSUME SchedulerAssumption ==
    /\ IsFiniteSet(Tasks)
    /\ Intervals \subseteq Nat \ {0}
    /\ \E i \in Intervals : \A j \in Intervals : j =< i
    /\ {Clients, Late} \subseteq Nat \ {0}
    /\ Infinite \notin Int

VARIABLES
    list,       \* pFirst and the tasks that follow it
    due,        \* nNextTime of each task, relative to now
    interval,   \* nInterval of each task
    op,         \* how far the client of a task is with what it does to it
    tpc,        \* where the thread is
    running,    \* the tasks whose callback was taken last, if any
    wait,       \* nWait, what is left of it
    event,      \* hWakeThreadEvent is signalled
    phase       \* of the scheduler: "stop" is bStopThread, "join" the wait for
                \* the thread to exit

tasks  == <<list, due, interval, op>>
thread == <<tpc, running, wait>>
vars   == <<tasks, thread, event, phase>>

TypeOK ==
    /\ list \in Seq(Tasks)
    /\ due \in [Tasks -> Int]
    /\ interval \in [Tasks -> Intervals \cup {0}]
    /\ op \in [Tasks -> {"none", "adding", "linked", "signal", "removed"}]
    /\ tpc \in {"off", "check", "locked", "call", "wait", "done", "killed"}
    /\ running \subseteq Tasks
    /\ wait \in Nat \cup {Infinite}
    /\ event \in BOOLEAN
    /\ phase \in {"down", "up", "stop", "join"}

Init ==
    /\ list = << >>
    /\ due = [t \in Tasks |-> 0]
    /\ interval = [t \in Tasks |-> 0]
    /\ op = [t \in Tasks |-> "none"]
    /\ tpc = "off"
    /\ running = {}
    /\ wait = 0
    /\ event = FALSE
    /\ phase = "down"

-----------------------------------------------------------------------------
\* mutant: a task is always linked in front
PlaceMutant(d, t, others) == 1

\* Where xnSchedulerAddTaskInternal links a task with the next times d: in
\* front of a later head, else behind the first task that is not earlier or
\* is the last.
Place(d, t, others) ==
    IF others = << >> \/ d[others[1]] > d[t] THEN 1
    ELSE 1 + CHOOSE k \in DOMAIN others :
               /\ k = Len(others) \/ d[others[k]] >= d[t]
               /\ \A j \in 1 .. k - 1 : d[others[j]] < d[t]

Linked(d, t, others) == InsertAt(others, Place(d, t, others), t)

UnlinkedMutant(t) == list       \* mutant: a task is linked a second time

Unlinked(t) == RemoveAt(list, CHOOSE k \in DOMAIN list : list[k] = t)

WokenMutant == event            \* mutant: the thread is not woken

Woken == TRUE

Advance(t, stage) == op' = [op EXCEPT ![t] = stage]

InCall == {t \in Tasks : op[t] \notin {"none", "linked"}}

Enter == phase = "up" /\ Cardinality(InCall) < Clients

\* xnSchedulerAddTask reads the time before it enters the critical section.
Add(t, i) ==
    /\ Enter
    /\ op[t] = "none"
    /\ Advance(t, "adding")
    /\ interval' = [interval EXCEPT ![t] = i]
    /\ due' = [due EXCEPT ![t] = i]
    /\ UNCHANGED <<list, thread, event, phase>>

Link(t) ==
    /\ op[t] = "adding"
    /\ Advance(t, "signal")
    /\ list' = Linked(due, t, list)
    /\ UNCHANGED <<due, interval, thread, event, phase>>

Reschedule(t, i) ==
    /\ Enter
    /\ op[t] = "linked"
    /\ Advance(t, "signal")
    /\ interval' = [interval EXCEPT ![t] = i]
    /\ due' = [due EXCEPT ![t] = i]
    /\ list' = Linked(due', t, Unlinked(t))
    /\ UNCHANGED <<thread, event, phase>>

RemoveTask(t) ==
    /\ Enter
    /\ op[t] = "linked"
    /\ Advance(t, "removed")
    /\ list' = Unlinked(t)
    /\ due' = [due EXCEPT ![t] = 0]
    /\ interval' = [interval EXCEPT ![t] = 0]
    /\ UNCHANGED <<thread, event, phase>>

\* The end of all three: the event, and the release of a removed task.
Signal(t) ==
    /\ op[t] \in {"signal", "removed"}
    /\ event' = Woken
    /\ Advance(t, IF op[t] = "signal" THEN "linked" ELSE "none")
    /\ UNCHANGED <<list, due, interval, thread, phase>>

-----------------------------------------------------------------------------
\* xnSchedulerThreadFunc.  The head of the list is looked at a first time
\* without the critical section.
Check ==
    /\ tpc = "check"
    /\ IF phase \in {"stop", "join"} THEN tpc' = "done" /\ wait' = 0
       ELSE IF list = << >> THEN tpc' = "wait" /\ wait' = Infinite
       ELSE tpc' = "locked" /\ wait' = 0
    /\ UNCHANGED <<tasks, running, event, phase>>

OverdueMutant(t) == due[t] < -1     \* mutant: nNextTime + 1 < nNow

Overdue(t) == due[t] < 0

\* In the critical section: take the callback of an overdue head and link it
\* again an interval later, or find out how long to wait for it.
Look ==
    /\ tpc = "locked"
    /\ IF list = << >>
       THEN /\ tpc' = "wait" /\ wait' = Infinite
            /\ UNCHANGED <<list, due, running>>
       ELSE LET t == Head(list)
            IN  IF Overdue(t)
                THEN /\ due' = [due EXCEPT ![t] = @ + interval[t]]
                     /\ list' = Linked(due', t, Tail(list))
                     /\ running' = {t}
                     /\ tpc' = "call"
                     /\ wait' = 0
                ELSE /\ tpc' = "wait"
                     /\ wait' = due[t]
                     /\ UNCHANGED <<list, due, running>>
    /\ UNCHANGED <<interval, op, event, phase>>

PauseMutant == Infinite     \* mutant: waits for a change after a callback

Pause == 0

\* The callback, called outside of the critical section, returns.
Return ==
    /\ tpc = "call"
    /\ tpc' = "wait"
    /\ wait' = Pause
    /\ running' = {}
    /\ UNCHANGED <<tasks, event, phase>>

\* xnOSWaitEvent on an event that resets itself, with or without a timeout.
Wake ==
    /\ tpc = "wait"
    /\ event \/ wait = 0
    /\ event' = FALSE
    /\ tpc' = "check"
    /\ wait' = 0
    /\ UNCHANGED <<tasks, running, phase>>

Loop == Check \/ Look \/ Return \/ Wake

-----------------------------------------------------------------------------
Start ==
    /\ phase = "down"
    /\ phase' = "up"
    /\ tpc' = "check"
    /\ event' = FALSE
    /\ UNCHANGED <<tasks, running, wait>>

\* xnSchedulerShutdown; no client is in the middle of a call.
Shutdown ==
    /\ phase = "up"
    /\ InCall = {}
    /\ phase' = "stop"
    /\ UNCHANGED <<tasks, thread, event>>

WakeToStop ==
    /\ phase = "stop"
    /\ phase' = "join"
    /\ event' = Woken
    /\ UNCHANGED <<tasks, thread>>

\* xnOSWaitAndTerminateThread kills a thread that is not done in a second,
\* which a callback may well take.
Kill ==
    /\ phase = "join"
    /\ tpc # "killed" /\ tpc # "done"
    /\ tpc' = "killed"
    /\ running' = {}
    /\ wait' = 0
    /\ UNCHANGED <<tasks, event, phase>>

\* The event and the critical section are closed, the tasks released.
Free ==
    /\ phase = "join"
    /\ tpc \in {"done", "killed"}
    /\ phase' = "down"
    /\ tpc' = "off"
    /\ list' = << >>
    /\ op' = [t \in Tasks |-> "none"]
    /\ due' = [t \in Tasks |-> 0]
    /\ interval' = due'
    /\ UNCHANGED <<running, wait, event>>

\* A millisecond passes, unless the bound is reached.
Exists(t) == op[t] \in {"adding", "linked", "signal"}

Tick ==
    /\ phase # "down"
    /\ list # << >> => due[Head(list)] > -Late
    /\ \A t \in Tasks : op[t] = "adding" => due[t] > -Late
    /\ due' = [t \in Tasks |-> IF Exists(t) THEN due[t] - 1 ELSE 0]
    /\ wait' = IF tpc = "wait" /\ wait \notin {0, Infinite} THEN wait - 1 ELSE wait
    /\ UNCHANGED <<list, interval, op, tpc, running, event, phase>>

Next ==
    \/ Start \/ Shutdown \/ WakeToStop \/ Kill \/ Free \/ Tick \/ Loop
    \/ \E t \in Tasks : \/ Link(t) \/ RemoveTask(t) \/ Signal(t)
                        \/ \E i \in Intervals : Add(t, i) \/ Reschedule(t, i)

Spec == Init /\ [][Next]_vars

\* The thread runs and its callbacks return, time passes, and a client that has
\* begun a call ends it.  Nobody has to kill the thread.
FairSpec ==
    /\ Spec
    /\ WF_vars(Loop) /\ WF_vars(Tick) /\ WF_vars(WakeToStop)
    /\ \A t \in Tasks : WF_vars(Link(t) \/ Signal(t))

-----------------------------------------------------------------------------
\* The tasks that the clients have added and not removed are in the list, once
\* each, and no released one is: the thread and the clients relink tasks in the
\* same list.
NoTaskLost ==
    /\ IsInjective(list)
    /\ ToSet(list) = {t \in Tasks : op[t] \in {"linked", "signal"}}

\* A thread that waits without a wake-up on its way waits for the head of the
\* list, and so not longer than its interval, and not for ever.  The list may
\* change after the thread has left the critical section and before it waits,
\* and again while it waits.
WakeUpIsComing ==
    /\ tpc = "wait" /\ ~event /\ list # << >>
    /\ \A t \in Tasks : op[t] \in {"none", "adding", "linked"}
    => wait # Infinite /\ wait =< interval[Head(list)]

Longest == CHOOSE i \in Intervals : \A j \in Intervals : j =< i

\* However far the list gets out of order, it delays a task by no more than an
\* interval of each other one, and the thread is late for each of them.
DelayIsBounded ==
    \A t \in Tasks :
        due[t] >= -Late - (Cardinality(Tasks) - 1) * (Longest + Late)

\* A task that stays is called again and again, whatever is added, removed and
\* rescheduled around it, although the list is not kept in order.
TaskRuns ==
    \A t \in Tasks :
        <>[](op[t] = "linked" /\ phase = "up") => []<>(running = {t})

\* A thread that is told to stop does so by itself, from any kind of wait.
StopEndsThread == (phase = "join") ~> (tpc \in {"done", "killed", "off"})
=============================================================================
