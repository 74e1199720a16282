---------------------------- MODULE SchedulerProofs ----------------------------
(***************************************************************************)
(* The list of the scheduler holds the tasks it should, a thread that      *)
(* waits is going to be woken in time, and a list out of order delays      *)
(* nobody by more than an interval of each other task, for any tasks, any  *)
(* number of clients and any intervals.                                    *)
(***************************************************************************)
EXTENDS Scheduler, SequenceLemmas, FiniteSetTheorems

\* A task is due within its interval: the wait for the head is computed from
\* the one and promised in terms of the other.
DueWithinInterval == \A t \in Tasks : Exists(t) => due[t] =< interval[t]

IInv ==
    /\ TypeOK
    /\ NoTaskLost
    /\ DueWithinInterval
    /\ WakeUpIsComing

-----------------------------------------------------------------------------
LEMMA IntervalsAreNat ==
    /\ \A i \in Intervals : i \in Nat
    /\ Infinite \notin Int
  BY SchedulerAssumption

\* Where a task is linked: in front of a later head, behind a task that is not
\* earlier, or at the end.
LEMMA PlaceIs ==
    ASSUME NEW d \in [Tasks -> Int], NEW t \in Tasks, NEW others \in Seq(Tasks)
    PROVE  /\ Place(d, t, others) \in 1 .. Len(others) + 1
           /\ others # << >> =>
                 \/ Place(d, t, others) = 1 /\ d[others[1]] > d[t]
                 \/ /\ Place(d, t, others) # 1 /\ ~(d[others[1]] > d[t])
                    /\ \/ Place(d, t, others) = Len(others) + 1
                       \/ d[others[Place(d, t, others) - 1]] >= d[t]
<1>1. Len(others) \in Nat /\ DOMAIN others = 1 .. Len(others)
  BY LenProperties
<1>2. CASE others = << >> \/ d[others[1]] > d[t]
  BY <1>1, <1>2 DEF Place
<1>3. CASE ~(others = << >> \/ d[others[1]] > d[t])
  <2> DEFINE stops == {k \in DOMAIN others : k = Len(others) \/ d[others[k]] >= d[t]}
             isPlace(k) == /\ k = Len(others) \/ d[others[k]] >= d[t]
                           /\ \A j \in 1 .. k - 1 : d[others[j]] < d[t]
             chosen == CHOOSE k \in DOMAIN others : isPlace(k)
  <2>1. Len(others) \in stops /\ stops \subseteq Nat
    BY <1>1, <1>3, EmptySeq
  <2>2. PICK m \in stops : \A n \in stops : m =< n
    BY <2>1, HasLeast
  <2>3. \A j \in 1 .. m - 1 : d[others[j]] < d[t]
    <3> TAKE j \in 1 .. m - 1
    <3>1. j \in DOMAIN others /\ ~(m =< j)
      BY <1>1, <2>2
    <3>2. ~(d[others[j]] >= d[t])
      BY <2>2, <3>1
    <3>3. d[others[j]] \in Int /\ d[t] \in Int
      BY <1>1, <3>1, ElementOfSeq
    <3> QED  BY <3>2, <3>3
  <2>4. \E k \in DOMAIN others : isPlace(k)
    BY <2>2, <2>3
  <2> HIDE DEF isPlace
  <2>5. chosen \in DOMAIN others /\ isPlace(chosen)
    BY <2>4
  <2>6. Place(d, t, others) = 1 + chosen
    BY <1>3 DEF Place, isPlace
  <2>7. chosen = Len(others) \/ d[others[chosen]] >= d[t]
    BY <2>5 DEF isPlace
  <2> HIDE DEF chosen
  <2>8. /\ 1 + chosen \in 1 .. Len(others) + 1 /\ 1 + chosen # 1
        /\ (1 + chosen) - 1 = chosen /\ (chosen = Len(others) => 1 + chosen = Len(others) + 1)
    BY <1>1, <2>5
  <2> QED  BY <1>3, <2>6, <2>7, <2>8
<1> QED  BY <1>2, <1>3

\* The insertion links the task somewhere in the list, and only there.
LEMMA LinkedList ==
    ASSUME NEW d \in [Tasks -> Int], NEW t \in Tasks, NEW others \in Seq(Tasks),
           IsInjective(others), t \notin ToSet(others)
    PROVE  /\ Linked(d, t, others) \in Seq(Tasks)
           /\ IsInjective(Linked(d, t, others))
           /\ ToSet(Linked(d, t, others)) = ToSet(others) \cup {t}
<1>1. Place(d, t, others) \in 1 .. Len(others) + 1
  BY PlaceIs
<1> QED  BY <1>1, InsertAtSet DEF Linked

LEMMA UnlinkedList ==
    ASSUME TypeOK, NoTaskLost, NEW t \in ToSet(list)
    PROVE  /\ Unlinked(t) \in Seq(Tasks)
           /\ IsInjective(Unlinked(t))
           /\ ToSet(Unlinked(t)) = ToSet(list) \ {t}
<1>1. list \in Seq(Tasks) /\ IsInjective(list) /\ DOMAIN list = 1 .. Len(list)
  BY LenProperties DEF TypeOK, NoTaskLost
<1> DEFINE k == CHOOSE k \in DOMAIN list : list[k] = t
<1>2. k \in DOMAIN list /\ list[k] = t
  BY DEF ToSet
<1> HIDE DEF k
<1> QED  BY <1>1, <1>2, RemoveAtProperties, RemoveAtSet DEF Unlinked, k

LEMMA UnlinkedOrder ==
    ASSUME list \in Seq(Tasks), NEW t \in ToSet(list), NEW u, NEW v,
           Before(Unlinked(t), u, v)
    PROVE  Before(list, u, v)
<1> DEFINE k == CHOOSE k \in DOMAIN list : list[k] = t
<1>1. k \in DOMAIN list /\ DOMAIN list = 1 .. Len(list)
  BY LenProperties DEF ToSet
<1> HIDE DEF k
<1> QED  BY <1>1, RemoveAtOrder DEF Unlinked, k

\* The head of the list is in it.
LEMMA HeadIsLinked ==
    ASSUME TypeOK, NoTaskLost, list # << >>
    PROVE  /\ Head(list) \in ToSet(list) /\ Head(list) \in Tasks
           /\ op[Head(list)] \in {"linked", "signal"}
<1>1. Head(list) = list[1] /\ 1 \in DOMAIN list
  BY LenProperties, EmptySeq DEF TypeOK
<1>2. Head(list) \in ToSet(list)
  BY <1>1 DEF ToSet
<1> QED  BY <1>2 DEF NoTaskLost

-----------------------------------------------------------------------------
THEOREM Initial == Init => IInv
<1>1. ToSet(<< >>) = {} /\ IsInjective(<< >>) /\ << >> \in Seq(Tasks)
  BY DEF ToSet, IsInjective
<1> SUFFICES ASSUME Init PROVE IInv
  OBVIOUS
<1>2. TypeOK
  <2>1. /\ due \in [Tasks -> Int] /\ interval \in [Tasks -> Intervals \cup {0}]
        /\ op \in [Tasks -> {"none", "adding", "linked", "signal", "removed"}]
    BY DEF Init
  <2> QED  BY <1>1, <2>1 DEF Init, TypeOK
<1>3. NoTaskLost /\ DueWithinInterval /\ WakeUpIsComing
  BY <1>1 DEF Init, NoTaskLost, DueWithinInterval, Exists, WakeUpIsComing
<1> QED  BY <1>2, <1>3 DEF IInv

\* A client that begins a call, links its task, moves it or unlinks it.
LEMMA ClientStep ==
    ASSUME IInv, NEW t \in Tasks, NEW i \in Intervals,
           Add(t, i) \/ Link(t) \/ Reschedule(t, i) \/ RemoveTask(t)
    PROVE  IInv'
<1> USE DEF thread, Advance
<1>0. /\ TypeOK /\ NoTaskLost /\ DueWithinInterval /\ WakeUpIsComing
      /\ i \in Nat
  BY IntervalsAreNat DEF IInv
<1>1. CASE Add(t, i)
  <2>1. /\ op[t] = "none" /\ op' = [op EXCEPT ![t] = "adding"]
        /\ interval' = [interval EXCEPT ![t] = i]
        /\ due' = [due EXCEPT ![t] = i]
        /\ UNCHANGED <<list, tpc, running, wait, event, phase>>
    BY <1>1 DEF Add
  <2>2. TypeOK'
    BY <1>0, <2>1 DEF TypeOK
  <2>3. NoTaskLost'
    BY <1>0, <2>1 DEF NoTaskLost, TypeOK
  <2>4. DueWithinInterval'
    BY <1>0, <2>1 DEF DueWithinInterval, Exists, TypeOK
  <2>5. WakeUpIsComing'
    <3>1. list # << >> => Head(list) # t /\ interval'[Head(list)] = interval[Head(list)]
      BY <1>0, <2>1, HeadIsLinked DEF TypeOK
    <3>2. \A u \in Tasks : op'[u] \in {"none", "adding", "linked"}
                              => op[u] \in {"none", "adding", "linked"}
      BY <1>0, <2>1 DEF TypeOK
    <3> QED  BY <1>0, <2>1, <3>1, <3>2 DEF WakeUpIsComing
  <2> QED  BY <2>2, <2>3, <2>4, <2>5 DEF IInv
<1>2. CASE Link(t)
  <2>1. /\ op[t] = "adding" /\ op' = [op EXCEPT ![t] = "signal"]
        /\ list' = Linked(due, t, list)
        /\ UNCHANGED <<due, interval, tpc, running, wait, event, phase>>
    BY <1>2 DEF Link
  <2>2. t \notin ToSet(list)
    BY <1>0, <2>1 DEF NoTaskLost
  <2>3. /\ list' \in Seq(Tasks) /\ IsInjective(list')
        /\ ToSet(list') = ToSet(list) \cup {t}
    BY <1>0, <2>1, <2>2, LinkedList DEF TypeOK, NoTaskLost
  <2>4. TypeOK'
    BY <1>0, <2>1, <2>3 DEF TypeOK
  <2>5. NoTaskLost'
    BY <1>0, <2>1, <2>3 DEF NoTaskLost, TypeOK
  <2>6. DueWithinInterval'
    BY <1>0, <2>1 DEF DueWithinInterval, Exists, TypeOK
  <2>7. WakeUpIsComing'
    BY <1>0, <2>1 DEF WakeUpIsComing, TypeOK
  <2> QED  BY <2>4, <2>5, <2>6, <2>7 DEF IInv
<1>3. CASE Reschedule(t, i)
  <2>1. /\ op[t] = "linked" /\ op' = [op EXCEPT ![t] = "signal"]
        /\ interval' = [interval EXCEPT ![t] = i]
        /\ due' = [due EXCEPT ![t] = i]
        /\ list' = Linked(due', t, Unlinked(t))
        /\ UNCHANGED <<tpc, running, wait, event, phase>>
    BY <1>3 DEF Reschedule
  <2>2. t \in ToSet(list)
    BY <1>0, <2>1 DEF NoTaskLost
  <2>3. /\ Unlinked(t) \in Seq(Tasks) /\ IsInjective(Unlinked(t))
        /\ ToSet(Unlinked(t)) = ToSet(list) \ {t}
    BY <1>0, <2>2, UnlinkedList
  <2>4. due' \in [Tasks -> Int]
    BY <1>0, <2>1 DEF TypeOK
  <2>5. /\ list' \in Seq(Tasks) /\ IsInjective(list')
        /\ ToSet(list') = ToSet(list)
    <3>1. t \notin ToSet(Unlinked(t)) /\ (ToSet(list) \ {t}) \cup {t} = ToSet(list)
      BY <2>2, <2>3
    <3>2. /\ list' \in Seq(Tasks) /\ IsInjective(list')
          /\ ToSet(list') = ToSet(Unlinked(t)) \cup {t}
      BY <2>1, <2>3, <2>4, <3>1, LinkedList
    <3> QED  BY <2>3, <3>1, <3>2
  <2>6. TypeOK'
    BY <1>0, <2>1, <2>5 DEF TypeOK
  <2>7. NoTaskLost'
    BY <1>0, <2>1, <2>5 DEF NoTaskLost, TypeOK
  <2>8. DueWithinInterval'
    BY <1>0, <2>1 DEF DueWithinInterval, Exists, TypeOK
  <2>9. WakeUpIsComing'
    BY <1>0, <2>1 DEF WakeUpIsComing, TypeOK
  <2> QED  BY <2>6, <2>7, <2>8, <2>9 DEF IInv
<1>4. CASE RemoveTask(t)
  <2>1. /\ op[t] = "linked" /\ op' = [op EXCEPT ![t] = "removed"]
        /\ list' = Unlinked(t)
        /\ due' = [due EXCEPT ![t] = 0]
        /\ interval' = [interval EXCEPT ![t] = 0]
        /\ UNCHANGED <<tpc, running, wait, event, phase>>
    BY <1>4 DEF RemoveTask
  <2>2. t \in ToSet(list)
    BY <1>0, <2>1 DEF NoTaskLost
  <2>3. /\ list' \in Seq(Tasks) /\ IsInjective(list')
        /\ ToSet(list') = ToSet(list) \ {t}
    BY <1>0, <2>1, <2>2, UnlinkedList
  <2>4. TypeOK'
    BY <1>0, <2>1, <2>3 DEF TypeOK
  <2>5. NoTaskLost'
    BY <1>0, <2>1, <2>3 DEF NoTaskLost, TypeOK
  <2>6. DueWithinInterval'
    BY <1>0, <2>1 DEF DueWithinInterval, Exists, TypeOK
  <2>7. WakeUpIsComing'
    BY <1>0, <2>1 DEF WakeUpIsComing, TypeOK
  <2> QED  BY <2>4, <2>5, <2>6, <2>7 DEF IInv
<1> QED  BY <1>1, <1>2, <1>3, <1>4

\* A client that ends its call: either the thread has a wake-up to come, or it
\* is not waiting.
LEMMA SignalStep == ASSUME IInv, NEW t \in Tasks, Signal(t) PROVE IInv'
<1> USE DEF thread
<1>0. TypeOK /\ NoTaskLost /\ DueWithinInterval
  BY DEF IInv
<1>1. /\ op[t] \in {"signal", "removed"}
      /\ op' = [op EXCEPT ![t] = IF op[t] = "signal" THEN "linked" ELSE "none"]
      /\ event' = TRUE
      /\ UNCHANGED <<list, due, interval, tpc, running, wait, phase>>
  BY DEF Signal, Advance, Woken
<1>2. TypeOK'
  BY <1>0, <1>1 DEF TypeOK
<1>3. NoTaskLost'
  BY <1>0, <1>1 DEF NoTaskLost, TypeOK
<1>4. DueWithinInterval'
  BY <1>0, <1>1 DEF DueWithinInterval, Exists, TypeOK
<1>5. WakeUpIsComing'
  BY <1>1 DEF WakeUpIsComing
<1> QED  BY <1>2, <1>3, <1>4, <1>5 DEF IInv

\* The thread, which waits for what it has found at the head of the list.
LEMMA LoopStep == ASSUME IInv, Loop PROVE IInv'
<1> USE DEF tasks
<1>0. TypeOK /\ NoTaskLost /\ DueWithinInterval /\ WakeUpIsComing
  BY DEF IInv
<1>1. CASE Check
  <2>1. TypeOK'
    BY <1>0, <1>1 DEF Check, TypeOK
  <2>2. NoTaskLost' /\ DueWithinInterval'
    BY <1>0, <1>1 DEF Check, NoTaskLost, DueWithinInterval, Exists
  <2>3. WakeUpIsComing'
    BY <1>1 DEF Check, WakeUpIsComing
  <2> QED  BY <2>1, <2>2, <2>3 DEF IInv
<1>2. CASE Look
  <2>1. CASE list = << >>
    <3>1. UNCHANGED <<list, due, running, interval, op, event, phase>>
          /\ tpc' = "wait" /\ wait' = Infinite
      BY <1>2, <2>1 DEF Look
    <3>2. TypeOK'
      BY <1>0, <3>1 DEF TypeOK
    <3>3. NoTaskLost' /\ DueWithinInterval'
      BY <1>0, <3>1 DEF NoTaskLost, DueWithinInterval, Exists
    <3>4. WakeUpIsComing'
      BY <2>1, <3>1 DEF WakeUpIsComing
    <3> QED  BY <3>2, <3>3, <3>4 DEF IInv
  <2>2. CASE list # << >> /\ Overdue(Head(list))
    <3> DEFINE t == Head(list)
    <3>1. /\ due' = [due EXCEPT ![t] = due[t] + interval[t]]
          /\ list' = Linked(due', t, Tail(list))
          /\ running' = {t} /\ tpc' = "call" /\ wait' = 0
          /\ UNCHANGED <<interval, op, event, phase>>
      BY <1>2, <2>2 DEF Look
    <3>2. t \in ToSet(list) /\ t \in Tasks
      BY <1>0, <2>2, HeadIsLinked
    <3>3. /\ due[t] \in Int /\ interval[t] \in Nat /\ due[t] < 0
      BY <1>0, <2>2, <3>2, IntervalsAreNat DEF TypeOK, Overdue
    <3> HIDE DEF t
    <3>4. due' \in [Tasks -> Int]
      BY <1>0, <3>1, <3>2, <3>3 DEF TypeOK
    <3>5. /\ Tail(list) \in Seq(Tasks) /\ IsInjective(Tail(list))
          /\ ToSet(Tail(list)) = ToSet(list) \ {t}
      BY <1>0, <2>2, TailSet DEF TypeOK, NoTaskLost, t
    <3>6. /\ list' \in Seq(Tasks) /\ IsInjective(list')
          /\ ToSet(list') = ToSet(list)
      <4>1. t \notin ToSet(Tail(list)) /\ (ToSet(list) \ {t}) \cup {t} = ToSet(list)
        BY <3>2, <3>5
      <4>2. /\ list' \in Seq(Tasks) /\ IsInjective(list')
            /\ ToSet(list') = ToSet(Tail(list)) \cup {t}
        BY <3>1, <3>2, <3>4, <3>5, <4>1, LinkedList
      <4> QED  BY <3>5, <4>1, <4>2
    <3>7. TypeOK'
      BY <1>0, <3>1, <3>2, <3>4, <3>6 DEF TypeOK
    <3>8. NoTaskLost'
      BY <1>0, <3>1, <3>6 DEF NoTaskLost
    <3>9. DueWithinInterval'
      <4> SUFFICES ASSUME NEW u \in Tasks, Exists(u)'
                   PROVE  due'[u] =< interval'[u]
        BY DEF DueWithinInterval
      <4>1. due[u] =< interval[u]
        BY <1>0, <3>1 DEF DueWithinInterval, Exists
      <4>2. CASE u = t
        BY <1>0, <3>1, <3>3, <4>2 DEF TypeOK
      <4>3. CASE u # t
        BY <1>0, <3>1, <4>1, <4>3 DEF TypeOK
      <4> QED  BY <4>2, <4>3
    <3>10. WakeUpIsComing'
      BY <3>1 DEF WakeUpIsComing
    <3> QED  BY <3>7, <3>8, <3>9, <3>10 DEF IInv
  <2>3. CASE list # << >> /\ ~Overdue(Head(list))
    <3> DEFINE t == Head(list)
    <3>1. /\ tpc' = "wait" /\ wait' = due[t]
          /\ UNCHANGED <<list, due, running, interval, op, event, phase>>
      BY <1>2, <2>3 DEF Look
    <3>2. t \in Tasks /\ op[t] \in {"linked", "signal"}
      BY <1>0, <2>3, HeadIsLinked
    <3>3. due[t] \in Nat /\ due[t] =< interval[t]
      BY <1>0, <2>3, <3>2 DEF TypeOK, Overdue, DueWithinInterval, Exists
    <3> HIDE DEF t
    <3>4. TypeOK'
      BY <1>0, <3>1, <3>3 DEF TypeOK
    <3>5. NoTaskLost' /\ DueWithinInterval'
      BY <1>0, <3>1 DEF NoTaskLost, DueWithinInterval, Exists
    <3>6. WakeUpIsComing'
      BY <3>1, <3>3, IntervalsAreNat DEF WakeUpIsComing, t
    <3> QED  BY <3>4, <3>5, <3>6 DEF IInv
  <2> QED  BY <2>1, <2>2, <2>3
<1>3. CASE Return
  <2>1. /\ tpc' = "wait" /\ wait' = 0 /\ running' = {}
        /\ UNCHANGED <<list, due, interval, op, event, phase>>
    BY <1>3 DEF Return, Pause
  <2>2. TypeOK'
    BY <1>0, <2>1 DEF TypeOK
  <2>3. NoTaskLost' /\ DueWithinInterval'
    BY <1>0, <2>1 DEF NoTaskLost, DueWithinInterval, Exists
  <2>4. list # << >> => interval[Head(list)] \in Nat
    BY <1>0, HeadIsLinked, IntervalsAreNat DEF TypeOK
  <2>5. WakeUpIsComing'
    BY <2>1, <2>4, IntervalsAreNat DEF WakeUpIsComing
  <2> QED  BY <2>2, <2>3, <2>5 DEF IInv
<1>4. CASE Wake
  <2>1. TypeOK'
    BY <1>0, <1>4 DEF Wake, TypeOK
  <2>2. NoTaskLost' /\ DueWithinInterval'
    BY <1>0, <1>4 DEF Wake, NoTaskLost, DueWithinInterval, Exists
  <2>3. WakeUpIsComing'
    BY <1>4 DEF Wake, WakeUpIsComing
  <2> QED  BY <2>1, <2>2, <2>3 DEF IInv
<1> QED  BY <1>1, <1>2, <1>3, <1>4 DEF Loop

\* The start and the shutdown of the scheduler.
LEMMA SchedulerStep ==
    ASSUME IInv, Start \/ Shutdown \/ WakeToStop \/ Kill \/ Free
    PROVE  IInv'
<1> USE DEF tasks, thread
<1>0. TypeOK /\ NoTaskLost /\ DueWithinInterval /\ WakeUpIsComing
  BY DEF IInv
<1>1. CASE Start \/ Shutdown \/ WakeToStop \/ Kill
  <2>1. UNCHANGED <<list, due, interval, op>>
    BY <1>1 DEF Start, Shutdown, WakeToStop, Kill
  <2>2. TypeOK'
    <3>1. /\ tpc' \in {tpc, "check", "killed"} /\ wait' \in {wait, 0}
          /\ running' \in {running, {}} /\ phase' \in {phase, "up", "stop", "join"}
      BY <1>1 DEF Start, Shutdown, WakeToStop, Kill
    <3>2. event' \in BOOLEAN
      BY <1>0, <1>1 DEF Start, Shutdown, WakeToStop, Woken, Kill, TypeOK
    <3> QED  BY <1>0, <2>1, <3>1, <3>2 DEF TypeOK
  <2>3. NoTaskLost' /\ DueWithinInterval'
    BY <1>0, <2>1 DEF NoTaskLost, DueWithinInterval, Exists
  <2>4. WakeUpIsComing'
    BY <1>0, <1>1 DEF Start, Shutdown, WakeToStop, Woken, Kill, WakeUpIsComing
  <2> QED  BY <2>2, <2>3, <2>4 DEF IInv
<1>2. CASE Free
  <2>1. /\ list' = << >> /\ ToSet(<< >>) = {} /\ IsInjective(<< >>)
        /\ << >> \in Seq(Tasks)
    BY <1>2 DEF Free, ToSet, IsInjective
  <2>2. /\ op' = [t \in Tasks |-> "none"]
        /\ due' = [t \in Tasks |-> 0] /\ interval' = [t \in Tasks |-> 0]
        /\ tpc' = "off" /\ phase' = "down"
        /\ UNCHANGED <<running, wait, event>>
    BY <1>2 DEF Free
  <2>3. TypeOK'
    <3>1. /\ due' \in [Tasks -> Int] /\ interval' \in [Tasks -> Intervals \cup {0}]
          /\ op' \in [Tasks -> {"none", "adding", "linked", "signal", "removed"}]
      BY <2>2
    <3> QED  BY <1>0, <2>1, <2>2, <3>1 DEF TypeOK
  <2>4. NoTaskLost' /\ DueWithinInterval'
    BY <2>1, <2>2 DEF NoTaskLost, DueWithinInterval, Exists
  <2>5. WakeUpIsComing'
    BY <2>2 DEF WakeUpIsComing
  <2> QED  BY <2>3, <2>4, <2>5 DEF IInv
<1> QED  BY <1>1, <1>2

LEMMA TickStep == ASSUME IInv, Tick PROVE IInv'
<1>0. TypeOK /\ NoTaskLost /\ DueWithinInterval /\ WakeUpIsComing
  BY DEF IInv
<1>1. /\ due' = [t \in Tasks |-> IF Exists(t) THEN due[t] - 1 ELSE 0]
      /\ wait' = IF tpc = "wait" /\ wait \notin {0, Infinite} THEN wait - 1 ELSE wait
      /\ UNCHANGED <<list, interval, op, tpc, running, event, phase>>
  BY DEF Tick
<1>2. due' \in [Tasks -> Int]
  BY <1>0, <1>1 DEF TypeOK
<1>3. wait' \in Nat \cup {Infinite}
  BY <1>0, <1>1 DEF TypeOK
<1>4. TypeOK'
  BY <1>0, <1>1, <1>2, <1>3 DEF TypeOK
<1>5. NoTaskLost'
  BY <1>0, <1>1 DEF NoTaskLost
<1>6. DueWithinInterval'
  <2> SUFFICES ASSUME NEW t \in Tasks, Exists(t)'
               PROVE  due'[t] =< interval'[t]
    BY DEF DueWithinInterval
  <2>1. Exists(t) /\ due'[t] = due[t] - 1 /\ interval'[t] = interval[t]
    BY <1>1 DEF Exists
  <2>2. due[t] \in Int /\ interval[t] \in Nat /\ due[t] =< interval[t]
    BY <1>0, <2>1, IntervalsAreNat DEF TypeOK, DueWithinInterval
  <2> QED  BY <2>1, <2>2
<1>7. WakeUpIsComing'
  <2> SUFFICES ASSUME tpc = "wait", ~event, list # << >>,
                      \A t \in Tasks : op[t] \in {"none", "adding", "linked"}
               PROVE  wait' # Infinite /\ wait' =< interval[Head(list)]
    BY <1>1 DEF WakeUpIsComing
  <2>1. wait \in Nat /\ wait =< interval[Head(list)]
    BY <1>0 DEF WakeUpIsComing, TypeOK
  <2>2. interval[Head(list)] \in Nat
    BY <1>0, HeadIsLinked, IntervalsAreNat DEF TypeOK
  <2>3. wait' \in Nat /\ wait' =< wait
    BY <1>1, <2>1
  <2> QED  BY <2>1, <2>2, <2>3, IntervalsAreNat
<1> QED  BY <1>4, <1>5, <1>6, <1>7 DEF IInv

-----------------------------------------------------------------------------
THEOREM Invariance == Spec => []IInv
<1>1. ASSUME IInv, [Next]_vars PROVE IInv'
  <2>1. ASSUME NEW t \in Tasks, NEW i \in Intervals, Add(t, i) \/ Reschedule(t, i)
        PROVE  IInv'
    BY <1>1, <2>1, ClientStep
  <2>2. ASSUME NEW t \in Tasks, Link(t) \/ RemoveTask(t)
        PROVE  IInv'
    <3>1. PICK i : i \in Intervals
      BY SchedulerAssumption
    <3> QED  BY <1>1, <2>2, <3>1, ClientStep
  <2>3. ASSUME NEW t \in Tasks, Signal(t) PROVE IInv'
    BY <1>1, <2>3, SignalStep
  <2>4. CASE UNCHANGED vars
    BY <1>1, <2>4 DEF vars, tasks, thread, IInv, TypeOK, NoTaskLost,
       DueWithinInterval, Exists, WakeUpIsComing
  <2> QED
    BY <1>1, <2>1, <2>2, <2>3, <2>4, LoopStep, SchedulerStep, TickStep DEF Next
<1> QED  BY Initial, <1>1, PTL DEF Spec

\* The variables of the scheduler keep to their types; in particular a wait is
\* never negative, which as an unsigned number would be for ever.
THEOREM TypeCorrect == Spec => []TypeOK
<1>1. IInv => TypeOK
  BY DEF IInv
<1> QED  BY Invariance, <1>1, PTL

\* The list holds the tasks that were added and not removed, once each.
THEOREM ListIsComplete == Spec => []NoTaskLost
<1>1. IInv => NoTaskLost
  BY DEF IInv
<1> QED  BY Invariance, <1>1, PTL

\* A thread that waits without a wake-up on its way waits for its head at most.
THEOREM NoWakeUpMissed == Spec => []WakeUpIsComing
<1>1. IInv => WakeUpIsComing
  BY DEF IInv
<1> QED  BY Invariance, <1>1, PTL

-----------------------------------------------------------------------------
(***************************************************************************)
(* The delay.  Time passes only while the head is not late, so how late a  *)
(* task gets is decided by what is ahead of it: it waits until that is due. *)
(* A late task is linked behind one of the future only if the new head is  *)
(* not later due than it, and so later by as much.  One task less can be   *)
(* behind by an interval more.                                             *)
(***************************************************************************)
Total == Cardinality(Tasks)

Lag(j) == j * (Longest + Late)

\* The tasks that are late by more than j intervals, and those that will be when
\* everything ahead of them is on time.
Lagging(d, j) == {t \in Tasks : d[t] < -Late - Lag(j)}

WillLag(d, s, j) ==
    {t \in Tasks : \E u \in Tasks :
        /\ Before(s, u, t)
        /\ d[t] < d[u] - Lag(j) \/ d[t] < -Late - Lag(j)}

UnlinkedAreRecent ==
    \A t \in Tasks : op[t] \notin {"linked", "signal"} => due[t] >= -Late

FewLag(d, s) ==
    \A j \in 0 .. Total - 1 : /\ Cardinality(Lagging(d, j)) =< Total - 1 - j
                              /\ Cardinality(WillLag(d, s, j)) =< Total - 1 - j

LagInv == UnlinkedAreRecent /\ FewLag(due, list)

LEMMA DelayFacts ==
    /\ IsFiniteSet(Tasks) /\ Total \in Nat
    /\ Late \in Nat \ {0} /\ Longest \in Nat
    /\ \A i \in Intervals : i \in Nat \ {0} /\ i =< Longest
<1>1. PICK i \in Intervals : \A j \in Intervals : j =< i
  BY SchedulerAssumption
<1>2. Longest \in Intervals /\ \A j \in Intervals : j =< Longest
  BY <1>1 DEF Longest
<1> QED  BY <1>2, SchedulerAssumption, FS_CardinalityType DEF Total

LEMMA LagFacts ==
    ASSUME NEW j \in Nat
    PROVE  /\ Lag(j) \in Nat
           /\ j # 0 => j - 1 \in Nat /\ Lag(j) = Lag(j - 1) + Longest + Late
<1>1. \A m, k \in Nat : m * k \in Nat /\ (m # 0 => m * k = (m - 1) * k + k)
  OBVIOUS
<1>2. Longest + Late \in Nat /\ Longest \in Nat /\ Late \in Nat
  BY DelayFacts
<1>3. Lag(j) \in Nat /\ (j # 0 => Lag(j) = (j - 1) * (Longest + Late) + (Longest + Late))
  BY <1>1, <1>2 DEF Lag
<1>4. j # 0 => j - 1 \in Nat /\ Lag(j - 1) \in Nat
  BY <1>1, <1>2 DEF Lag
<1>5. j # 0 => Lag(j) = Lag(j - 1) + (Longest + Late)
  BY <1>3 DEF Lag
<1> QED  BY <1>2, <1>3, <1>4, <1>5

\* Counting tasks.
LEMMA FewerTasks ==
    ASSUME NEW A, NEW B, A \subseteq B, B \subseteq Tasks
    PROVE  /\ Cardinality(A) \in Nat /\ Cardinality(B) \in Nat
           /\ Cardinality(A) =< Cardinality(B)
<1>1. IsFiniteSet(B)
  BY DelayFacts, FS_Subset
<1>2. IsFiniteSet(A) /\ Cardinality(A) =< Cardinality(B)
  BY <1>1, FS_Subset
<1> QED  BY <1>1, <1>2, FS_CardinalityType

LEMMA OneTaskLess ==
    ASSUME NEW A, NEW B, NEW x \in B, A \subseteq B \ {x}, B \subseteq Tasks
    PROVE  /\ Cardinality(A) \in Nat /\ Cardinality(B) \in Nat
           /\ Cardinality(A) =< Cardinality(B) - 1
<1>1. IsFiniteSet(B)
  BY DelayFacts, FS_Subset
<1>2. Cardinality(B \ {x}) = Cardinality(B) - 1
  BY <1>1, FS_RemoveElement
<1>3. B \ {x} \subseteq Tasks
  OBVIOUS
<1> QED  BY <1>2, <1>3, FewerTasks

\* Whatever is behind another one is not the head.
LEMMA BehindTheHead ==
    ASSUME NEW s \in Seq(Tasks), IsInjective(s), NEW u, NEW v, Before(s, u, v)
    PROVE  s # << >> /\ u \in ToSet(s) /\ v \in ToSet(s) /\ v # Head(s) /\ u # v
<1>1. Len(s) \in Nat /\ DOMAIN s = 1 .. Len(s)
  BY LenProperties
<1>2. PICK p, q \in DOMAIN s : p < q /\ s[p] = u /\ s[q] = v
  BY DEF Before
<1>3. 1 \in DOMAIN s /\ q # 1 /\ p # q
  BY <1>1, <1>2
<1>4. s # << >> /\ Head(s) = s[1]
  BY <1>3
<1>5. s[q] # s[1] /\ s[p] # s[q]
  BY <1>2, <1>3 DEF IsInjective
<1>6. s[p] \in ToSet(s) /\ s[q] \in ToSet(s)
  BY <1>2 DEF ToSet
<1> QED  BY <1>2, <1>4, <1>5, <1>6

LEMMA AheadIsHead ==
    ASSUME NEW s \in Seq(Tasks), s # << >>, NEW v \in ToSet(s), v # Head(s)
    PROVE  Before(s, Head(s), v) /\ Head(s) \in Tasks
<1>1. Len(s) \in Nat \ {0} /\ DOMAIN s = 1 .. Len(s)
  BY LenProperties, EmptySeq
<1>2. PICK q \in DOMAIN s : s[q] = v
  BY DEF ToSet
<1>3. 1 \in DOMAIN s /\ Head(s) = s[1] /\ s[1] \in Tasks
  BY <1>1, ElementOfSeq
<1>4. q # 1
  BY <1>2, <1>3
<1>5. 1 < q
  BY <1>1, <1>4
<1> QED  BY <1>2, <1>3, <1>5 DEF Before

\* The head waits for nobody.
LEMMA NotTheHead ==
    ASSUME NEW s \in Seq(Tasks), IsInjective(s), NEW d, Tasks # {}
    PROVE  Cardinality(WillLag(d, s, 0)) =< Total - 1
<1>1. CASE s = << >>
  <2>1. WillLag(d, s, 0) = {}
    BY <1>1, BehindTheHead DEF WillLag
  <2>2. Total # 0
    BY DelayFacts, FS_EmptySet DEF Total
  <2>3. Cardinality(WillLag(d, s, 0)) = 0 /\ Total \in Nat
    BY <2>1, DelayFacts, FS_EmptySet
  <2> QED  BY <2>2, <2>3
<1>2. CASE s # << >>
  <2>1. Head(s) \in Tasks
    BY <1>2, HeadTailProperties
  <2>2. WillLag(d, s, 0) \subseteq Tasks \ {Head(s)}
    BY BehindTheHead DEF WillLag
  <2> QED  BY <2>1, <2>2, OneTaskLess DEF Total
<1> QED  BY <1>1, <1>2

\* A task that will lag by an interval more lags now.
LEMMA LagsBefore ==
    ASSUME NEW d \in [Tasks -> Int], NEW s \in Seq(Tasks), IsInjective(s),
           \A u \in ToSet(s) : d[u] =< Longest,
           NEW j \in Nat \ {0}
    PROVE  WillLag(d, s, j) \subseteq Lagging(d, j - 1)
<1> SUFFICES ASSUME NEW t \in Tasks, NEW u \in Tasks, Before(s, u, t),
                    d[t] < d[u] - Lag(j) \/ d[t] < -Late - Lag(j)
             PROVE  d[t] < -Late - Lag(j - 1)
  BY DEF WillLag, Lagging
<1>1. d[u] =< Longest
  BY BehindTheHead
<1>2. /\ Lag(j) \in Nat /\ Lag(j - 1) \in Nat /\ Lag(j) = Lag(j - 1) + Longest + Late
      /\ Longest \in Nat /\ Late \in Nat /\ d[t] \in Int /\ d[u] \in Int
  BY LagFacts, DelayFacts
<1> QED  BY <1>1, <1>2

\* Linking a task delays nobody but itself, if the head is not later due, and a
\* head that it is linked in front of.
LEMMA LinkedLags ==
    ASSUME NEW d \in [Tasks -> Int], NEW t \in Tasks, NEW others \in Seq(Tasks),
           IsInjective(others), t \notin ToSet(others),
           NEW j \in Nat, NEW v \in WillLag(d, Linked(d, t, others), j)
    PROVE  /\ others # << >> /\ Head(others) \in Tasks
           /\ \/ v \in WillLag(d, others, j)
              \/ /\ v = t /\ d[Head(others)] =< d[t]
                 /\ Head(Linked(d, t, others)) = Head(others)
              \/ v = Head(others) /\ d[v] > d[t] /\ d[v] < -Late - Lag(j)
<1> DEFINE new == Linked(d, t, others)
           k   == Place(d, t, others)
<1>1. Len(others) \in Nat /\ DOMAIN others = 1 .. Len(others)
  BY LenProperties
<1>2. /\ k \in 1 .. Len(others) + 1
      /\ others # << >> =>
            \/ k = 1 /\ d[others[1]] > d[t]
            \/ /\ k # 1 /\ ~(d[others[1]] > d[t])
               /\ k = Len(others) + 1 \/ d[others[k - 1]] >= d[t]
  BY PlaceIs
<1>3. PICK u \in Tasks : /\ Before(new, u, v)
                         /\ d[v] < d[u] - Lag(j) \/ d[v] < -Late - Lag(j)
  BY DEF WillLag
<1>4. /\ new \in Seq(Tasks) /\ IsInjective(new)
      /\ Len(new) = Len(others) + 1
      /\ \A i \in 1 .. Len(others) + 1 :
            new[i] = IF i < k THEN others[i] ELSE IF i = k THEN t ELSE others[i - 1]
  <2>1. new \in Seq(Tasks) /\ IsInjective(new)
    BY LinkedList
  <2>2. new = InsertAt(others, k, t) /\ k \in 1 .. Len(others) + 1
    BY <1>2 DEF Linked
  <2> HIDE DEF new, k
  <2>3. /\ Len(InsertAt(others, k, t)) = Len(others) + 1
        /\ \A i \in 1 .. Len(others) + 1 :
              InsertAt(others, k, t)[i] =
                  IF i < k THEN others[i] ELSE IF i = k THEN t ELSE others[i - 1]
    <3>1. k \in 1 .. Len(others) + 1
      BY <2>2
    <3> QED  BY <3>1, InsertAtProperties
  <2> QED  BY <2>1, <2>2, <2>3
<1>5. u # v
  BY <1>3, <1>4, BehindTheHead
<1>6. others # << >>
  <2> SUFFICES ASSUME others = << >> PROVE FALSE
    OBVIOUS
  <2>1. Len(new) = 1 /\ DOMAIN new = 1 .. 1
    BY <1>4, LenProperties
  <2>2. \A p, q \in 1 .. 1 : ~(p < q)
    OBVIOUS
  <2> QED  BY <1>3, <2>1, <2>2 DEF Before
<1>7. /\ Len(others) \in Nat \ {0} /\ 1 \in DOMAIN others
      /\ Head(others) = others[1] /\ others[1] \in Tasks
  BY <1>1, <1>6, EmptySeq, ElementOfSeq
<1>8. /\ d[v] \in Int /\ d[u] \in Int /\ d[t] \in Int /\ d[others[1]] \in Int
      /\ Lag(j) \in Nat /\ Late \in Nat /\ v \in Tasks
  BY <1>7, LagFacts, DelayFacts DEF WillLag
<1>9. \/ Before(others, u, v) \/ v = t
      \/ u = t /\ \E q \in k .. Len(others) : others[q] = v
  BY <1>2, <1>3, InsertAtOrder DEF Linked
<1> HIDE DEF new, k
<1>10. CASE Before(others, u, v)
  BY <1>3, <1>6, <1>7, <1>8, <1>10 DEF WillLag
<1>11. CASE v = t
  <2>1. k # 1
    <3> SUFFICES ASSUME k = 1 PROVE FALSE
      OBVIOUS
    <3>1. new[1] = t /\ new # << >>
      <4>1. 1 \in 1 .. Len(others) + 1 /\ ~(1 < 1)
        BY <1>1
      <4>2. Len(new) # 0
        BY <1>1, <1>4
      <4> QED  BY <1>4, <4>1, <4>2
    <3>2. Head(new) = t
      BY <3>1
    <3> QED  BY <1>3, <1>4, <1>11, <3>2, BehindTheHead
  <2>2. ~(d[others[1]] > d[t]) /\ 1 < k
    BY <1>1, <1>2, <1>6, <2>1
  <2>3. Head(new) = others[1]
    <3>1. 1 \in 1 .. Len(others) + 1 /\ Len(new) # 0
      BY <1>1, <1>4
    <3>2. new[1] = others[1] /\ new # << >>
      BY <1>4, <2>2, <3>1
    <3> QED  BY <3>2
  <2> QED  BY <1>6, <1>7, <1>8, <1>11, <2>2, <2>3 DEF new
<1>12. CASE u = t /\ \E q \in k .. Len(others) : others[q] = v
  <2>1. PICK q \in k .. Len(others) : others[q] = v
    BY <1>12
  <2>2. q \in DOMAIN others /\ q \in Nat /\ k \in Nat /\ 1 =< k /\ k =< q
    BY <1>1, <1>2
  <2>3. CASE k = 1
    <3>1. d[others[1]] > d[t]
      BY <1>2, <1>6, <2>3
    <3>2. CASE q = 1
      <4>1. v = others[1]
        BY <2>1, <3>2
      <4> QED  BY <1>3, <1>6, <1>7, <1>8, <1>12, <3>1, <4>1
    <3>3. CASE q # 1
      <4>1. Before(others, others[1], v)
        <5>1. 1 < q
          BY <2>2, <3>3
        <5> QED  BY <1>7, <2>1, <2>2, <5>1 DEF Before
      <4>2. d[v] < d[others[1]] - Lag(j) \/ d[v] < -Late - Lag(j)
        BY <1>3, <1>8, <1>12, <3>1
      <4> QED  BY <1>6, <1>7, <1>8, <4>1, <4>2 DEF WillLag
    <3> QED  BY <3>2, <3>3
  <2>4. CASE k # 1
    <3>1. k - 1 \in DOMAIN others /\ k - 1 < q /\ k # Len(others) + 1
      BY <1>1, <2>2, <2>4
    <3>2. d[others[k - 1]] >= d[t]
      BY <1>2, <1>6, <2>4, <3>1
    <3>3. Before(others, others[k - 1], v) /\ others[k - 1] \in Tasks
      BY <1>1, <2>1, <2>2, <3>1, ElementOfSeq DEF Before
    <3>4. d[others[k - 1]] \in Int
      BY <3>3
    <3>5. d[v] < d[others[k - 1]] - Lag(j) \/ d[v] < -Late - Lag(j)
      BY <1>3, <1>8, <1>12, <3>2, <3>4
    <3> QED  BY <1>6, <1>7, <1>8, <3>3, <3>5 DEF WillLag
  <2> QED  BY <2>3, <2>4
<1> QED  BY <1>9, <1>10, <1>11, <1>12

\* The numbers are kept by a step after which the late tasks were late or would
\* have been, and those that will be were among these, or are late with one more.
LEMMA FewKept ==
    ASSUME NEW d, NEW s, FewLag(d, s),
           NEW e, NEW r \in Seq(Tasks), IsInjective(r),
           \A j \in 0 .. Total - 1 :
              Lagging(e, j) \subseteq Lagging(d, j) \/ Lagging(e, j) \subseteq WillLag(d, s, j),
           \A j \in 1 .. Total - 1 :
              \/ WillLag(e, r, j) \subseteq WillLag(d, s, j)
              \/ \E h \in Lagging(e, j - 1) : WillLag(e, r, j) \subseteq Lagging(e, j - 1) \ {h}
    PROVE  FewLag(e, r)
<1>1. \A j : /\ Lagging(d, j) \subseteq Tasks /\ Lagging(e, j) \subseteq Tasks
             /\ WillLag(d, s, j) \subseteq Tasks /\ WillLag(e, r, j) \subseteq Tasks
  BY DEF Lagging, WillLag
<1>2. Total \in Nat
  BY DelayFacts
<1>3. ASSUME NEW j \in 0 .. Total - 1 PROVE Cardinality(Lagging(e, j)) =< Total - 1 - j
  <2>1. /\ Cardinality(Lagging(d, j)) =< Total - 1 - j
        /\ Cardinality(WillLag(d, s, j)) =< Total - 1 - j
    BY DEF FewLag
  <2>2. /\ Cardinality(Lagging(e, j)) \in Nat /\ Cardinality(Lagging(d, j)) \in Nat
        /\ Cardinality(WillLag(d, s, j)) \in Nat
        /\ \/ Cardinality(Lagging(e, j)) =< Cardinality(Lagging(d, j))
           \/ Cardinality(Lagging(e, j)) =< Cardinality(WillLag(d, s, j))
    <3>1. CASE Lagging(e, j) \subseteq Lagging(d, j)
      <4>1. Cardinality(WillLag(d, s, j)) \in Nat
        BY <1>1, FewerTasks
      <4> QED  BY <1>1, <3>1, <4>1, FewerTasks
    <3>2. CASE Lagging(e, j) \subseteq WillLag(d, s, j)
      <4>1. Cardinality(Lagging(d, j)) \in Nat
        BY <1>1, FewerTasks
      <4> QED  BY <1>1, <3>2, <4>1, FewerTasks
    <3> QED  BY <3>1, <3>2
  <2> QED  BY <1>2, <2>1, <2>2
<1>4. ASSUME NEW j \in 0 .. Total - 1 PROVE Cardinality(WillLag(e, r, j)) =< Total - 1 - j
  <2>1. CASE j = 0
    <3>1. Tasks # {}
      <4>1. Total # 0
        BY <1>2
      <4> QED  BY <4>1, FS_EmptySet DEF Total
    <3> QED  BY <1>2, <2>1, <3>1, NotTheHead
  <2>2. CASE j # 0
    <3>0. j \in 1 .. Total - 1 /\ j - 1 \in 0 .. Total - 1
      BY <1>2, <2>2
    <3>1. CASE WillLag(e, r, j) \subseteq WillLag(d, s, j)
      <4>1. /\ Cardinality(WillLag(e, r, j)) \in Nat /\ Cardinality(WillLag(d, s, j)) \in Nat
            /\ Cardinality(WillLag(e, r, j)) =< Cardinality(WillLag(d, s, j))
        BY <1>1, <3>1, FewerTasks
      <4>2. Cardinality(WillLag(d, s, j)) =< Total - 1 - j
        BY DEF FewLag
      <4> QED  BY <1>2, <4>1, <4>2
    <3>2. ASSUME NEW h \in Lagging(e, j - 1), WillLag(e, r, j) \subseteq Lagging(e, j - 1) \ {h}
          PROVE  Cardinality(WillLag(e, r, j)) =< Total - 1 - j
      <4>1. /\ Cardinality(WillLag(e, r, j)) \in Nat
            /\ Cardinality(Lagging(e, j - 1)) \in Nat
            /\ Cardinality(WillLag(e, r, j)) =< Cardinality(Lagging(e, j - 1)) - 1
        BY <1>1, <3>2, OneTaskLess
      <4>2. Cardinality(Lagging(e, j - 1)) =< Total - 1 - (j - 1)
        BY <1>3, <3>0
      <4> QED  BY <1>2, <4>1, <4>2
    <3> QED  BY <3>0, <3>1, <3>2
  <2> QED  BY <2>1, <2>2
<1> QED  BY <1>3, <1>4 DEF FewLag

\* With a task taken out of the list the others will not be later.
LEMMA TakenOut ==
    ASSUME NEW d, NEW e, NEW t \in Tasks, NEW s,
           NEW r \in Seq(Tasks), IsInjective(r), t \notin ToSet(r),
           \A u \in Tasks \ {t} : e[u] = d[u],
           \A u, v : Before(r, u, v) => Before(s, u, v),
           NEW j
    PROVE  WillLag(e, r, j) \subseteq WillLag(d, s, j)
<1> SUFFICES ASSUME NEW v \in Tasks, NEW u \in Tasks, Before(r, u, v),
                    e[v] < e[u] - Lag(j) \/ e[v] < -Late - Lag(j)
             PROVE  v \in WillLag(d, s, j)
  BY DEF WillLag
<1>1. u # t /\ v # t
  BY BehindTheHead
<1>2. e[u] = d[u] /\ e[v] = d[v] /\ Before(s, u, v)
  BY <1>1
<1> QED  BY <1>2 DEF WillLag

\* A task linked with a time that is not past delays nobody.
LEMMA LinkedRecent ==
    ASSUME NEW d \in [Tasks -> Int], NEW t \in Tasks, NEW others \in Seq(Tasks),
           IsInjective(others), t \notin ToSet(others),
           \A u \in ToSet(others) : d[u] =< Longest,
           d[t] >= -Late, d[t] =< Longest,
           NEW j \in Nat \ {0}
    PROVE  WillLag(d, Linked(d, t, others), j) \subseteq WillLag(d, others, j)
<1> SUFFICES ASSUME NEW v \in WillLag(d, Linked(d, t, others), j)
             PROVE  v \in WillLag(d, others, j)
  OBVIOUS
<1>1. /\ Linked(d, t, others) \in Seq(Tasks) /\ IsInjective(Linked(d, t, others))
      /\ ToSet(Linked(d, t, others)) = ToSet(others) \cup {t}
  BY LinkedList
<1>2. /\ Lag(j) \in Nat /\ Lag(j - 1) \in Nat /\ j - 1 \in Nat /\ Late \in Nat /\ d[t] \in Int
  BY LagFacts, DelayFacts
<1>3. \A u \in ToSet(Linked(d, t, others)) : d[u] =< Longest
  BY <1>1
<1>4. v \in Lagging(d, j - 1)
  BY <1>1, <1>3, LagsBefore
<1>5. ~(d[t] < -Late - Lag(j - 1)) /\ ~(d[t] < -Late - Lag(j))
  BY <1>2
<1>6. v # t
  BY <1>4, <1>5 DEF Lagging
<1>7. CASE v = Head(others) /\ d[v] > d[t] /\ d[v] < -Late - Lag(j)
  <2>1. d[v] \in Int
    BY <1>4 DEF Lagging
  <2> QED  BY <1>2, <1>7, <2>1
<1> QED  BY <1>6, <1>7, LinkedLags

LEMMA NobodyLags ==
    ASSUME NEW d, NEW s \in Seq(Tasks), s = << >>, \A t \in Tasks : d[t] = 0
    PROVE  FewLag(d, s)
<1>1. ASSUME NEW j \in 0 .. Total - 1
      PROVE  Lagging(d, j) = {} /\ WillLag(d, s, j) = {} /\ 0 =< Total - 1 - j
  <2>1. Late \in Nat /\ Lag(j) \in Nat /\ j \in Nat /\ Total \in Nat
    BY DelayFacts, LagFacts
  <2>2. ~(0 < -Late - Lag(j))
    BY <2>1
  <2>3. \A p, q \in DOMAIN s : FALSE
    OBVIOUS
  <2> QED  BY <2>1, <2>2, <2>3 DEF Lagging, WillLag, Before
<1> QED  BY <1>1, FS_EmptySet DEF FewLag

LEMMA LagInitial == Init => LagInv
<1> SUFFICES ASSUME Init PROVE LagInv
  OBVIOUS
<1>1. list = << >> /\ list \in Seq(Tasks) /\ \A t \in Tasks : due[t] = 0
  BY DEF Init
<1>2. UnlinkedAreRecent
  BY <1>1, DelayFacts DEF UnlinkedAreRecent
<1> QED  BY <1>1, <1>2, NobodyLags DEF LagInv

\* What the tasks in the list are late by is bounded above.
LEMMA DueByLongest ==
    ASSUME IInv
    PROVE  /\ list \in Seq(Tasks) /\ IsInjective(list) /\ due \in [Tasks -> Int]
           /\ \A t \in Tasks : Exists(t) => due[t] =< Longest
           /\ \A t \in ToSet(list) : t \in Tasks /\ due[t] =< Longest
           /\ \A t \in Tasks : t \in ToSet(list) <=> op[t] \in {"linked", "signal"}
<1>1. /\ TypeOK /\ NoTaskLost /\ DueWithinInterval
  BY DEF IInv
<1>2. ASSUME NEW t \in Tasks, Exists(t) PROVE due[t] =< Longest
  <2>1. due[t] =< interval[t] /\ due[t] \in Int /\ interval[t] \in Intervals \cup {0}
    BY <1>1, <1>2 DEF DueWithinInterval, TypeOK
  <2> QED  BY <2>1, DelayFacts
<1>3. \A t \in ToSet(list) : t \in Tasks /\ op[t] \in {"linked", "signal"}
  BY <1>1 DEF NoTaskLost
<1>4. \A t \in ToSet(list) : Exists(t)
  BY <1>3 DEF Exists
<1> QED  BY <1>1, <1>2, <1>3, <1>4 DEF TypeOK, NoTaskLost

LEMMA LagClientStep ==
    ASSUME IInv, IInv', LagInv, NEW t \in Tasks, NEW i \in Intervals,
           Add(t, i) \/ Link(t) \/ Reschedule(t, i) \/ RemoveTask(t)
    PROVE  LagInv'
<1> USE DEF thread, Advance
<1>1. /\ list \in Seq(Tasks) /\ IsInjective(list) /\ due \in [Tasks -> Int]
      /\ \A u \in ToSet(list) : u \in Tasks /\ due[u] =< Longest
      /\ \A u \in Tasks : u \in ToSet(list) <=> op[u] \in {"linked", "signal"}
      /\ \A u \in Tasks : Exists(u) => due[u] =< Longest
      /\ op \in [Tasks -> {"none", "adding", "linked", "signal", "removed"}]
  BY DueByLongest DEF IInv, TypeOK
<1>2. list' \in Seq(Tasks) /\ IsInjective(list') /\ due' \in [Tasks -> Int]
  BY DEF IInv, TypeOK, NoTaskLost
<1>3. /\ i \in Nat \ {0} /\ i =< Longest /\ Late \in Nat /\ i >= -Late /\ 0 >= -Late
      /\ 0 =< Longest
  BY DelayFacts
<1>4. UnlinkedAreRecent /\ FewLag(due, list)
  BY DEF LagInv
\* A time that is not past is not late.
<1>5. ASSUME NEW e \in [Tasks -> Int], \A u \in Tasks \ {t} : e[u] = due[u], e[t] >= -Late,
             NEW j \in Nat
      PROVE  Lagging(e, j) \subseteq Lagging(due, j)
  <2>1. Lag(j) \in Nat /\ e[t] \in Int /\ Late \in Nat
    BY LagFacts, DelayFacts
  <2>2. ~(e[t] < -Late - Lag(j))
    BY <1>5, <2>1
  <2> QED  BY <1>5, <2>2 DEF Lagging
<1>6. CASE Add(t, i)
  <2>1. /\ op[t] = "none" /\ op' = [op EXCEPT ![t] = "adding"]
        /\ due' = [due EXCEPT ![t] = i] /\ list' = list
    BY <1>6 DEF Add
  <2>2. due'[t] = i /\ \A u \in Tasks \ {t} : due'[u] = due[u]
    BY <1>1, <2>1
  <2>3. UnlinkedAreRecent'
    BY <1>1, <1>3, <1>4, <2>1, <2>2 DEF UnlinkedAreRecent
  <2>4. t \notin ToSet(list)
    BY <1>1, <2>1
  <2>5. \A j : WillLag(due', list, j) \subseteq WillLag(due, list, j)
    BY <1>1, <2>2, <2>4, TakenOut
  <2>6. \A j \in 0 .. Total - 1 : Lagging(due', j) \subseteq Lagging(due, j)
    BY <1>2, <1>3, <1>5, <2>2
  <2>7. FewLag(due', list)
    BY <1>1, <1>4, <2>5, <2>6, FewKept
  <2> QED  BY <2>1, <2>3, <2>7 DEF LagInv
<1>7. CASE Link(t)
  <2>1. /\ op[t] = "adding" /\ op' = [op EXCEPT ![t] = "signal"]
        /\ due' = due /\ list' = Linked(due, t, list)
    BY <1>7 DEF Link
  <2>2. t \notin ToSet(list) /\ due[t] >= -Late /\ due[t] =< Longest
    BY <1>1, <1>4, <2>1 DEF UnlinkedAreRecent, Exists
  <2>3. UnlinkedAreRecent'
    BY <1>1, <1>4, <2>1 DEF UnlinkedAreRecent
  <2>4. \A j \in Nat \ {0} : WillLag(due, list', j) \subseteq WillLag(due, list, j)
    BY <1>1, <2>1, <2>2, LinkedRecent
  <2>5. \A j \in 1 .. Total - 1 : WillLag(due, list', j) \subseteq WillLag(due, list, j)
    BY <2>4, DelayFacts
  <2>6. FewLag(due, list')
    BY <1>2, <1>4, <2>5, FewKept
  <2> QED  BY <2>1, <2>3, <2>6 DEF LagInv
<1>8. CASE Reschedule(t, i) \/ RemoveTask(t)
  <2>1. /\ op[t] = "linked" /\ due' \in [Tasks -> Int]
        /\ \A u \in Tasks \ {t} : due'[u] = due[u] /\ op'[u] = op[u]
        /\ due'[t] >= -Late /\ due'[t] =< Longest
        /\ list' = Unlinked(t) \/ list' = Linked(due', t, Unlinked(t))
    <3>1. CASE Reschedule(t, i)
      <4>1. /\ op[t] = "linked" /\ op' = [op EXCEPT ![t] = "signal"]
            /\ due' = [due EXCEPT ![t] = i] /\ list' = Linked(due', t, Unlinked(t))
        BY <3>1 DEF Reschedule
      <4> QED  BY <1>1, <1>2, <1>3, <4>1
    <3>2. CASE RemoveTask(t)
      <4>1. /\ op[t] = "linked" /\ op' = [op EXCEPT ![t] = "removed"]
            /\ due' = [due EXCEPT ![t] = 0] /\ list' = Unlinked(t)
        BY <3>2 DEF RemoveTask
      <4> QED  BY <1>1, <1>2, <1>3, <4>1
    <3> QED  BY <1>8, <3>1, <3>2
  <2>2. t \in ToSet(list)
    BY <1>1, <2>1
  <2> DEFINE rest == Unlinked(t)
  <2>3. /\ rest \in Seq(Tasks) /\ IsInjective(rest)
        /\ ToSet(rest) = ToSet(list) \ {t}
    BY <2>2, UnlinkedList DEF IInv
  <2>4. \A u, v : Before(rest, u, v) => Before(list, u, v)
    BY <1>1, <2>2, UnlinkedOrder
  <2> HIDE DEF rest
  <2>5. \A j : WillLag(due', rest, j) \subseteq WillLag(due, list, j)
    BY <2>1, <2>3, <2>4, TakenOut
  <2>6. UnlinkedAreRecent'
    BY <1>4, <2>1 DEF UnlinkedAreRecent
  <2>7. \A j \in 0 .. Total - 1 : Lagging(due', j) \subseteq Lagging(due, j)
    BY <1>5, <2>1
  <2>8. ASSUME NEW j \in 1 .. Total - 1
        PROVE  WillLag(due', list', j) \subseteq WillLag(due, list, j)
    <3>1. \A u \in ToSet(rest) : due'[u] =< Longest
      BY <1>1, <2>1, <2>3
    <3>2. j \in Nat \ {0}
      BY DelayFacts
    <3>3. CASE list' = Linked(due', t, rest)
      <4>1. t \notin ToSet(rest)
        BY <2>3
      <4>2. WillLag(due', list', j) \subseteq WillLag(due', rest, j)
        BY <2>1, <2>3, <3>1, <3>2, <3>3, <4>1, LinkedRecent
      <4> QED  BY <2>5, <4>2
    <3>4. CASE list' = rest
      BY <2>5, <3>4
    <3> QED  BY <2>1, <3>3, <3>4 DEF rest
  <2>9. FewLag(due', list')
    BY <1>2, <1>4, <2>7, <2>8, FewKept
  <2> QED  BY <2>6, <2>9 DEF LagInv
<1> QED  BY <1>6, <1>7, <1>8

\* A head that is late goes behind a task of the future only if the next one is
\* as late, and that is the head then.
LEMMA LagLookStep ==
    ASSUME IInv, IInv', LagInv, Look
    PROVE  LagInv'
<1>1. /\ list \in Seq(Tasks) /\ IsInjective(list) /\ due \in [Tasks -> Int]
      /\ \A u \in ToSet(list) : u \in Tasks /\ due[u] =< Longest
      /\ \A u \in Tasks : u \in ToSet(list) <=> op[u] \in {"linked", "signal"}
      /\ interval \in [Tasks -> Intervals \cup {0}]
  BY DueByLongest DEF IInv, TypeOK
<1>2. /\ list' \in Seq(Tasks) /\ IsInjective(list') /\ due' \in [Tasks -> Int]
      /\ \A u \in ToSet(list') : due'[u] =< Longest
  <2>1. (TypeOK /\ NoTaskLost /\ DueWithinInterval)'
    BY DEF IInv
  <2>2. ASSUME NEW u \in ToSet(list') PROVE due'[u] =< Longest
    <3>1. u \in Tasks /\ op'[u] \in {"linked", "signal"}
      BY <2>1 DEF NoTaskLost
    <3>2. due'[u] =< interval'[u] /\ due'[u] \in Int /\ interval'[u] \in Intervals \cup {0}
      BY <2>1, <3>1 DEF DueWithinInterval, TypeOK, Exists
    <3> QED  BY <3>2, DelayFacts
  <2> QED  BY <2>1, <2>2 DEF TypeOK, NoTaskLost
<1>3. UnlinkedAreRecent /\ FewLag(due, list) /\ op' = op
  BY DEF LagInv, Look
<1>4. CASE UNCHANGED <<list, due>>
  BY <1>3, <1>4 DEF LagInv, UnlinkedAreRecent
<1>5. CASE list # << >> /\ Overdue(Head(list))
  <2> DEFINE t    == Head(list)
             rest == Tail(list)
  <2>1. /\ due' = [due EXCEPT ![t] = due[t] + interval[t]]
        /\ list' = Linked(due', t, rest)
    BY <1>5 DEF Look
  <2>2. /\ t \in ToSet(list) /\ t \in Tasks
        /\ rest \in Seq(Tasks) /\ IsInjective(rest) /\ ToSet(rest) = ToSet(list) \ {t}
    BY <1>1, <1>5, HeadIsLinked, TailSet DEF IInv
  <2>3. \A u, v : Before(rest, u, v) => Before(list, u, v)
    BY <1>1, <1>5, TailOrder
  <2>4. \A v \in ToSet(rest) : Before(list, t, v)
    BY <1>1, <1>5, <2>2, AheadIsHead
  <2> HIDE DEF t, rest
  <2>5. /\ \A u \in Tasks \ {t} : due'[u] = due[u]
        /\ due[t] =< due'[t] /\ due[t] \in Int /\ due'[t] \in Int
    <3>1. interval[t] \in Nat
      BY <1>1, <2>2, IntervalsAreNat
    <3> QED  BY <1>1, <1>2, <2>1, <2>2, <3>1
  <2>6. UnlinkedAreRecent'
    BY <1>1, <1>3, <2>2, <2>5 DEF UnlinkedAreRecent
  <2>7. ASSUME NEW j \in 0 .. Total - 1 PROVE Lagging(due', j) \subseteq Lagging(due, j)
    <3>1. Late \in Nat /\ Lag(j) \in Nat
      BY DelayFacts, LagFacts
    <3>2. due'[t] < -Late - Lag(j) => due[t] < -Late - Lag(j)
      BY <2>5, <3>1
    <3> QED  BY <2>5, <3>2 DEF Lagging
  <2>8. t \notin ToSet(rest)
    BY <2>2
  <2>9. \A j : WillLag(due', rest, j) \subseteq WillLag(due, list, j)
    BY <2>2, <2>3, <2>5, <2>8, TakenOut
  <2>10. ASSUME NEW j \in 1 .. Total - 1
         PROVE  \/ WillLag(due', list', j) \subseteq WillLag(due, list, j)
                \/ \E h \in Lagging(due', j - 1) :
                       WillLag(due', list', j) \subseteq Lagging(due', j - 1) \ {h}
    <3>1. j \in Nat \ {0} /\ j - 1 \in Nat
      BY DelayFacts
    <3>2. WillLag(due', list', j) \subseteq Lagging(due', j - 1)
      BY <1>2, <3>1, LagsBefore
    <3>3. ASSUME NEW v \in WillLag(due', list', j)
          PROVE  /\ rest # << >> /\ Head(rest) \in Tasks
                 /\ \/ v \in WillLag(due', rest, j)
                    \/ /\ v = t /\ due'[Head(rest)] =< due'[t]
                       /\ Head(list') = Head(rest)
                    \/ v = Head(rest) /\ due'[v] > due'[t] /\ due'[v] < -Late - Lag(j)
      <4>1. v \in WillLag(due', Linked(due', t, rest), j) /\ j \in Nat
        BY <2>1, <3>1, <3>3
      <4>2. /\ due' \in [Tasks -> Int] /\ t \in Tasks /\ rest \in Seq(Tasks)
            /\ IsInjective(rest) /\ t \notin ToSet(rest)
        BY <1>2, <2>2, <2>8
      <4>3. /\ rest # << >> /\ Head(rest) \in Tasks
            /\ \/ v \in WillLag(due', rest, j)
               \/ /\ v = t /\ due'[Head(rest)] =< due'[t]
                  /\ Head(Linked(due', t, rest)) = Head(rest)
               \/ v = Head(rest) /\ due'[v] > due'[t] /\ due'[v] < -Late - Lag(j)
        BY <4>1, <4>2, LinkedLags
      <4> QED  BY <2>1, <4>3
    <3>4. CASE t \in WillLag(due', list', j)
      <4> DEFINE h == Head(rest)
      <4>1. /\ rest # << >> /\ h \in Tasks
            /\ \/ t \in WillLag(due', rest, j)
               \/ due'[h] =< due'[t] /\ Head(list') = h
               \/ due'[t] > due'[t]
        BY <3>3, <3>4
      <4>2. t \notin WillLag(due', rest, j)
        BY <2>2, <2>8, BehindTheHead DEF WillLag
      <4>3. due'[h] =< due'[t] /\ Head(list') = h
        BY <2>5, <4>1, <4>2
      <4>4. t \in Lagging(due', j - 1)
        BY <3>2, <3>4
      <4>5. h \in Lagging(due', j - 1)
        <5>1. Late \in Nat /\ Lag(j - 1) \in Nat /\ due'[h] \in Int
          BY <1>2, <3>1, <4>1, DelayFacts, LagFacts
        <5> QED  BY <2>5, <4>1, <4>3, <4>4, <5>1 DEF Lagging
      <4>6. h \notin WillLag(due', list', j)
        BY <1>2, <4>3, BehindTheHead DEF WillLag
      <4> QED  BY <3>2, <4>5, <4>6
    <3>5. CASE t \notin WillLag(due', list', j)
      <4> SUFFICES ASSUME NEW v \in WillLag(due', list', j) PROVE v \in WillLag(due, list, j)
        OBVIOUS
      <4>1. CASE v \in WillLag(due', rest, j)
        BY <2>9, <4>1
      <4>2. CASE rest # << >> /\ v = Head(rest) /\ due'[v] < -Late - Lag(j)
        <5>1. v \in ToSet(rest) /\ v \in Tasks
          BY <2>2, <4>2, HeadAndTail
        <5>2. v # t /\ Before(list, t, v)
          BY <2>4, <2>8, <5>1
        <5>3. due'[v] = due[v]
          BY <2>5, <5>1, <5>2
        <5> QED  BY <2>2, <4>2, <5>1, <5>2, <5>3 DEF WillLag
      <4> QED  BY <3>3, <3>5, <4>1, <4>2
    <3> QED  BY <3>4, <3>5
  <2>11. FewLag(due', list')
    BY <1>2, <1>3, <2>7, <2>10, FewKept
  <2> QED  BY <2>6, <2>11 DEF LagInv
<1> QED  BY <1>4, <1>5 DEF Look

\* Time passes only when the head is not late, so that whoever gets late has
\* been going to.
LEMMA LagTickStep ==
    ASSUME IInv, IInv', LagInv, Tick
    PROVE  LagInv'
<1>1. /\ list \in Seq(Tasks) /\ IsInjective(list) /\ due \in [Tasks -> Int]
      /\ \A u \in ToSet(list) : u \in Tasks
      /\ \A u \in Tasks : u \in ToSet(list) <=> op[u] \in {"linked", "signal"}
  BY DueByLongest DEF IInv, TypeOK
<1>2. /\ list # << >> => due[Head(list)] > -Late
      /\ \A t \in Tasks : op[t] = "adding" => due[t] > -Late
      /\ due' = [t \in Tasks |-> IF Exists(t) THEN due[t] - 1 ELSE 0]
      /\ list' = list /\ op' = op
  BY DEF Tick
<1>3. UnlinkedAreRecent /\ FewLag(due, list) /\ Late \in Nat
  BY DelayFacts DEF LagInv
<1>4. ASSUME NEW t \in Tasks, t \notin ToSet(list) PROVE due'[t] \in Int /\ due'[t] >= -Late
  <2>1. CASE Exists(t)
    <3>1. op[t] = "adding"
      BY <1>1, <1>4, <2>1 DEF Exists
    <3>2. due[t] \in Int /\ due[t] > -Late /\ due'[t] = due[t] - 1
      BY <1>1, <1>2, <2>1, <3>1
    <3> QED  BY <1>3, <3>2
  <2>2. CASE ~Exists(t)
    BY <1>2, <1>3, <2>2
  <2> QED  BY <2>1, <2>2
<1>5. \A t \in ToSet(list) : due'[t] = due[t] - 1 /\ t \in Tasks /\ due[t] \in Int
  BY <1>1, <1>2 DEF Exists
<1>6. UnlinkedAreRecent'
  BY <1>1, <1>2, <1>4 DEF UnlinkedAreRecent
<1>7. ASSUME NEW j \in Nat PROVE Lagging(due', j) \subseteq WillLag(due, list, j)
  <2> SUFFICES ASSUME NEW t \in Tasks, due'[t] < -Late - Lag(j)
               PROVE  t \in WillLag(due, list, j)
    BY DEF Lagging
  <2>1. Lag(j) \in Nat
    BY LagFacts
  <2>2. t \in ToSet(list)
    BY <1>3, <1>4, <2>1
  <2>3. list # << >>
    BY <2>2 DEF ToSet
  <2> DEFINE h == Head(list)
  <2>4. h \in ToSet(list) /\ due[h] > -Late
    BY <1>1, <1>2, <2>3, HeadAndTail
  <2> HIDE DEF h
  <2>5. due'[t] = due[t] - 1 /\ due[t] \in Int /\ due'[h] = due[h] - 1 /\ due[h] \in Int
    BY <1>5, <2>2, <2>4
  <2>6. t # h
    BY <1>3, <2>1, <2>4, <2>5
  <2>7. due[t] < due[h] - Lag(j)
    BY <1>3, <2>1, <2>4, <2>5
  <2>8. Before(list, h, t) /\ h \in Tasks
    BY <1>1, <2>2, <2>3, <2>6, AheadIsHead DEF h
  <2> QED  BY <2>7, <2>8 DEF WillLag
<1>8. ASSUME NEW j \in Nat PROVE WillLag(due', list, j) \subseteq WillLag(due, list, j)
  <2> SUFFICES ASSUME NEW t \in Tasks, NEW u \in Tasks, Before(list, u, t),
                      due'[t] < due'[u] - Lag(j) \/ due'[t] < -Late - Lag(j)
               PROVE  t \in WillLag(due, list, j)
    BY DEF WillLag
  <2>1. CASE due'[t] < -Late - Lag(j)
    BY <1>7, <2>1 DEF Lagging
  <2>2. CASE due'[t] < due'[u] - Lag(j)
    <3>1. /\ due'[t] = due[t] - 1 /\ due[t] \in Int
          /\ due'[u] = due[u] - 1 /\ due[u] \in Int /\ Lag(j) \in Nat
      BY <1>1, <1>5, BehindTheHead, LagFacts
    <3>2. due[t] < due[u] - Lag(j)
      BY <2>2, <3>1
    <3> QED  BY <3>2 DEF WillLag
  <2> QED  BY <2>1, <2>2
<1>9. FewLag(due', list)
  BY <1>1, <1>3, <1>7, <1>8, FewKept
<1> QED  BY <1>2, <1>6, <1>9 DEF LagInv

LEMMA LagOtherStep ==
    ASSUME IInv, LagInv,
           \/ Check \/ Return \/ Wake
           \/ Start \/ Shutdown \/ WakeToStop \/ Kill \/ Free
           \/ \E t \in Tasks : Signal(t)
           \/ UNCHANGED vars
    PROVE  LagInv'
<1> USE DEF tasks, thread, vars
<1>1. CASE Free
  <2>1. list' = << >> /\ list' \in Seq(Tasks) /\ \A t \in Tasks : due'[t] = 0
    BY <1>1 DEF Free
  <2>2. UnlinkedAreRecent'
    BY <2>1, DelayFacts DEF UnlinkedAreRecent
  <2> QED  BY <2>1, <2>2, NobodyLags DEF LagInv
<1>2. ASSUME NEW t \in Tasks, Signal(t) PROVE LagInv'
  <2>1. /\ op[t] \in {"signal", "removed"} /\ UNCHANGED <<list, due>>
        /\ op' = [op EXCEPT ![t] = IF op[t] = "signal" THEN "linked" ELSE "none"]
        /\ op \in [Tasks -> {"none", "adding", "linked", "signal", "removed"}]
    BY <1>2 DEF Signal, Advance, IInv, TypeOK
  <2>2. \A u \in Tasks : op'[u] \notin {"linked", "signal"} => op[u] \notin {"linked", "signal"}
    BY <2>1
  <2> QED  BY <2>1, <2>2 DEF LagInv, UnlinkedAreRecent
<1>3. CASE UNCHANGED <<list, due, op>>
  BY <1>3 DEF LagInv, UnlinkedAreRecent
<1> QED
  BY <1>1, <1>2, <1>3 DEF Check, Return, Wake, Start, Shutdown, WakeToStop, Kill

\* The thread is late for no task by more than its lateness for the head and an
\* interval for each other task, whatever is added, moved and removed.
THEOREM DelayBounded == Spec => []DelayIsBounded
<1>1. Init => IInv /\ LagInv
  BY Initial, LagInitial
<1>2. ASSUME IInv, IInv', LagInv, [Next]_vars PROVE LagInv'
  <2>1. ASSUME NEW t \in Tasks, NEW i \in Intervals, Add(t, i) \/ Reschedule(t, i)
        PROVE  LagInv'
    BY <1>2, <2>1, LagClientStep
  <2>2. ASSUME NEW t \in Tasks, Link(t) \/ RemoveTask(t)
        PROVE  LagInv'
    <3>1. PICK i : i \in Intervals
      BY SchedulerAssumption
    <3> QED  BY <1>2, <2>2, <3>1, LagClientStep
  <2> QED
    BY <1>2, <2>1, <2>2, LagLookStep, LagTickStep, LagOtherStep DEF Next, Loop
<1>3. IInv /\ LagInv => DelayIsBounded
  <2> SUFFICES ASSUME IInv, LagInv, NEW t \in Tasks
               PROVE  due[t] >= -Late - (Total - 1) * (Longest + Late)
    BY DEF DelayIsBounded, Total
  <2>1. Total \in Nat /\ Total # 0
    BY DelayFacts, FS_EmptySet DEF Total
  <2>2. Total - 1 \in 0 .. Total - 1 /\ Total - 1 \in Nat /\ Total - 1 - (Total - 1) = 0
    BY <2>1
  <2> DEFINE L == Lagging(due, Total - 1)
  <2>3. Cardinality(L) =< 0
    BY <2>2 DEF LagInv, FewLag
  <2>4. L = {}
    <3>1. L \subseteq Tasks
      BY DEF Lagging
    <3>2. IsFiniteSet(L) /\ Cardinality(L) \in Nat
      BY <3>1, DelayFacts, FS_Subset, FewerTasks
    <3> QED  BY <2>3, <3>2, FS_EmptySet
  <2>5. ~(due[t] < -Late - Lag(Total - 1))
    BY <2>4 DEF Lagging
  <2>6. due[t] \in Int /\ Late \in Nat /\ Lag(Total - 1) \in Nat
    BY <2>2, DelayFacts, LagFacts DEF IInv, TypeOK
  <2>7. due[t] >= -Late - Lag(Total - 1)
    BY <2>5, <2>6
  <2> QED  BY <2>7 DEF Lag
<1>4. Spec => []IInv
  BY Invariance
<1>5. Spec => [](IInv /\ LagInv)
  BY <1>1, <1>2, <1>4, PTL DEF Spec
<1> QED  BY <1>3, <1>5, PTL
=============================================================================
