-------------------------- MODULE UsbReadThreadProofs --------------------------
(***************************************************************************)
(* Type correctness of the Linux read thread; that one which ends of       *)
(* itself or hands over a buffer has no transfer in flight that writes to  *)
(* it; that data is handed over in order and not overwritten; and that a   *)
(* transfer is handed over whole. For any number of buffers and packets    *)
(* and whatever is refused or unplugged, and the first two whatever is     *)
(* late.                                                                   *)
(***************************************************************************)
EXTENDS MCUsbReadThread, SequenceLemmas

\* bIsQueued is set before libusb has the transfer and reset after it has given
\* it back.
FlyingIsQueued == \A b \in Buffers : Flying(b) => isQueued[b]

\* The thread submits only what is not queued: the buffers still to come in its
\* first round, and the one it has handed over.
SubmitsUnqueued ==
    /\ tpc = "submit" => \A b \in cur .. NumBuffers : ~isQueued[b]
    /\ tpc = "handed" => ~isQueued[cur]

ExitIsClean == tpc = "exited" => kill /\ ~AnyTransferQueued

IInv ==
    /\ TypeOK
    /\ FlyingIsQueued
    /\ IsInjective(inFlight)
    /\ SubmitsUnqueued
    /\ ExitIsClean

-----------------------------------------------------------------------------
THEOREM Initial == Init => IInv
<1>1. /\ DOMAIN << >> = {} /\ ToSet(<< >>) = {} /\ << >> \in Seq(Buffers)
      /\ 1 \in Buffers
  BY UsbAssumption DEF Buffers, ToSet
<1> QED
  BY <1>1 DEF Init, IInv, TypeOK, FlyingIsQueued, Flying, IsInjective, SubmitsUnqueued,
       ExitIsClean, Calls, NoCallback, Statuses, WithData

\* A step that leaves the transfers alone, and with them the thread outside of
\* the places where it relies on them.
LEMMA QuietStep ==
    ASSUME IInv, TypeOK',
           UNCHANGED <<inFlight, isQueued>>,
           UNCHANGED <<tpc, cur>> \/ tpc' \notin {"submit", "handed", "exited"},
           kill => kill'
    PROVE  IInv'
  BY DEF IInv, FlyingIsQueued, Flying, SubmitsUnqueued, ExitIsClean, AnyTransferQueued

\* Setting bIsQueued and submitting, of a buffer that is not queued.
LEMMA SubmitStep ==
    ASSUME IInv, TypeOK', ~isQueued[cur],
           isQueued' = [isQueued EXCEPT ![cur] = TRUE],
           inFlight' = Append(inFlight, cur) \/ UNCHANGED inFlight
    PROVE  FlyingIsQueued' /\ IsInjective(inFlight')
<1>1. /\ inFlight \in Seq(Buffers) /\ cur \in Buffers
      /\ isQueued \in [Buffers -> BOOLEAN]
      /\ IsInjective(inFlight)
      /\ cur \notin ToSet(inFlight)
  BY DEF IInv, TypeOK, FlyingIsQueued, Flying
<1>2. ToSet(inFlight') \subseteq ToSet(inFlight) \cup {cur} /\ IsInjective(inFlight')
  <2>1. CASE inFlight' = Append(inFlight, cur)
    BY <1>1, <2>1, AppendSet
  <2>2. CASE UNCHANGED inFlight
    BY <1>1, <2>2
  <2> QED  BY <2>1, <2>2
<1>3. FlyingIsQueued'
  BY <1>1, <1>2 DEF IInv, FlyingIsQueued, Flying
<1> QED  BY <1>2, <1>3

\* libusb gives back a transfer: it is in flight no more and not queued.
LEMMA FinishedStep ==
    ASSUME IInv, NEW k \in DOMAIN inFlight, NEW st \in Statuses, Finished(k, st)
    PROVE  IInv'
<1> DEFINE b == inFlight[k]
<1>1. /\ Len(inFlight) \in Nat /\ k \in 1 .. Len(inFlight)
      /\ inFlight \in Seq(Buffers) /\ IsInjective(inFlight)
      /\ \A j \in DOMAIN inFlight : inFlight[j] \in Buffers
  BY LenProperties, ElementOfSeq DEF IInv, TypeOK
<1>2. /\ inFlight' \in Seq(Buffers) /\ IsInjective(inFlight')
      /\ ToSet(inFlight') = ToSet(inFlight) \ {b}
  <2>1. inFlight' = RemoveAt(inFlight, k)
    BY DEF Finished
  <2> QED  BY <1>1, <2>1, RemoveAtProperties, RemoveAtSet
<1>3. TypeOK'
  <2>1. Append(arrived, b) \in Seq(Buffers)
    BY <1>1, AppendProperties DEF IInv, TypeOK
  <2>2. [buf |-> b, next |-> "keep"] \in Calls
    BY <1>1 DEF Calls
  <2> QED  BY <1>1, <1>2, <2>1, <2>2 DEF IInv, TypeOK, Finished, thread
<1>4. /\ isQueued' = [isQueued EXCEPT ![b] = FALSE] /\ b \in Buffers
      /\ UNCHANGED <<tpc, cur, kill>>
      /\ isQueued \in [Buffers -> BOOLEAN]
  BY <1>1 DEF Finished, thread, IInv, TypeOK
<1>5. FlyingIsQueued'
  BY <1>2, <1>4 DEF FlyingIsQueued, Flying, IInv
<1>6. \A c \in Buffers : ~isQueued[c] => ~isQueued'[c]
  BY <1>4
<1>7. cur \in Buffers /\ \A c \in cur .. NumBuffers : c \in Buffers
  BY UsbAssumption DEF IInv, TypeOK, Buffers
<1> HIDE DEF b
<1> QED  BY <1>2, <1>3, <1>4, <1>5, <1>6, <1>7
          DEF IInv, SubmitsUnqueued, ExitIsClean, AnyTransferQueued

LEMMA TakenIsSeq ==
    ASSUME TypeOK, NEW b
    PROVE  Taken(b) \in Seq(Buffers)
<1> DEFINE at == {k \in DOMAIN arrived : arrived[k] = b}
<1>1. arrived \in Seq(Buffers)
  BY DEF TypeOK
<1>2. CASE at = {}
  BY <1>1, <1>2 DEF Taken
<1>3. CASE at # {}
  <2>1. (CHOOSE k \in at : TRUE) \in 1 .. Len(arrived)
    BY <1>1, <1>3, LenProperties
  <2> HIDE DEF at
  <2>2. RemoveAt(arrived, CHOOSE k \in at : TRUE) \in Seq(Buffers)
    BY <1>1, <2>1, RemoveAtProperties
  <2> QED  BY <1>3, <2>2 DEF Taken, at
<1> QED  BY <1>2, <1>3

\* The next buffer is one of the buffers.
LEMMA NextIsBuffer == ASSUME TypeOK PROVE NextBuffer \in Buffers
  BY UsbAssumption DEF TypeOK, NextBuffer, Buffers

LEMMA CurrentInFlightSeq ==
    ASSUME TypeOK
    PROVE  Append(inFlight, cur) \in Seq(Buffers)
  BY AppendProperties DEF TypeOK

-----------------------------------------------------------------------------
\* The read thread.
LEMMA ReadThreadStep == ASSUME IInv, ReadThread PROVE IInv'
<1> USE DEF shared, libusb, thread
<1>0. TypeOK /\ cur \in Buffers /\ NextBuffer \in Buffers
  BY NextIsBuffer DEF IInv, TypeOK
<1>1. CASE SubmitAll
  <2>1. ~isQueued[cur]
    BY <1>0, <1>1, UsbAssumption DEF SubmitAll, IInv, SubmitsUnqueued, Buffers
  <2>2. TypeOK'
    BY <1>0, <1>1, CurrentInFlightSeq
       DEF SubmitAll, Queue, Accepted, Rejected, TypeOK
  <2>3. FlyingIsQueued' /\ IsInjective(inFlight')
    BY <1>1, <2>1, <2>2, SubmitStep DEF SubmitAll, Queue, Accepted, Rejected
  <2>4. SubmitsUnqueued'
    <3>1. CASE cur = NumBuffers
      BY <1>1, <3>1 DEF SubmitAll, SubmitsUnqueued
    <3>2. CASE cur # NumBuffers
      <4>1. cur' = cur + 1 /\ isQueued' = [isQueued EXCEPT ![cur] = TRUE]
        BY <1>1, <3>2 DEF SubmitAll, NextBuffer, Queue
      <4>2. \A b \in cur .. NumBuffers : ~isQueued[b]
        BY <1>1 DEF SubmitAll, IInv, SubmitsUnqueued
      <4>3. \A b \in cur + 1 .. NumBuffers : b \in cur .. NumBuffers /\ b # cur
        BY <1>0, UsbAssumption DEF Buffers
      <4>4. isQueued \in [Buffers -> BOOLEAN] /\ \A b \in cur .. NumBuffers : b \in Buffers
        BY <1>0, UsbAssumption DEF TypeOK, Buffers
      <4>5. tpc' = "submit"
        BY <1>1, <3>2 DEF SubmitAll
      <4> QED  BY <4>1, <4>2, <4>3, <4>4, <4>5 DEF SubmitsUnqueued
    <3> QED  BY <3>1, <3>2
  <2>5. ExitIsClean'
    BY <1>1 DEF SubmitAll, ExitIsClean
  <2> QED  BY <2>2, <2>3, <2>4, <2>5 DEF IInv
<1>2. CASE Check
  <2>1. TypeOK'
    BY <1>0, <1>2 DEF Check, Goto, TypeOK, Ended
  <2>2. CASE kill /\ ~AnyTransferQueued
    BY <1>2, <2>1, <2>2 DEF Check, Goto, IInv, FlyingIsQueued, Flying, SubmitsUnqueued,
         ExitIsClean, AnyTransferQueued
  <2>3. CASE ~(kill /\ ~AnyTransferQueued)
    BY <1>2, <2>1, <2>3, QuietStep DEF Check, Goto
  <2> QED  BY <2>2, <2>3
<1>3. CASE Wake
  <2>1. TypeOK'
    BY <1>0, <1>3 DEF Wake, Goto, TypeOK
  <2> QED  BY <1>3, <2>1, QuietStep DEF Wake, Goto
<1>4. CASE TimeOut
  <2>1. TypeOK'
    BY <1>0, <1>4 DEF TimeOut, Goto, TypeOK
  <2> QED  BY <1>4, <2>1, QuietStep DEF TimeOut, Goto
<1>5. CASE Cancel
  <2>1. TypeOK'
    BY <1>0, <1>5 DEF Cancel, Goto, TypeOK, Ended
  <2> QED  BY <1>5, <2>1, QuietStep DEF Cancel, Goto
<1>6. CASE TimeOutAgain
  <2>1. TypeOK'
    BY <1>0, <1>6 DEF TimeOutAgain, Goto, TypeOK
  <2> QED  BY <1>6, <2>1, QuietStep DEF TimeOutAgain, Goto
<1>7. CASE Look
  <2>1. UNCHANGED <<app, kill, isQueued, lastStatus, event, status, inFlight, asked,
                    callback, plugged>>
    BY <1>7 DEF Look, HandOver
  <2>2. tpc' \in {"check", "disconnected", "handed"} /\ cur' \in Buffers
    BY <1>0, <1>7 DEF Look, LookAtNext, HandOver, Goto
  <2>3. arrived' \in Seq(Buffers)
    BY <1>0, <1>7, TakenIsSeq DEF Look, TypeOK
  <2>4. TypeOK'
    BY <1>0, <2>1, <2>2, <2>3 DEF TypeOK, Ended
  <2>5. CASE tpc' = "handed"
    <3>1. ~isQueued[cur] /\ UNCHANGED cur
      BY <1>7, <2>5 DEF Look, LookAtNext, HandOver, Goto, Done
    <3> QED
      BY <2>1, <2>4, <2>5, <3>1 DEF IInv, FlyingIsQueued, Flying, SubmitsUnqueued,
           ExitIsClean
  <2>6. CASE tpc' # "handed"
    BY <2>1, <2>2, <2>4, <2>6, QuietStep
  <2> QED  BY <2>5, <2>6
<1>8. CASE Resubmit
  <2>1. CASE ~Again
    <3>1. UNCHANGED <<app, kill, isQueued, lastStatus, event, status, inFlight, asked,
                      callback, plugged, arrived>>
      BY <1>8, <2>1 DEF Resubmit, Queue
    <3>2. tpc' = "check" /\ cur' \in Buffers
      BY <1>0, <1>8, <2>1 DEF Resubmit, LookAtNext
    <3>3. TypeOK'
      BY <1>0, <3>1, <3>2 DEF TypeOK
    <3> QED  BY <3>1, <3>2, <3>3, QuietStep
  <2>2. CASE Again
    <3>1. /\ isQueued' = [isQueued EXCEPT ![cur] = TRUE]
          /\ UNCHANGED <<lastStatus, event, status, asked, callback, plugged>>
          /\ inFlight' = Append(inFlight, cur) \/ UNCHANGED inFlight
          /\ UNCHANGED <<app, kill, arrived>>
      BY <1>8, <2>2 DEF Resubmit, Queue, Accepted, Rejected
    <3>2. tpc' \in {"check", "disconnected"} /\ cur' \in Buffers
      BY <1>0, <1>8, <2>2 DEF Resubmit, LookAtNext, Goto
    <3>3. TypeOK'
      BY <1>0, <3>1, <3>2, CurrentInFlightSeq DEF TypeOK, Ended
    <3>4. ~isQueued[cur]
      BY <1>8 DEF Resubmit, IInv, SubmitsUnqueued
    <3>5. FlyingIsQueued' /\ IsInjective(inFlight')
      BY <3>1, <3>3, <3>4, SubmitStep
    <3> QED  BY <3>2, <3>3, <3>5 DEF IInv, SubmitsUnqueued, ExitIsClean
  <2> QED  BY <2>1, <2>2
<1> QED  BY <1>1, <1>2, <1>3, <1>4, <1>5, <1>6, <1>7, <1>8 DEF ReadThread

\* libusb, the callback of the transfer and the device.
LEMMA LibraryStep ==
    ASSUME IInv,
           \/ \E st \in Statuses : Answer(st)
           \/ Cancelled \/ Disappears \/ Callback \/ Unplug
    PROVE  IInv'
<1> USE DEF shared, libusb, thread
<1>0. TypeOK /\ {"completed", "cancelled", "error", "nodevice"} \subseteq Statuses
  BY DEF IInv, Statuses, WithData
<1>1. ASSUME NEW st \in Statuses, Answer(st) PROVE IInv'
  <2>1. 1 \in DOMAIN inFlight
    BY <1>0, <1>1, LenProperties, EmptySeq DEF Answer, TypeOK
  <2> QED  BY <1>1, <2>1, FinishedStep DEF Answer
<1>2. CASE Cancelled
  BY <1>0, <1>2, FinishedStep DEF Cancelled
<1>3. CASE Disappears
  BY <1>0, <1>3, FinishedStep DEF Disappears
<1>4. CASE KeepStatus
  <2>1. callback.buf \in Buffers /\ [callback EXCEPT !.next = "signal"] \in Calls
    BY <1>0, <1>4 DEF KeepStatus, TypeOK, Calls, NoCallback
  <2>2. TypeOK'
    BY <1>0, <1>4, <2>1 DEF KeepStatus, TypeOK
  <2> QED  BY <1>4, <2>2, QuietStep DEF KeepStatus
<1>5. CASE Signal
  <2>1. TypeOK'
    BY <1>0, <1>5 DEF Signal, TypeOK, Calls
  <2> QED  BY <1>5, <2>1, QuietStep DEF Signal
<1>6. CASE Unplug
  <2>1. TypeOK'
    BY <1>0, <1>6 DEF Unplug, TypeOK
  <2> QED  BY <1>6, <2>1, QuietStep DEF Unplug
<1> QED  BY <1>1, <1>2, <1>3, <1>4, <1>5, <1>6 DEF Callback

\* The application: the start relies on nothing that the last thread left, the
\* shutdown only takes memory away.
LEMMA ApplicationStep == ASSUME IInv, Application PROVE IInv'
<1> USE DEF shared, libusb, thread
<1>0. TypeOK
  BY DEF IInv
<1>1. CASE InitReadThread
  <2>1. inFlight' = << >> /\ DOMAIN << >> = {} /\ ToSet(<< >>) = {}
    BY <1>1 DEF InitReadThread, Released, ToSet
  <2>2. TypeOK'
    <3>1. 1 \in Buffers /\ "completed" \in Statuses
      BY UsbAssumption DEF Buffers, Statuses, WithData
    <3> QED  BY <1>0, <1>1, <3>1 DEF InitReadThread, TypeOK
  <2>3. FlyingIsQueued' /\ IsInjective(inFlight')
    BY <2>1 DEF FlyingIsQueued, Flying, IsInjective
  <2>4. SubmitsUnqueued' /\ ExitIsClean'
    BY <1>1, UsbAssumption DEF InitReadThread, SubmitsUnqueued, ExitIsClean, Buffers
  <2> QED  BY <2>2, <2>3, <2>4 DEF IInv
<1>2. CASE ShutdownReadThread
  <2>1. TypeOK'
    BY <1>0, <1>2 DEF ShutdownReadThread, TypeOK
  <2> QED  BY <1>2, <2>1, QuietStep DEF ShutdownReadThread
<1>3. CASE Join \/ Terminate
  <2>1. /\ UNCHANGED <<kill, cur, isQueued, lastStatus, event, status, inFlight, asked,
                        callback, plugged>>
        /\ app' = "off" /\ arrived' = << >>
    BY <1>3 DEF Join, Terminate, CleanUp
  <2>2. UNCHANGED tpc \/ tpc' = "terminated"
    BY <1>3 DEF Join, Terminate
  <2>3. TypeOK'
    <3>1. << >> \in Seq(Buffers)
      BY EmptySeq
    <3> QED  BY <1>0, <2>1, <2>2, <3>1 DEF TypeOK, Ended
  <2> QED  BY <2>1, <2>2, <2>3, QuietStep
<1> QED  BY <1>1, <1>2, <1>3 DEF Application

THEOREM Invariance == Spec => []IInv
<1>1. ASSUME IInv, [Next]_vars PROVE IInv'
  <2>1. CASE Next
    BY <1>1, <2>1, ReadThreadStep, LibraryStep, ApplicationStep DEF Next
  <2>2. CASE UNCHANGED vars
    BY <1>1, <2>2
       DEF vars, thread, shared, libusb, IInv, TypeOK, FlyingIsQueued, Flying,
           SubmitsUnqueued, ExitIsClean, AnyTransferQueued
  <2> QED  BY <1>1, <2>1, <2>2
<1> QED  BY Initial, <1>1, PTL DEF Spec

\* The variables of the read thread, of libusb and of the buffers keep to their
\* types, so no index of a buffer leaves the array.
THEOREM TypeCorrect == Spec => []TypeOK
<1>1. IInv => TypeOK
  BY DEF IInv
<1> QED  BY Invariance, <1>1, PTL

\* A read thread that ended of itself leaves no transfer in flight.
THEOREM ExitSafe == Spec => []ExitLeavesNoneInFlight
<1>1. IInv => ExitLeavesNoneInFlight
  <2> SUFFICES ASSUME IInv, tpc = "exited", inFlight # << >>
               PROVE  FALSE
    BY DEF ExitLeavesNoneInFlight, IInv, ExitIsClean
  <2>1. 1 \in DOMAIN inFlight /\ inFlight[1] \in Buffers
    BY LenProperties, EmptySeq, ElementOfSeq DEF IInv, TypeOK
  <2> QED
    BY <2>1 DEF IInv, FlyingIsQueued, Flying, ExitIsClean, AnyTransferQueued, ToSet
<1> QED  BY Invariance, <1>1, PTL

\* What the application is given to read is in flight no more, and no transfer
\* is submitted twice.
THEOREM HandedSafe == Spec => []HandedIsNotInFlight
<1>1. IInv => HandedIsNotInFlight
  BY DEF IInv, TypeOK, FlyingIsQueued, SubmitsUnqueued, HandedIsNotInFlight
<1> QED  BY Invariance, <1>1, PTL

-----------------------------------------------------------------------------
\* What is in flight can be cancelled, and is back before the second wait is
\* over.
CancelsInTime == Faults \cap {"cancel", "slow"} = {}

\* Between bIsQueued = FALSE and the look at the buffer: the callback is at work
\* or has signalled the event.
Coming(b) == event[b] \/ callback.buf = b

BackIsNotQueued ==
    \A b \in Buffers : /\ Coming(b) => ~isQueued[b]
                       /\ event[b] => callback.buf # b

\* Data waits in a buffer that is not queued, and the thread will see that it is
\* there.
ArrivedIsBack ==
    \A b \in ToSet(arrived) :
        /\ ~isQueued[b]
        /\ IF callback = [buf |-> b, next |-> "keep"] THEN status[b] \in WithData
           ELSE lastStatus[b] \in WithData

\* What the thread submits, now or in the rest of its first round, is with nobody
\* else, and holds no data.
SubmitsClean ==
    /\ app = "off" => arrived = << >>
    /\ tpc = "submit" =>
          \A b \in cur .. NumBuffers : ~Coming(b) /\ b \notin ToSet(arrived)
    /\ tpc \in {"look", "handed"} => ~Coming(cur) /\ ~Flying(cur)
    /\ tpc = "handed" => cur \notin ToSet(arrived)

DataInv ==
    /\ IsInjective(arrived)
    /\ ArrivedIsBack
    /\ BackIsNotQueued
    /\ SubmitsClean

LEMMA EmptySeqFacts ==
    ASSUME NEW S
    PROVE  << >> \in Seq(S) /\ ToSet(<< >>) = {} /\ IsInjective(<< >>)
<1>1. DOMAIN << >> = {}
  OBVIOUS
<1> QED  BY <1>1 DEF ToSet, IsInjective

\* Handing over a buffer takes its data, and nothing else, out of what arrived.
LEMMA TakenSet ==
    ASSUME TypeOK, IsInjective(arrived), NEW b
    PROVE  IsInjective(Taken(b)) /\ ToSet(Taken(b)) = ToSet(arrived) \ {b}
<1> DEFINE at == {k \in DOMAIN arrived : arrived[k] = b}
<1>1. arrived \in Seq(Buffers) /\ DOMAIN arrived = 1 .. Len(arrived)
  BY LenProperties DEF TypeOK
<1>2. CASE at = {}
  BY <1>1, <1>2 DEF Taken, ToSet
<1>3. CASE at # {}
  <2> DEFINE k == CHOOSE j \in at : TRUE
  <2>1. k \in 1 .. Len(arrived) /\ arrived[k] = b
    BY <1>1, <1>3
  <2>2. Taken(b) = RemoveAt(arrived, k)
    BY <1>3 DEF Taken
  <2> HIDE DEF k
  <2> QED  BY <1>1, <2>1, <2>2, RemoveAtSet
<1> QED  BY <1>2, <1>3

LEMMA BuffersFrom ==
    ASSUME TypeOK
    PROVE  cur \in cur .. NumBuffers /\ \A b \in cur .. NumBuffers : b \in Buffers
  BY UsbAssumption DEF TypeOK, Buffers

\* A step that moves neither a transfer nor data, and takes the thread to none
\* of the places where it relies on them.
LEMMA DataQuiet ==
    ASSUME IInv, DataInv, app' # "off",
           UNCHANGED <<isQueued, lastStatus, event, status, inFlight, callback, arrived>>,
           UNCHANGED <<tpc, cur>> \/ tpc' \notin {"submit", "look", "handed"}
    PROVE  DataInv'
<1>1. IsInjective(arrived)' /\ ArrivedIsBack' /\ BackIsNotQueued'
  BY DEF DataInv, ArrivedIsBack, BackIsNotQueued, Coming
<1>2. SubmitsClean'
  BY DEF DataInv, SubmitsClean, Coming, Flying
<1> QED  BY <1>1, <1>2 DEF DataInv

\* The thread turns to a buffer that has come back, or that will not.
LEMMA DataLook ==
    ASSUME IInv, DataInv, app' # "off", tpc # "submit", tpc' = "look", UNCHANGED cur,
           ~Flying(cur), callback.buf # cur,
           event' = [event EXCEPT ![cur] = FALSE],
           UNCHANGED <<isQueued, lastStatus, status, inFlight, callback, arrived>>
    PROVE  DataInv'
<1>0. TypeOK
  BY DEF IInv
<1>1. \A b \in Buffers : event'[b] => event[b]
  BY <1>0 DEF TypeOK
<1>2. ~event'[cur]
  BY <1>0 DEF TypeOK
<1>3. IsInjective(arrived)' /\ ArrivedIsBack' /\ BackIsNotQueued'
  BY <1>1 DEF DataInv, ArrivedIsBack, BackIsNotQueued, Coming
<1>4. SubmitsClean'
  BY <1>2 DEF SubmitsClean, Coming, Flying
<1> QED  BY <1>3, <1>4 DEF DataInv

\* A transfer is submitted, or refused.
LEMMA DataSubmit ==
    ASSUME IInv, DataInv, app' # "off", ~Coming(cur), cur \notin ToSet(arrived),
           Queue(cur), UNCHANGED arrived,
           \/ tpc' \notin {"submit", "look", "handed"}
           \/ tpc = "submit" /\ tpc' = "submit" /\ cur' = cur + 1
    PROVE  DataInv'
<1>0. TypeOK /\ cur \in Int /\ NumBuffers \in Int
  BY UsbAssumption DEF IInv, TypeOK, Buffers
<1>1. /\ isQueued' = [isQueued EXCEPT ![cur] = TRUE]
      /\ UNCHANGED <<lastStatus, event, status, callback>>
  BY DEF Queue
<1>2. \A b \in Buffers : b # cur => isQueued'[b] = isQueued[b]
  BY <1>0, <1>1 DEF TypeOK
<1>3. ToSet(arrived) \subseteq Buffers
  BY <1>0, ElementOfSeq DEF TypeOK, ToSet
<1>4. ArrivedIsBack' /\ BackIsNotQueued'
  BY <1>0, <1>1, <1>2, <1>3 DEF DataInv, ArrivedIsBack, BackIsNotQueued, Coming
<1>5. cur' = cur + 1 => \A b \in cur' .. NumBuffers : b \in cur .. NumBuffers
  BY <1>0
<1>6. SubmitsClean'
  BY <1>1, <1>5 DEF DataInv, SubmitsClean, Coming
<1> QED  BY <1>4, <1>6 DEF DataInv

LEMMA DataReadThread ==
    ASSUME IInv, IInv', DataInv, CancelsInTime, ReadThread PROVE DataInv'
<1> USE DEF shared, libusb, thread
<1>0. /\ TypeOK /\ cur \in Buffers /\ cur \in Int /\ NumBuffers \in Int
      /\ app # "off" /\ UNCHANGED app
  BY UsbAssumption
     DEF IInv, TypeOK, Buffers, ReadThread, SubmitAll, Check, Wake, TimeOut, Cancel,
         TimeOutAgain, Look, Resubmit
<1>1. CASE SubmitAll
  <2>1. ~Coming(cur) /\ cur \notin ToSet(arrived)
    BY <1>0, <1>1, BuffersFrom, UsbAssumption
       DEF SubmitAll, DataInv, SubmitsClean, Buffers
  <2>2. \/ tpc' = "check"
        \/ /\ tpc = "submit" /\ tpc' = "submit"
           /\ cur' = cur + 1
    BY <1>1 DEF SubmitAll, NextBuffer
  <2> QED  BY <1>0, <1>1, <2>1, <2>2, DataSubmit DEF SubmitAll
<1>2. CASE Check \/ Wake
  <2>1. CASE event[cur] /\ tpc' = "look"
    <3>1. callback.buf # cur /\ ~isQueued[cur]
      BY <1>0, <2>1 DEF DataInv, BackIsNotQueued, Coming
    <3>2. ~Flying(cur)
      BY <1>0, <3>1 DEF IInv, FlyingIsQueued
    <3> QED  BY <1>0, <1>2, <2>1, <3>1, <3>2, DataLook DEF Check, Wake, Goto
  <2>2. CASE ~(event[cur] /\ tpc' = "look")
    <3>1. UNCHANGED event /\ tpc' \in {"exited", "wait"}
      BY <1>0, <1>2, <2>2 DEF Check, Wake, Goto, TypeOK
    <3> QED  BY <1>0, <1>2, <3>1, DataQuiet DEF Check, Wake
  <2> QED  BY <2>1, <2>2
<1>3. CASE TimeOut \/ Cancel
  BY <1>0, <1>3, DataQuiet DEF TimeOut, Cancel, Goto
<1>4. CASE TimeOutAgain
  <2>1. ~Expected(cur)
    BY <1>4 DEF TimeOutAgain, NotCancelled, CancelsInTime
  <2>2. event' = [event EXCEPT ![cur] = FALSE]
    BY <1>0, <1>4, <2>1 DEF TimeOutAgain, Expected, TypeOK
  <2> QED  BY <1>0, <1>4, <2>1, <2>2, DataLook DEF TimeOutAgain, Goto, Expected
<1>5. CASE Look
  <2>1. CASE tpc' = "handed"
    <3>1. /\ UNCHANGED <<cur, isQueued, lastStatus, event, status, inFlight, callback>>
          /\ tpc = "look"
          /\ arrived' = IF HandsOver(cur) THEN Taken(cur) ELSE arrived
      BY <1>5, <2>1 DEF Look, LookAtNext, HandOver, Goto
    <3>2. ~Coming(cur) /\ ~Flying(cur)
      BY <3>1 DEF DataInv, SubmitsClean
    <3>3. IsInjective(arrived') /\ ToSet(arrived') = ToSet(arrived) \ {cur}
      <4>1. CASE HandsOver(cur)
        BY <1>0, <3>1, <4>1, TakenSet DEF DataInv
      <4>2. CASE ~HandsOver(cur)
        <5>1. cur \notin ToSet(arrived)
          BY <3>2, <4>2 DEF DataInv, ArrivedIsBack, HandsOver, Coming
        <5> QED  BY <3>1, <4>2, <5>1 DEF DataInv
      <4> QED  BY <4>1, <4>2
    <3>4. ArrivedIsBack' /\ BackIsNotQueued'
      BY <3>1, <3>3 DEF DataInv, ArrivedIsBack, BackIsNotQueued, Coming
    <3>5. SubmitsClean'
      BY <1>0, <2>1, <3>1, <3>2, <3>3 DEF SubmitsClean, Coming, Flying
    <3> QED  BY <3>3, <3>4, <3>5 DEF DataInv
  <2>2. CASE tpc' # "handed"
    BY <1>0, <1>5, <2>2, DataQuiet DEF Look, LookAtNext, HandOver, Goto
  <2> QED  BY <2>1, <2>2
<1>6. CASE Resubmit
  <2>1. ~Coming(cur) /\ cur \notin ToSet(arrived)
    BY <1>6 DEF Resubmit, DataInv, SubmitsClean
  <2>2. CASE ~Again
    BY <1>0, <1>6, <2>2, DataQuiet DEF Resubmit, LookAtNext
  <2>3. CASE Again
    BY <1>0, <1>6, <2>1, <2>3, DataSubmit DEF Resubmit, LookAtNext, Goto
  <2> QED  BY <2>2, <2>3
<1> QED  BY <1>1, <1>2, <1>3, <1>4, <1>5, <1>6 DEF ReadThread

\* libusb gives back a transfer: there was no data in its buffer.
LEMMA DataFinished ==
    ASSUME IInv, DataInv, NEW k \in DOMAIN inFlight, NEW st \in Statuses, Finished(k, st)
    PROVE  DataInv'
<1> DEFINE b == inFlight[k]
<1>0. TypeOK /\ arrived \in Seq(Buffers) /\ ToSet(arrived) \subseteq Buffers
  <2>1. TypeOK
    BY DEF IInv
  <2> QED  BY <2>1, ElementOfSeq DEF TypeOK, ToSet
<1>1. /\ k \in 1 .. Len(inFlight) /\ inFlight \in Seq(Buffers) /\ IsInjective(inFlight)
      /\ b \in Buffers /\ b \in ToSet(inFlight)
  BY LenProperties, ElementOfSeq DEF IInv, TypeOK, ToSet
<1>2. /\ app # "off" /\ callback = NoCallback
      /\ inFlight' = RemoveAt(inFlight, k)
      /\ status' = [status EXCEPT ![b] = st]
      /\ isQueued' = [isQueued EXCEPT ![b] = FALSE]
      /\ callback' = [buf |-> b, next |-> "keep"]
      /\ arrived' = IF st \in WithData THEN Append(arrived, b) ELSE arrived
      /\ UNCHANGED <<app, tpc, cur, lastStatus, event>>
  BY DEF Finished, thread
<1>3. ToSet(inFlight') = ToSet(inFlight) \ {b}
  BY <1>1, <1>2, RemoveAtSet
<1> HIDE DEF b
<1>4. isQueued[b] /\ ~Coming(b) /\ b \notin ToSet(arrived)
  BY <1>1 DEF IInv, FlyingIsQueued, Flying, DataInv, BackIsNotQueued, ArrivedIsBack
<1>5. callback.buf \notin Buffers /\ callback.next = "none"
  BY <1>2 DEF NoCallback, Buffers
<1>6. /\ IsInjective(arrived')
      /\ ToSet(arrived') = IF st \in WithData THEN ToSet(arrived) \cup {b} ELSE ToSet(arrived)
  <2>1. CASE st \in WithData
    BY <1>0, <1>1, <1>2, <1>4, <2>1, AppendSet DEF DataInv
  <2>2. CASE st \notin WithData
    BY <1>2, <2>2 DEF DataInv
  <2> QED  BY <2>1, <2>2
<1>7. ArrivedIsBack'
  <2> SUFFICES ASSUME NEW c \in ToSet(arrived')
               PROVE  /\ ~isQueued'[c]
                      /\ IF callback' = [buf |-> c, next |-> "keep"]
                         THEN status'[c] \in WithData ELSE lastStatus[c] \in WithData
    BY <1>2 DEF ArrivedIsBack
  <2>1. CASE c = b
    <3>1. st \in WithData
      BY <1>4, <1>6, <2>1
    <3> QED  BY <1>0, <1>1, <1>2, <2>1, <3>1 DEF TypeOK
  <2>2. CASE c # b
    <3>1. c \in ToSet(arrived)
      BY <1>6, <2>2
    <3>2. ~isQueued[c] /\ lastStatus[c] \in WithData
      BY <1>5, <3>1 DEF DataInv, ArrivedIsBack
    <3> QED  BY <1>0, <1>2, <2>2, <3>1, <3>2 DEF TypeOK
  <2> QED  BY <2>1, <2>2
<1>8. BackIsNotQueued'
  BY <1>0, <1>1, <1>2, <1>4, <1>5 DEF DataInv, BackIsNotQueued, Coming, TypeOK
<1>9. SubmitsClean'
  <2>1. tpc = "submit" => \A c \in cur .. NumBuffers : c # b /\ ~isQueued[c]
    BY <1>4 DEF IInv, SubmitsUnqueued
  <2>2. tpc \in {"look", "handed"} => cur # b
    BY <1>1 DEF DataInv, SubmitsClean, Flying
  <2> QED  BY <1>2, <1>3, <1>5, <1>6, <2>1, <2>2 DEF DataInv, SubmitsClean, Coming, Flying
<1> QED  BY <1>6, <1>7, <1>8, <1>9 DEF DataInv

LEMMA DataLibrary ==
    ASSUME IInv, DataInv,
           \/ \E st \in Statuses : Answer(st)
           \/ Cancelled \/ Disappears \/ Callback \/ Unplug
    PROVE  DataInv'
<1> USE DEF shared, libusb, thread
<1>0. TypeOK /\ {"completed", "cancelled", "error", "nodevice"} \subseteq Statuses
  BY DEF IInv, Statuses, WithData
<1>1. ASSUME NEW st \in Statuses, Answer(st) PROVE DataInv'
  <2>1. 1 \in DOMAIN inFlight
    BY <1>0, <1>1, LenProperties, EmptySeq DEF Answer, TypeOK
  <2> QED  BY <1>1, <2>1, DataFinished DEF Answer
<1>2. CASE Cancelled
  BY <1>0, <1>2, DataFinished DEF Cancelled
<1>3. CASE Disappears
  BY <1>0, <1>3, DataFinished DEF Disappears
<1>4. ToSet(arrived) \subseteq Buffers /\ (tpc \in {"look", "handed"} => cur \in Buffers)
      /\ \A b \in cur .. NumBuffers : b \in Buffers
  BY <1>0, ElementOfSeq, BuffersFrom DEF TypeOK, ToSet
<1>5. CASE KeepStatus
  <2> DEFINE b == callback.buf
  <2>1. /\ b \in Buffers /\ callback = [buf |-> b, next |-> "keep"]
        /\ lastStatus' = [lastStatus EXCEPT ![b] = status[b]]
        /\ callback' = [buf |-> b, next |-> "signal"]
        /\ app # "off"
        /\ UNCHANGED <<app, tpc, cur, isQueued, event, status, inFlight, arrived>>
    BY <1>0, <1>5 DEF KeepStatus, TypeOK, Calls, NoCallback
  <2> HIDE DEF b
  <2>2. ArrivedIsBack'
    <3> SUFFICES ASSUME NEW c \in ToSet(arrived)
                 PROVE  ~isQueued[c] /\ lastStatus'[c] \in WithData
      BY <2>1 DEF ArrivedIsBack
    <3>1. /\ ~isQueued[c]
          /\ IF c = b THEN status[c] \in WithData ELSE lastStatus[c] \in WithData
      BY <2>1 DEF DataInv, ArrivedIsBack
    <3>2. c \in Buffers /\ lastStatus \in [Buffers -> Statuses]
      BY <1>0, <1>4 DEF TypeOK
    <3>3. CASE c = b
      <4>1. lastStatus'[c] = status[c]
        BY <2>1, <3>2, <3>3
      <4>2. status[c] \in WithData
        BY <2>1, <3>1, <3>3
      <4> QED  BY <3>1, <4>1, <4>2
    <3>4. CASE c # b
      BY <2>1, <3>1, <3>2, <3>4
    <3> QED  BY <3>3, <3>4
  <2>3. BackIsNotQueued' /\ SubmitsClean'
    BY <1>4, <2>1 DEF DataInv, BackIsNotQueued, SubmitsClean, Coming, Flying
  <2> QED  BY <2>1, <2>2, <2>3 DEF DataInv
<1>6. CASE Signal
  <2> DEFINE b == callback.buf
  <2>1. /\ b \in Buffers /\ callback.next = "signal"
        /\ event' = [event EXCEPT ![b] = TRUE]
        /\ callback' = NoCallback /\ app # "off"
        /\ UNCHANGED <<app, tpc, cur, isQueued, lastStatus, status, inFlight, arrived>>
    BY <1>0, <1>6 DEF Signal, TypeOK, Calls, NoCallback
  <2>2. callback'.buf \notin Buffers
    BY <2>1 DEF NoCallback, Buffers
  <2>3. \A c \in Buffers : event'[c] <=> Coming(c)
    BY <1>0, <2>1 DEF Coming, TypeOK
  <2>4. ArrivedIsBack'
    <3>1. \A c : LET kept == [buf |-> c, next |-> "keep"] IN callback # kept /\ callback' # kept
      BY <2>1 DEF NoCallback
    <3> QED  BY <2>1, <3>1 DEF DataInv, ArrivedIsBack
  <2>5. BackIsNotQueued' /\ SubmitsClean'
    BY <1>4, <2>1, <2>2, <2>3 DEF DataInv, BackIsNotQueued, SubmitsClean, Coming, Flying
  <2> QED  BY <2>1, <2>4, <2>5 DEF DataInv
<1>7. CASE Unplug
  BY <1>7 DEF Unplug, DataInv, ArrivedIsBack, BackIsNotQueued, SubmitsClean, Coming, Flying
<1> QED  BY <1>1, <1>2, <1>3, <1>5, <1>6, <1>7 DEF Callback

LEMMA DataApplication == ASSUME IInv, DataInv, Application PROVE DataInv'
<1> USE DEF shared, libusb, thread
<1>1. CASE InitReadThread
  <2>1. /\ arrived = << >> /\ arrived' = << >> /\ callback' = NoCallback
        /\ app' = "up" /\ tpc' = "submit"
        /\ event' = [b \in Buffers |-> FALSE]
    BY <1>1 DEF InitReadThread, Released, DataInv, SubmitsClean
  <2>2. cur' = 1 /\ \A b \in Buffers : ~Coming(b)'
    BY <1>1, <2>1 DEF InitReadThread, Coming, NoCallback, Buffers
  <2>3. \A b \in 1 .. NumBuffers : b \in Buffers
    BY DEF Buffers
  <2>4. IsInjective(arrived)' /\ ToSet(arrived') = {}
    BY <2>1, EmptySeqFacts
  <2> QED
    BY <2>1, <2>2, <2>3, <2>4
       DEF DataInv, ArrivedIsBack, BackIsNotQueued, SubmitsClean, Coming
<1>2. CASE ShutdownReadThread
  BY <1>2, DataQuiet DEF ShutdownReadThread
<1>3. CASE Join \/ Terminate
  <2>1. /\ UNCHANGED <<cur, isQueued, event, inFlight, callback>>
        /\ arrived' = << >>
    BY <1>3 DEF Join, Terminate, CleanUp
  <2>2. tpc' \notin {"submit", "look", "handed"}
    BY <1>3 DEF Join, Terminate, Ended
  <2>3. IsInjective(arrived)' /\ ToSet(arrived') = {}
    BY <2>1, EmptySeqFacts
  <2> QED
    BY <2>1, <2>2, <2>3
       DEF DataInv, ArrivedIsBack, BackIsNotQueued, SubmitsClean, Coming, Flying
<1> QED  BY <1>1, <1>2, <1>3 DEF Application

LEMMA DataInvariance == ASSUME CancelsInTime PROVE Spec => [](IInv /\ DataInv)
<1>1. Init => DataInv
  <2> SUFFICES ASSUME Init PROVE DataInv
    OBVIOUS
  <2>1. ToSet(arrived) = {} /\ IsInjective(arrived)
    BY EmptySeqFacts DEF Init
  <2>2. \A b \in Buffers : ~Coming(b)
    BY DEF Init, Coming, NoCallback, Buffers
  <2> QED
    BY <2>1, <2>2 DEF Init, DataInv, ArrivedIsBack, BackIsNotQueued, SubmitsClean, Coming
<1>2. ASSUME IInv, IInv', DataInv, [Next]_vars PROVE DataInv'
  <2>1. CASE Next
    BY <1>2, <2>1, DataReadThread, DataLibrary, DataApplication DEF Next
  <2>2. CASE UNCHANGED vars
    BY <1>2, <2>2
       DEF vars, thread, shared, libusb, DataInv, ArrivedIsBack, BackIsNotQueued,
           SubmitsClean, Coming, Flying
  <2> QED  BY <1>2, <2>1, <2>2
<1> QED  BY Invariance, <1>1, <1>2, PTL DEF Spec

\* As long as transfers can be cancelled and come back in time, none is in flight
\* to a buffer whose data is still to be handed over, whatever is refused,
\* failed or unplugged.
THEOREM DataNotOverwritten == ASSUME CancelsInTime PROVE Spec => []NoneOverwritten
<1>1. IInv /\ DataInv => NoneOverwritten
  <2> SUFFICES ASSUME IInv, DataInv, NEW b \in ToSet(arrived) PROVE ~Flying(b)
    BY DEF NoneOverwritten
  <2>1. b \in Buffers
    BY ElementOfSeq DEF IInv, TypeOK, ToSet
  <2> QED  BY <2>1 DEF DataInv, ArrivedIsBack, IInv, FlyingIsQueued
<1> QED  BY DataInvariance, <1>1, PTL

-----------------------------------------------------------------------------
\* The order of the round: the rank of a buffer counts from the one that the
\* thread looks at, and in the first round from the first.
Looking == {"check", "wait", "cancel", "rewait", "look", "handed"}

Base == IF tpc = "submit" THEN 1 ELSE cur

Rank(base, b) == IF b >= base THEN b - base ELSE b - base + NumBuffers

Ascending(base, s) ==
    \A i, j \in DOMAIN s : i < j => Rank(base, s[i]) < Rank(base, s[j])

\* Only the transfer that the thread waits for a second time is to be cancelled.
AskedIsCurrent ==
    /\ asked \subseteq ToSet(inFlight)
    /\ tpc = "rewait" => asked \subseteq {cur}
    /\ tpc \in {"submit", "check", "wait", "cancel", "look", "handed"} => asked = {}

\* What arrived, and after it what is in flight, is in the order of the round.
InRound ==
    /\ Ascending(Base, arrived)
    /\ Ascending(Base, inFlight)
    /\ \A b \in ToSet(arrived), c \in ToSet(inFlight) : Rank(Base, b) < Rank(Base, c)

\* A buffer that was handed over and not submitted again, since the thread is to
\* end: those are the last of the round, and the thread exits when it comes to
\* the first of them.
Left(b) == ~Expected(b) /\ (tpc \in {"look", "handed"} => b # cur)

RoundIsWaited ==
    /\ tpc = "submit" => \A b \in Buffers : b < cur => Expected(b)
    /\ tpc \in {"wait", "cancel", "rewait"} => Expected(cur)
    /\ tpc \in Looking =>
          \A b \in Buffers : Left(b) =>
             /\ kill
             /\ \A c \in Buffers : Rank(Base, b) < Rank(Base, c) => ~Expected(c)

\* A buffer that came back with data, and was not handed over, is among those
\* that arrived.
BroughtData(b) ==
    \/ /\ \/ event[b]
          \/ callback = [buf |-> b, next |-> "signal"]
          \/ tpc = "look" /\ cur = b
       /\ lastStatus[b] \in WithData
    \/ callback = [buf |-> b, next |-> "keep"] /\ status[b] \in WithData

DataIsArrived == \A b \in Buffers : BroughtData(b) => b \in ToSet(arrived)

RoundInv == InRound /\ RoundIsWaited /\ DataIsArrived

\* The thread goes round, and no submission was refused.
Steady ==
    /\ tpc \in Looking \cup {"submit"}
    /\ \A b \in Buffers : ~Refused(b)

OrderInv == AskedIsCurrent /\ (Steady => RoundInv)

-----------------------------------------------------------------------------
LEMMA RankFacts ==
    ASSUME NEW base \in Buffers
    PROVE  /\ \A b \in Buffers : Rank(base, b) \in 0 .. NumBuffers - 1
           /\ Rank(base, base) = 0
           /\ \A b \in Buffers : b # base => 0 < Rank(base, b)
           /\ \A b \in Buffers : Rank(1, b) = b - 1
  BY UsbAssumption DEF Buffers, Rank

\* When the thread goes on, the buffer behind it becomes the last.
LEMMA RankShift ==
    ASSUME TypeOK
    PROVE  /\ \A b, c \in Buffers : b # cur /\ c # cur =>
                 (Rank(cur, b) < Rank(cur, c) <=> Rank(NextBuffer, b) < Rank(NextBuffer, c))
           /\ \A b \in Buffers : b # cur => Rank(NextBuffer, b) < Rank(NextBuffer, cur)
<1>1. cur \in 1 .. NumBuffers /\ NumBuffers \in Nat \ {0} /\ Buffers = 1 .. NumBuffers
  BY UsbAssumption DEF TypeOK, Buffers
<1>2. CASE cur = NumBuffers
  <2>1. NextBuffer = 1
    BY <1>2 DEF NextBuffer
  <2> QED  BY <1>1, <1>2, <2>1 DEF Rank
<1>3. CASE cur # NumBuffers
  <2>1. NextBuffer = cur + 1
    BY <1>3 DEF NextBuffer
  <2> QED  BY <1>1, <1>3, <2>1 DEF Rank
<1> QED  BY <1>2, <1>3

LEMMA RemoveAscending ==
    ASSUME NEW base, NEW s \in Seq(Buffers), Ascending(base, s), NEW k \in 1 .. Len(s)
    PROVE  Ascending(base, RemoveAt(s, k))
<1> DEFINE r == RemoveAt(s, k)
           at(i) == IF i < k THEN i ELSE i + 1
<1>1. /\ r \in Seq(Buffers) /\ Len(r) = Len(s) - 1
      /\ \A i \in 1 .. Len(s) - 1 : r[i] = s[at(i)]
  BY RemoveAtProperties
<1>2. DOMAIN r = 1 .. Len(s) - 1 /\ DOMAIN s = 1 .. Len(s) /\ Len(s) \in Nat
  BY <1>1, LenProperties
<1>3. \A i \in 1 .. Len(s) - 1 : at(i) \in 1 .. Len(s)
  BY <1>2
<1>4. \A i, j \in 1 .. Len(s) - 1 : i < j => at(i) < at(j)
  BY <1>2
<1> HIDE DEF r, at
<1>5. Ascending(base, r)
  BY <1>1, <1>2, <1>3, <1>4 DEF Ascending
<1> QED  BY <1>5 DEF r

LEMMA AppendAscending ==
    ASSUME NEW base, NEW s \in Seq(Buffers), Ascending(base, s), NEW c \in Buffers,
           \A b \in ToSet(s) : Rank(base, b) < Rank(base, c)
    PROVE  Ascending(base, Append(s, c))
<1> DEFINE r == Append(s, c)
<1>1. /\ r \in Seq(Buffers) /\ Len(r) = Len(s) + 1 /\ Len(s) \in Nat
      /\ \A i \in 1 .. Len(s) : r[i] = s[i]
      /\ r[Len(s) + 1] = c
  BY AppendProperties, LenProperties
<1>2. DOMAIN r = 1 .. Len(s) + 1 /\ DOMAIN s = 1 .. Len(s)
  BY <1>1, LenProperties
<1>3. \A i \in 1 .. Len(s) : s[i] \in ToSet(s)
  BY <1>2 DEF ToSet
<1> HIDE DEF r
<1>4. ASSUME NEW i \in DOMAIN r, NEW j \in DOMAIN r, i < j
      PROVE  Rank(base, r[i]) < Rank(base, r[j])
  <2>1. i \in 1 .. Len(s) /\ (j \in 1 .. Len(s) \/ j = Len(s) + 1)
    BY <1>1, <1>2, <1>4
  <2>2. CASE j \in 1 .. Len(s)
    BY <1>1, <1>2, <1>4, <2>1, <2>2 DEF Ascending
  <2>3. CASE j = Len(s) + 1
    BY <1>1, <1>3, <2>1, <2>3
  <2> QED  BY <2>1, <2>2, <2>3
<1>5. Ascending(base, r)
  BY <1>4 DEF Ascending
<1> QED  BY <1>5 DEF r

\* The buffer of rank 0 can only be the first.
LEMMA FirstOfRound ==
    ASSUME NEW base \in Buffers, NEW s \in Seq(Buffers), Ascending(base, s),
           base \in ToSet(s)
    PROVE  s # << >> /\ Head(s) = base
<1>1. Len(s) \in Nat /\ DOMAIN s = 1 .. Len(s) /\ \A i \in 1 .. Len(s) : s[i] \in Buffers
  BY LenProperties, ElementOfSeq
<1>2. PICK k \in 1 .. Len(s) : s[k] = base
  BY <1>1 DEF ToSet
<1>3. k = 1
  <2> SUFFICES ASSUME k # 1 PROVE FALSE
    OBVIOUS
  <2>1. 1 \in 1 .. Len(s) /\ 1 < k
    BY <1>1
  <2>2. Rank(base, s[1]) < Rank(base, base)
    BY <1>1, <1>2, <2>1 DEF Ascending
  <2>3. Rank(base, s[1]) \in 0 .. NumBuffers - 1 /\ Rank(base, base) = 0
    BY <1>1, <2>1, RankFacts
  <2> QED  BY <2>2, <2>3
<1> QED  BY <1>1, <1>2, <1>3

\* Going on leaves what does not hold the buffer behind in order.
LEMMA ShiftAscending ==
    ASSUME TypeOK, NEW s \in Seq(Buffers), Ascending(cur, s), cur \notin ToSet(s)
    PROVE  Ascending(NextBuffer, s)
<1>1. \A i \in DOMAIN s : s[i] \in Buffers /\ s[i] # cur
  BY ElementOfSeq, LenProperties DEF ToSet
<1> QED  BY <1>1, RankShift DEF Ascending

\* A refused buffer stays so until the thread is started again, so that a step
\* from a state with one leads to another.
LEMMA SteadyBefore ==
    ASSUME IInv, Steady',
           \/ ReadThread \/ ShutdownReadThread
           \/ \E st \in Statuses : Answer(st)
           \/ Cancelled \/ Disappears \/ Callback \/ Unplug
    PROVE  Steady
<1> USE DEF shared, libusb, thread
<1>0. TypeOK
  BY DEF IInv
<1>1. tpc \in Looking \cup {"submit"}
  <2>1. CASE ReadThread
    BY <2>1 DEF ReadThread, SubmitAll, Check, Wake, TimeOut, Cancel, TimeOutAgain, Look,
         Resubmit, Looking
  <2>2. CASE ~ReadThread
    BY <2>2 DEF Steady, ShutdownReadThread, Answer, Cancelled, Disappears, Finished,
         Callback, KeepStatus, Signal, Unplug
  <2> QED  BY <2>1, <2>2
<1>2. ASSUME NEW b \in Buffers, Refused(b) PROVE Refused(b)'
  <2>0. isQueued[b] /\ b \notin ToSet(inFlight)
    BY <1>2 DEF Refused, Flying
  <2>1. CASE SubmitAll \/ (Resubmit /\ Again)
    <3>1. ~isQueued[cur] /\ cur \in Buffers
      BY <1>0, <2>1, BuffersFrom
         DEF SubmitAll, Resubmit, IInv, SubmitsUnqueued, TypeOK
    <3>2. /\ isQueued' = [isQueued EXCEPT ![cur] = TRUE]
          /\ inFlight' = Append(inFlight, cur) \/ UNCHANGED inFlight
      BY <2>1 DEF SubmitAll, Resubmit, Queue, Accepted, Rejected
    <3>3. ToSet(inFlight') \subseteq ToSet(inFlight) \cup {cur}
      <4>1. inFlight \in Seq(Buffers) /\ IsInjective(inFlight) /\ cur \notin ToSet(inFlight)
        BY <3>1 DEF IInv, TypeOK, FlyingIsQueued, Flying
      <4> QED  BY <3>1, <3>2, <4>1, AppendSet
    <3> QED  BY <1>0, <2>0, <3>1, <3>2, <3>3 DEF Refused, Flying, TypeOK
  <2>2. ASSUME NEW k \in DOMAIN inFlight, NEW st, Finished(k, st) PROVE Refused(b)'
    <3>1. /\ inFlight \in Seq(Buffers) /\ IsInjective(inFlight) /\ k \in 1 .. Len(inFlight)
          /\ inFlight[k] \in Buffers /\ inFlight[k] \in ToSet(inFlight)
      BY LenProperties, ElementOfSeq DEF IInv, TypeOK, ToSet
    <3>2. ToSet(inFlight') = ToSet(inFlight) \ {inFlight[k]}
      BY <2>2, <3>1, RemoveAtSet DEF Finished
    <3>3. isQueued' = [isQueued EXCEPT ![inFlight[k]] = FALSE]
      BY <2>2 DEF Finished
    <3> QED  BY <1>0, <2>0, <3>1, <3>2, <3>3 DEF Refused, Flying, TypeOK
  <2>3. CASE \/ \E st \in Statuses : Answer(st)
             \/ Cancelled \/ Disappears
    <3>1. ASSUME NEW st \in Statuses, Answer(st) PROVE Refused(b)'
      <4>1. 1 \in DOMAIN inFlight
        BY <1>0, <3>1, LenProperties, EmptySeq DEF Answer, TypeOK
      <4> QED  BY <2>2, <3>1, <4>1 DEF Answer
    <3> QED  BY <2>2, <2>3, <3>1 DEF Cancelled, Disappears
  <2>4. CASE UNCHANGED <<isQueued, inFlight>>
    BY <1>2, <2>4 DEF Refused, Flying
  <2> QED
    BY <2>1, <2>3, <2>4
       DEF ReadThread, Check, Wake, TimeOut, Cancel, TimeOutAgain, Look, HandOver,
           Resubmit, ShutdownReadThread, Callback, KeepStatus, Signal, Unplug
<1> QED  BY <1>1, <1>2 DEF Steady

LEMMA AskedStep ==
    ASSUME IInv, DataInv, DataInv', AskedIsCurrent, Next
    PROVE  AskedIsCurrent'
<1> USE DEF shared, libusb, thread
<1>0. TypeOK /\ inFlight \in Seq(Buffers) /\ IsInjective(inFlight) /\ cur \in Buffers
  BY DEF IInv, TypeOK
<1>1. CASE SubmitAll \/ Resubmit
  <2>1. /\ UNCHANGED asked /\ asked = {}
        /\ tpc' \in {"submit", "check", "disconnected"}
    BY <1>1 DEF SubmitAll, Resubmit, Queue, LookAtNext, Goto, AskedIsCurrent
  <2> QED  BY <2>1 DEF AskedIsCurrent
<1>2. CASE Cancel
  BY <1>2 DEF Cancel, Goto, AskedIsCurrent, Flying
<1>3. CASE Wake \/ TimeOutAgain
  <2>1. /\ UNCHANGED <<asked, inFlight, cur>> /\ tpc' = "look"
        /\ asked \subseteq {cur}
    BY <1>3 DEF Wake, TimeOutAgain, Goto, AskedIsCurrent
  <2>2. ~Flying(cur)'
    BY <2>1 DEF DataInv, SubmitsClean
  <2> QED  BY <2>1, <2>2 DEF AskedIsCurrent, Flying
<1>4. CASE Check \/ TimeOut \/ Look
  <2>1. /\ UNCHANGED <<asked, inFlight>> /\ asked = {} /\ tpc' # "rewait"
    BY <1>4 DEF Check, TimeOut, Look, LookAtNext, HandOver, Goto, AskedIsCurrent
  <2> QED  BY <2>1 DEF AskedIsCurrent
<1>5. ASSUME NEW k \in DOMAIN inFlight, NEW st, Finished(k, st) PROVE AskedIsCurrent'
  <2>1. k \in 1 .. Len(inFlight) /\ UNCHANGED <<tpc, cur>> /\ asked' = asked \ {inFlight[k]}
    BY <1>0, <1>5, LenProperties DEF Finished
  <2>2. ToSet(inFlight') = ToSet(inFlight) \ {inFlight[k]}
    BY <1>0, <1>5, <2>1, RemoveAtSet DEF Finished
  <2> QED  BY <2>1, <2>2 DEF AskedIsCurrent
<1>6. ASSUME NEW st, Answer(st) PROVE AskedIsCurrent'
  <2>1. 1 \in DOMAIN inFlight
    BY <1>0, <1>6, LenProperties, EmptySeq DEF Answer
  <2> QED  BY <1>5, <1>6, <2>1 DEF Answer
<1>7. CASE Cancelled \/ Disappears
  BY <1>5, <1>7 DEF Cancelled, Disappears
<1>8. CASE Callback \/ Unplug \/ ShutdownReadThread
  BY <1>8 DEF Callback, KeepStatus, Signal, Unplug, ShutdownReadThread, AskedIsCurrent
<1>9. CASE InitReadThread
  <2>1. asked = {} /\ UNCHANGED asked
    BY <1>9, EmptySeqFacts DEF InitReadThread, Released, AskedIsCurrent
  <2> QED  BY <2>1 DEF AskedIsCurrent
<1>10. CASE Join \/ Terminate
  BY <1>10 DEF Join, Terminate, CleanUp, Ended, AskedIsCurrent
<1> QED
  BY <1>1, <1>2, <1>3, <1>4, <1>6, <1>7, <1>8, <1>9, <1>10 DEF Next, ReadThread, Application

\* libusb gives back a transfer, with data only the one that is the next of the
\* round.
LEMMA RoundFinished ==
    ASSUME IInv, DataInv, RoundInv, NEW k \in DOMAIN inFlight, NEW st \in Statuses,
           Finished(k, st),
           st \in WithData => \A j \in DOMAIN inFlight : j # k =>
              Rank(Base, inFlight[k]) < Rank(Base, inFlight[j])
    PROVE  RoundInv'
<1> DEFINE b == inFlight[k]
<1>0. TypeOK /\ arrived \in Seq(Buffers) /\ ToSet(arrived) \subseteq Buffers
  <2>1. TypeOK
    BY DEF IInv
  <2> QED  BY <2>1, ElementOfSeq DEF TypeOK, ToSet
<1>1. /\ k \in 1 .. Len(inFlight) /\ inFlight \in Seq(Buffers) /\ IsInjective(inFlight)
      /\ b \in Buffers /\ b \in ToSet(inFlight)
  BY LenProperties, ElementOfSeq DEF IInv, TypeOK, ToSet
<1>2. /\ callback = NoCallback
      /\ inFlight' = RemoveAt(inFlight, k)
      /\ status' = [status EXCEPT ![b] = st]
      /\ callback' = [buf |-> b, next |-> "keep"]
      /\ arrived' = IF st \in WithData THEN Append(arrived, b) ELSE arrived
      /\ UNCHANGED <<kill, tpc, cur, lastStatus, event>>
  BY DEF Finished, thread
<1>3. ToSet(inFlight') = ToSet(inFlight) \ {b}
  BY <1>1, <1>2, RemoveAtSet
<1>4. st \in WithData => \A c \in ToSet(inFlight') : Rank(Base, b) < Rank(Base, c)
  BY <1>3 DEF ToSet
<1> HIDE DEF b
<1>5. b \notin ToSet(arrived)
  BY <1>1 DEF IInv, FlyingIsQueued, Flying, DataInv, ArrivedIsBack
<1>6. ToSet(arrived') = IF st \in WithData THEN ToSet(arrived) \cup {b} ELSE ToSet(arrived)
  <2>1. CASE st \in WithData
    BY <1>0, <1>1, <1>2, <1>5, <2>1, AppendSet DEF DataInv
  <2>2. CASE st \notin WithData
    BY <1>2, <2>2
  <2> QED  BY <2>1, <2>2
<1>7. Base' = Base
  BY <1>2 DEF Base
<1>8. InRound'
  <2>1. Ascending(Base, inFlight')
    BY <1>1, <1>2, RemoveAscending DEF RoundInv, InRound
  <2>2. Ascending(Base, arrived')
    <3>1. \A c \in ToSet(arrived) : Rank(Base, c) < Rank(Base, b)
      BY <1>1 DEF RoundInv, InRound
    <3>2. CASE st \in WithData
      BY <1>0, <1>1, <1>2, <3>1, <3>2, AppendAscending DEF RoundInv, InRound
    <3>3. CASE st \notin WithData
      BY <1>2, <3>3 DEF RoundInv, InRound
    <3> QED  BY <3>2, <3>3
  <2>3. \A c \in ToSet(arrived'), d \in ToSet(inFlight') : Rank(Base, c) < Rank(Base, d)
    BY <1>3, <1>4, <1>6 DEF RoundInv, InRound
  <2> QED  BY <1>7, <2>1, <2>2, <2>3 DEF InRound
<1>9. \A c \in Buffers : Expected(c)' <=> Expected(c)
  <2>1. callback.buf \notin Buffers
    BY <1>2 DEF NoCallback, Buffers
  <2> QED  BY <1>1, <1>2, <1>3, <2>1 DEF Expected, Flying
<1>10. RoundIsWaited'
  <2>1. \A c \in Buffers : Left(c)' <=> Left(c)
    BY <1>2, <1>9 DEF Left
  <2> QED  BY <1>0, <1>2, <1>7, <1>9, <2>1 DEF RoundInv, RoundIsWaited, TypeOK
<1>11. DataIsArrived'
  <2> SUFFICES ASSUME NEW c \in Buffers, BroughtData(c)' PROVE c \in ToSet(arrived')
    BY DEF DataIsArrived
  <2>1. CASE callback' = [buf |-> c, next |-> "keep"] /\ status'[c] \in WithData
    <3>1. c = b /\ st \in WithData
      BY <1>0, <1>1, <1>2, <2>1 DEF TypeOK
    <3> QED  BY <1>6, <3>1
  <2>2. CASE (event[c] \/ (tpc = "look" /\ cur = c)) /\ lastStatus[c] \in WithData
    BY <1>6, <2>2 DEF RoundInv, DataIsArrived, BroughtData
  <2>3. callback' # [buf |-> c, next |-> "signal"]
    BY <1>2
  <2> QED  BY <1>2, <2>1, <2>2, <2>3 DEF BroughtData
<1> QED  BY <1>8, <1>10, <1>11 DEF RoundInv

LEMMA RoundLibrary ==
    ASSUME IInv, DataInv, AskedIsCurrent, RoundInv, Steady,
           \/ \E st \in Statuses : Answer(st)
           \/ Cancelled \/ Disappears \/ Callback \/ Unplug \/ ShutdownReadThread
    PROVE  RoundInv'
<1> USE DEF shared, libusb, thread
<1>0. TypeOK /\ {"completed", "cancelled", "error", "nodevice"} \subseteq Statuses
  BY DEF IInv, Statuses, WithData
<1>1. inFlight \in Seq(Buffers) /\ DOMAIN inFlight = 1 .. Len(inFlight) /\ cur \in Buffers
  BY <1>0, LenProperties DEF TypeOK
<1>2. ASSUME NEW st \in Statuses, Answer(st) PROVE RoundInv'
  <2>1. 1 \in DOMAIN inFlight
    BY <1>1, <1>2, LenProperties, EmptySeq DEF Answer
  <2>2. \A j \in DOMAIN inFlight : j # 1 => Rank(Base, inFlight[1]) < Rank(Base, inFlight[j])
    BY <1>1, <2>1 DEF RoundInv, InRound, Ascending
  <2> QED  BY <1>2, <2>1, <2>2, RoundFinished DEF Answer
<1>3. CASE Cancelled
  <2>1. PICK k \in DOMAIN inFlight : inFlight[k] \in asked /\ Finished(k, "cancelled")
    BY <1>3 DEF Cancelled
  <2>2. inFlight[k] = cur /\ Base = cur
    BY <2>1 DEF AskedIsCurrent, Steady, Looking, Base
  <2>3. \A j \in DOMAIN inFlight : j # k => inFlight[j] \in Buffers /\ inFlight[j] # cur
    BY <1>1, <2>1, <2>2, ElementOfSeq DEF IInv, IsInjective
  <2>4. \A j \in DOMAIN inFlight : j # k => Rank(Base, inFlight[k]) < Rank(Base, inFlight[j])
    <3>1. Rank(cur, cur) = 0 /\ \A c \in Buffers : c # cur => 0 < Rank(cur, c)
      BY <1>1, RankFacts
    <3> QED  BY <2>2, <2>3, <3>1
  <2> QED  BY <1>0, <2>1, <2>4, RoundFinished
<1>4. CASE Disappears
  <2>1. "nodevice" \notin WithData
    BY DEF WithData
  <2> QED  BY <1>0, <1>4, <2>1, RoundFinished DEF Disappears
<1>5. ASSUME UNCHANGED <<tpc, cur, inFlight, arrived>>, kill => kill',
             \A c \in Buffers : Expected(c)' <=> Expected(c),
             \A c \in Buffers : BroughtData(c)' => BroughtData(c)
      PROVE  RoundInv'
  <2>1. Base' = Base /\ InRound'
    BY <1>5 DEF Base, RoundInv, InRound
  <2>2. \A c \in Buffers : Left(c)' <=> Left(c)
    BY <1>5 DEF Left
  <2>3. RoundIsWaited' /\ DataIsArrived'
    BY <1>1, <1>5, <2>1, <2>2 DEF RoundInv, RoundIsWaited, DataIsArrived
  <2> QED  BY <2>1, <2>3 DEF RoundInv
<1>6. CASE KeepStatus
  <2> DEFINE b == callback.buf
  <2>1. /\ b \in Buffers /\ callback = [buf |-> b, next |-> "keep"]
        /\ lastStatus' = [lastStatus EXCEPT ![b] = status[b]]
        /\ callback' = [buf |-> b, next |-> "signal"]
        /\ UNCHANGED <<kill, tpc, cur, event, status, inFlight, arrived>>
    BY <1>0, <1>6 DEF KeepStatus, TypeOK, Calls, NoCallback
  <2> HIDE DEF b
  <2>2. \A c \in Buffers : Expected(c)' <=> Expected(c)
    BY <2>1 DEF Expected, Flying
  <2>3. ~event[b] /\ ~(tpc = "look" /\ cur = b)
    BY <2>1 DEF DataInv, BackIsNotQueued, SubmitsClean, Coming
  <2>4. ASSUME NEW c \in Buffers, BroughtData(c)' PROVE BroughtData(c)
    <3>1. CASE c = b
      <4>1. lastStatus'[c] = status[c] /\ callback' # [buf |-> c, next |-> "keep"]
        BY <1>0, <2>1, <3>1 DEF TypeOK
      <4>2. status[c] \in WithData
        BY <2>1, <2>4, <4>1 DEF BroughtData
      <4> QED  BY <2>1, <3>1, <4>2 DEF BroughtData
    <3>2. CASE c # b
      BY <1>0, <2>1, <2>4, <3>2 DEF BroughtData, TypeOK
    <3> QED  BY <3>1, <3>2
  <2> QED  BY <1>5, <2>1, <2>2, <2>4
<1>7. CASE Signal
  <2> DEFINE b == callback.buf
  <2>1. /\ b \in Buffers /\ callback = [buf |-> b, next |-> "signal"]
        /\ event' = [event EXCEPT ![b] = TRUE]
        /\ callback' = NoCallback
        /\ UNCHANGED <<kill, tpc, cur, lastStatus, status, inFlight, arrived>>
    BY <1>0, <1>7 DEF Signal, TypeOK, Calls, NoCallback
  <2> HIDE DEF b
  <2>2. \A c \in Buffers : callback'.buf # c /\ callback'.next = "none"
    BY <2>1 DEF NoCallback, Buffers
  <2>3. \A c \in Buffers : event'[c] <=> event[c] \/ c = b
    BY <1>0, <2>1 DEF TypeOK
  <2>4. \A c \in Buffers : Expected(c)' <=> Expected(c)
    BY <2>1, <2>2, <2>3 DEF Expected, Flying
  <2>5. ASSUME NEW c \in Buffers, BroughtData(c)' PROVE BroughtData(c)
    BY <2>1, <2>2, <2>3, <2>5 DEF BroughtData
  <2> QED  BY <1>5, <2>1, <2>4, <2>5
<1>8. CASE Unplug \/ ShutdownReadThread
  <2>1. /\ UNCHANGED <<tpc, cur, event, lastStatus, status, inFlight, callback, arrived>>
        /\ kill => kill'
    BY <1>8 DEF Unplug, ShutdownReadThread
  <2>2. \A c \in Buffers : /\ Expected(c)' <=> Expected(c)
                           /\ BroughtData(c)' => BroughtData(c)
    BY <2>1 DEF Expected, Flying, BroughtData
  <2> QED  BY <1>5, <2>1, <2>2
<1> QED  BY <1>2, <1>3, <1>4, <1>6, <1>7, <1>8 DEF Callback

\* The thread moves on with the buffer it looks at: what is expected does not
\* become more.
LEMMA RoundOnward ==
    ASSUME IInv, RoundInv, tpc \in Looking, tpc' \in Looking,
           tpc \in {"look", "handed"} => tpc' \in {"look", "handed"},
           UNCHANGED <<cur, kill, inFlight, arrived>>,
           \A b \in Buffers : Expected(b)' => Expected(b),
           \A b \in Buffers : b # cur => (Expected(b)' <=> Expected(b)),
           Expected(cur)' \/ tpc' \in {"look", "handed"},
           DataIsArrived'
    PROVE  RoundInv'
<1>0. cur \in Buffers /\ tpc # "submit" /\ tpc' # "submit"
  BY DEF IInv, TypeOK, Looking
<1>1. Base' = Base /\ InRound'
  BY <1>0 DEF Base, RoundInv, InRound
<1>2. \A b \in Buffers : Left(b)' => Left(b)
  BY DEF Left
<1>3. tpc' \in {"wait", "cancel", "rewait"} => Expected(cur)'
  OBVIOUS
<1>4. RoundIsWaited'
  BY <1>0, <1>1, <1>2, <1>3 DEF RoundInv, RoundIsWaited
<1> QED  BY <1>1, <1>4 DEF RoundInv

\* A submission that is accepted.
LEMMA RoundSubmit ==
    ASSUME IInv, IInv', DataInv, RoundInv, Steady', ~isQueued[cur], Queue(cur),
           Accepted(cur) \/ Rejected
    PROVE  /\ inFlight' = Append(inFlight, cur)
           /\ ToSet(inFlight') = ToSet(inFlight) \cup {cur}
           /\ cur \notin ToSet(inFlight)
           /\ \A b \in Buffers : Expected(b)' <=> Expected(b) \/ b = cur
<1>0. /\ inFlight \in Seq(Buffers) /\ IsInjective(inFlight) /\ cur \in Buffers
      /\ cur \notin ToSet(inFlight) /\ isQueued \in [Buffers -> BOOLEAN]
  BY DEF IInv, TypeOK, FlyingIsQueued, Flying
<1>1. /\ isQueued' = [isQueued EXCEPT ![cur] = TRUE] /\ UNCHANGED <<event, callback>>
  BY DEF Queue
<1>2. \A b \in Buffers : isQueued'[b] => b \in ToSet(inFlight')
  BY DEF Steady, Refused, Flying
<1>3. inFlight' = Append(inFlight, cur)
  BY <1>0, <1>1, <1>2 DEF Accepted, Rejected
<1>4. ToSet(inFlight') = ToSet(inFlight) \cup {cur}
  BY <1>0, <1>3, AppendSet
<1> QED  BY <1>0, <1>1, <1>3, <1>4 DEF Expected, Flying

LEMMA RoundSubmitAll ==
    ASSUME IInv, IInv', DataInv, RoundInv, Steady', SubmitAll
    PROVE  RoundInv'
<1> USE DEF shared, libusb, thread
<1>0. /\ TypeOK /\ cur \in 1 .. NumBuffers /\ NumBuffers \in Nat /\ Buffers = 1 .. NumBuffers
      /\ inFlight \in Seq(Buffers) /\ 1 \in Buffers
  BY UsbAssumption DEF IInv, TypeOK, Buffers
<1>1. /\ Queue(cur) /\ (Accepted(cur) \/ Rejected) /\ tpc = "submit"
      /\ UNCHANGED <<kill, lastStatus, event, status, callback, arrived>>
  BY DEF SubmitAll, Queue
<1>2. \A b \in cur .. NumBuffers : ~isQueued[b] /\ b \notin ToSet(arrived)
  BY <1>1 DEF IInv, SubmitsUnqueued, DataInv, SubmitsClean
<1>3. /\ inFlight' = Append(inFlight, cur)
      /\ ToSet(inFlight') = ToSet(inFlight) \cup {cur}
      /\ \A b \in Buffers : Expected(b)' <=> Expected(b) \/ b = cur
  BY <1>0, <1>1, <1>2, BuffersFrom, RoundSubmit
<1>4. \A b \in ToSet(inFlight) \cup ToSet(arrived) : b \in 1 .. cur - 1
  <2> SUFFICES ASSUME NEW b \in ToSet(inFlight) \cup ToSet(arrived) PROVE b \in 1 .. cur - 1
    OBVIOUS
  <2>1. b \in Buffers
    BY <1>0, ElementOfSeq DEF TypeOK, ToSet
  <2>2. b \notin cur .. NumBuffers
    BY <1>2, <2>1 DEF IInv, FlyingIsQueued, Flying
  <2> QED  BY <1>0, <2>1, <2>2
<1>5. Base = 1 /\ Base' = 1
  BY <1>1 DEF Base, SubmitAll, NextBuffer
<1>6. \A b \in ToSet(inFlight) \cup ToSet(arrived) : Rank(1, b) < Rank(1, cur)
  BY <1>0, <1>4 DEF Rank
<1>7. InRound'
  <2>1. Ascending(1, inFlight')
    BY <1>0, <1>3, <1>5, <1>6, AppendAscending DEF RoundInv, InRound
  <2> QED  BY <1>1, <1>3, <1>5, <1>6, <2>1 DEF RoundInv, InRound
<1>8. RoundIsWaited'
  <2>1. \A b \in Buffers : b < cur => Expected(b)
    BY <1>1 DEF RoundInv, RoundIsWaited
  <2>2. CASE tpc' = "submit"
    <3>1. cur' = cur + 1
      BY <2>2 DEF SubmitAll, NextBuffer
    <3>2. \A b \in Buffers : b < cur + 1 => b < cur \/ b = cur
      BY <1>0
    <3> QED  BY <1>3, <2>1, <2>2, <3>1, <3>2 DEF RoundIsWaited, Looking
  <2>3. CASE tpc' = "check"
    <3>1. \A b \in Buffers : b < cur \/ b = cur
      BY <1>0, <2>3 DEF SubmitAll
    <3>2. \A b \in Buffers : Expected(b)'
      BY <1>3, <2>1, <3>1
    <3> QED  BY <2>3, <3>2 DEF RoundIsWaited, Left
  <2> QED  BY <2>2, <2>3 DEF SubmitAll
<1>9. DataIsArrived'
  <2>1. \A b \in Buffers : BroughtData(b)' => BroughtData(b)
    BY <1>1 DEF BroughtData, SubmitAll
  <2> QED  BY <1>1, <2>1 DEF RoundInv, DataIsArrived
<1> QED  BY <1>7, <1>8, <1>9 DEF RoundInv

\* The thread hands over a buffer, which is the one that arrived first.
LEMMA RoundHandOver ==
    ASSUME IInv, IInv', DataInv, RoundInv, Look, tpc' = "handed"
    PROVE  /\ RoundInv'
           /\ lastStatus[cur] \in WithData => arrived # << >> /\ Head(arrived) = cur
<1> USE DEF shared, libusb, thread
<1>0. TypeOK /\ cur \in Buffers /\ arrived \in Seq(Buffers)
  BY DEF IInv, TypeOK
<1>1. /\ tpc = "look"
      /\ UNCHANGED <<cur, kill, lastStatus, event, status, inFlight, callback>>
      /\ arrived' = IF HandsOver(cur) THEN Taken(cur) ELSE arrived
  BY DEF Look, LookAtNext, HandOver, Goto
<1>2. Base = cur /\ Base' = cur
  BY <1>1 DEF Base
<1>3. lastStatus[cur] \in WithData => arrived # << >> /\ Head(arrived) = cur
  <2> HAVE lastStatus[cur] \in WithData
  <2>1. cur \in ToSet(arrived)
    BY <1>0, <1>1 DEF RoundInv, DataIsArrived, BroughtData
  <2> QED  BY <1>0, <1>2, <2>1, FirstOfRound DEF RoundInv, InRound
<1>4. ToSet(arrived') = IF HandsOver(cur) THEN ToSet(arrived) \ {cur} ELSE ToSet(arrived)
  BY <1>0, <1>1, TakenSet DEF DataInv
<1>5. Ascending(cur, arrived')
  <2> DEFINE at == {k \in DOMAIN arrived : arrived[k] = cur}
  <2>1. Ascending(cur, arrived)
    BY <1>2 DEF RoundInv, InRound
  <2>2. CASE arrived' = arrived
    BY <2>1, <2>2
  <2>3. CASE arrived' # arrived
    <3>1. at # {} /\ arrived' = RemoveAt(arrived, CHOOSE k \in at : TRUE)
      BY <1>1, <2>3 DEF Taken
    <3>2. (CHOOSE k \in at : TRUE) \in 1 .. Len(arrived)
      BY <1>0, <3>1, LenProperties
    <3> HIDE DEF at
    <3> QED  BY <1>0, <2>1, <3>1, <3>2, RemoveAscending
  <2> QED  BY <2>2, <2>3
<1>6. InRound'
  BY <1>1, <1>2, <1>4, <1>5 DEF RoundInv, InRound
<1>7. \A b \in Buffers : Expected(b)' <=> Expected(b)
  BY <1>1 DEF Expected, Flying
<1>8. RoundIsWaited'
  <2>1. \A b \in Buffers : Left(b)' <=> Left(b)
    BY <1>1, <1>7 DEF Left
  <2> QED  BY <1>1, <1>2, <1>7, <2>1 DEF RoundInv, RoundIsWaited, Looking
<1>9. DataIsArrived'
  <2> SUFFICES ASSUME NEW b \in Buffers, BroughtData(b)' PROVE b \in ToSet(arrived')
    BY DEF DataIsArrived
  <2>1. ~Coming(cur)
    BY <1>1 DEF DataInv, SubmitsClean
  <2>2. BroughtData(b) /\ b # cur
    BY <1>1, <2>1 DEF BroughtData, Coming
  <2> QED  BY <1>4, <2>2 DEF RoundInv, DataIsArrived
<1> QED  BY <1>3, <1>6, <1>8, <1>9 DEF RoundInv

\* The thread goes on behind a buffer that it submits again, or leaves.
LEMMA RoundResubmit ==
    ASSUME IInv, IInv', DataInv, RoundInv, Steady', Resubmit
    PROVE  RoundInv'
<1> USE DEF shared, libusb, thread
<1>0. TypeOK /\ cur \in Buffers /\ NextBuffer \in Buffers
      /\ inFlight \in Seq(Buffers) /\ arrived \in Seq(Buffers)
  BY NextIsBuffer DEF IInv, TypeOK
<1>1. /\ tpc = "handed" /\ tpc' = "check" /\ cur' = NextBuffer
      /\ UNCHANGED <<kill, lastStatus, event, status, callback, arrived>>
  BY DEF Resubmit, LookAtNext, Goto, Queue, Steady, Looking
<1>2. ~Coming(cur) /\ ~Flying(cur) /\ cur \notin ToSet(arrived)
  BY <1>1 DEF DataInv, SubmitsClean
<1>3. Base = cur /\ Base' = NextBuffer
  BY <1>1 DEF Base
<1>4. \/ /\ UNCHANGED inFlight /\ kill
         /\ \A b \in Buffers : Expected(b)' <=> Expected(b)
      \/ /\ inFlight' = Append(inFlight, cur) /\ ~kill
         /\ ToSet(inFlight') = ToSet(inFlight) \cup {cur}
         /\ \A b \in Buffers : Expected(b)' <=> Expected(b) \/ b = cur
  <2>1. CASE Again
    <3>1. Queue(cur) /\ (Accepted(cur) \/ Rejected) /\ ~isQueued[cur]
      BY <1>1, <2>1 DEF Resubmit, IInv, SubmitsUnqueued
    <3> QED  BY <2>1, <3>1, RoundSubmit DEF Again
  <2>2. CASE ~Again
    <3>1. UNCHANGED <<inFlight, event, callback>> /\ kill
      BY <2>2 DEF Resubmit, Again
    <3> QED  BY <3>1 DEF Expected, Flying
  <2> QED  BY <2>1, <2>2
<1>5. ToSet(arrived) \subseteq Buffers \ {cur} /\ ToSet(inFlight) \subseteq Buffers \ {cur}
  BY <1>0, <1>2, ElementOfSeq DEF ToSet, Flying
<1>6. \A b \in Buffers : b # cur => Rank(NextBuffer, b) < Rank(NextBuffer, cur)
  BY <1>0, RankShift
<1>7. InRound'
  <2>1. Ascending(NextBuffer, arrived) /\ Ascending(NextBuffer, inFlight)
    BY <1>0, <1>2, <1>3, ShiftAscending DEF RoundInv, InRound, Flying
  <2>2. Ascending(NextBuffer, inFlight')
    BY <1>0, <1>4, <1>5, <1>6, <2>1, AppendAscending
  <2>3. \A b \in ToSet(arrived), c \in ToSet(inFlight) :
            Rank(NextBuffer, b) < Rank(NextBuffer, c)
    BY <1>0, <1>3, <1>5, RankShift DEF RoundInv, InRound
  <2>4. \A b \in ToSet(arrived), c \in ToSet(inFlight') :
            Rank(NextBuffer, b) < Rank(NextBuffer, c)
    BY <1>4, <1>5, <1>6, <2>3
  <2> QED  BY <1>1, <1>3, <2>1, <2>2, <2>4 DEF InRound
<1>8. RoundIsWaited'
  <2> SUFFICES ASSUME NEW b \in Buffers, ~Expected(b)'
               PROVE  /\ kill
                      /\ \A c \in Buffers :
                            Rank(NextBuffer, b) < Rank(NextBuffer, c) => ~Expected(c)'
    BY <1>1, <1>3 DEF RoundIsWaited, Left
  <2>1. ASSUME b # cur
        PROVE  kill /\ \A c \in Buffers : Rank(cur, b) < Rank(cur, c) => ~Expected(c)
    <3>1. Left(b)
      BY <1>4, <2>1 DEF Left
    <3> QED  BY <1>1, <1>3, <3>1 DEF RoundInv, RoundIsWaited, Looking
  <2>2. kill
    BY <1>4, <2>1
  <2>3. \A c \in Buffers : Expected(c)' <=> Expected(c)
    BY <1>4, <2>2
  <2>4. ~Expected(cur)
    BY <1>2 DEF Expected, Coming
  <2>5. ASSUME NEW c \in Buffers, Rank(NextBuffer, b) < Rank(NextBuffer, c)
        PROVE  ~Expected(c)
    <3>1. CASE c = cur
      BY <2>4, <3>1
    <3>2. CASE c # cur /\ b = cur
      <4>1. Rank(NextBuffer, c) < Rank(NextBuffer, b)
        BY <1>6, <3>2
      <4>2. Rank(NextBuffer, c) \in Int /\ Rank(NextBuffer, b) \in Int
        BY <1>0, RankFacts
      <4> QED  BY <2>5, <4>1, <4>2
    <3>3. CASE c # cur /\ b # cur
      <4>1. Rank(cur, b) < Rank(cur, c)
        BY <1>0, <2>5, <3>3, RankShift
      <4> QED  BY <2>1, <3>3, <4>1
    <3> QED  BY <3>1, <3>2, <3>3
  <2> QED  BY <2>2, <2>3, <2>5
<1>9. DataIsArrived'
  <2>1. \A b \in Buffers : BroughtData(b)' => BroughtData(b)
    BY <1>1 DEF BroughtData
  <2> QED  BY <1>1, <2>1 DEF RoundInv, DataIsArrived
<1> QED  BY <1>7, <1>8, <1>9 DEF RoundInv

LEMMA RoundReadThread ==
    ASSUME IInv, IInv', DataInv, RoundInv, CancelsInTime, Steady, Steady', ReadThread
    PROVE  RoundInv'
<1> USE DEF shared, libusb, thread
<1>0. TypeOK /\ cur \in Buffers
  BY DEF IInv, TypeOK
<1>1. CASE SubmitAll
  BY <1>1, RoundSubmitAll
<1>2. CASE (Check \/ Wake) /\ event[cur] /\ tpc' = "look"
  <2>1. /\ tpc \in Looking \ {"look", "handed"} /\ tpc' \in Looking
        /\ event' = [event EXCEPT ![cur] = FALSE]
        /\ UNCHANGED <<cur, kill, lastStatus, status, inFlight, callback, arrived>>
    BY <1>2 DEF Check, Wake, Goto, Looking
  <2>2. \A b \in Buffers : (event'[b] => event[b]) /\ (b # cur => event'[b] = event[b])
    BY <1>0, <2>1 DEF TypeOK
  <2>3. \A b \in Buffers : /\ Expected(b)' => Expected(b)
                           /\ b # cur => (Expected(b)' <=> Expected(b))
    BY <2>1, <2>2 DEF Expected, Flying
  <2>4. \A b \in Buffers : BroughtData(b)' => BroughtData(b)
    BY <1>2, <2>1, <2>2 DEF BroughtData
  <2>5. DataIsArrived'
    BY <2>1, <2>4 DEF RoundInv, DataIsArrived
  <2> QED  BY <1>2, <2>1, <2>3, <2>5, RoundOnward
<1>3. CASE Check /\ tpc' = "wait"
  <2>1. /\ tpc = "check" /\ ~event[cur] /\ ~(kill /\ ~AnyTransferQueued)
        /\ event' = [event EXCEPT ![cur] = FALSE]
        /\ UNCHANGED <<cur, kill, lastStatus, status, inFlight, callback, arrived>>
    BY <1>3 DEF Check, Goto
  <2>2. UNCHANGED event
    BY <1>0, <2>1 DEF TypeOK
  <2>3. \A b \in Buffers : Expected(b)' <=> Expected(b)
    BY <2>1, <2>2 DEF Expected, Flying
  <2>4. Expected(cur)
    <3> SUFFICES ASSUME ~Expected(cur) PROVE FALSE
      OBVIOUS
    <3>1. Base = cur /\ Left(cur)
      BY <2>1 DEF Base, Left
    <3>2. /\ kill
          /\ \A c \in Buffers : Rank(cur, cur) < Rank(cur, c) => ~Expected(c)
      BY <1>0, <2>1, <3>1 DEF RoundInv, RoundIsWaited, Looking
    <3>3. \A c \in Buffers : ~Expected(c)
      BY <1>0, <3>2, RankFacts
    <3>4. \A c \in Buffers : ~isQueued[c]
      BY <3>3 DEF Steady, Refused, Expected
    <3> QED  BY <2>1, <3>2, <3>4 DEF AnyTransferQueued
  <2>5. DataIsArrived'
    <3>1. \A b \in Buffers : BroughtData(b)' => BroughtData(b)
      BY <1>3, <2>1, <2>2 DEF BroughtData
    <3> QED  BY <2>1, <3>1 DEF RoundInv, DataIsArrived
  <2> QED  BY <1>0, <1>3, <2>1, <2>3, <2>4, <2>5, RoundOnward DEF Looking
<1>4. CASE TimeOut \/ Cancel
  <2>1. /\ tpc \in {"wait", "cancel"} /\ tpc' \in {"cancel", "rewait"}
        /\ UNCHANGED <<cur, kill, event, lastStatus, status, inFlight, callback, arrived>>
    BY <1>4 DEF TimeOut, Cancel, Goto, Steady, Looking
  <2>2. \A b \in Buffers : Expected(b)' <=> Expected(b)
    BY <2>1 DEF Expected, Flying
  <2>3. Expected(cur)
    BY <2>1 DEF RoundInv, RoundIsWaited
  <2>4. DataIsArrived'
    <3>1. \A b \in Buffers : BroughtData(b)' => BroughtData(b)
      BY <2>1 DEF BroughtData
    <3> QED  BY <2>1, <3>1 DEF RoundInv, DataIsArrived
  <2> QED  BY <1>0, <2>1, <2>2, <2>3, <2>4, RoundOnward DEF Looking
<1>5. ~TimeOutAgain
  BY DEF TimeOutAgain, NotCancelled, RoundInv, RoundIsWaited, CancelsInTime
<1>6. CASE Look
  <2>1. Done(cur)
    <3>1. ~Flying(cur) /\ ~Refused(cur)
      BY <1>0, <1>6 DEF Look, DataInv, SubmitsClean, Steady
    <3> QED  BY <3>1 DEF Refused, Done
  <2>2. tpc' = "handed"
    BY <1>6, <2>1 DEF Look, Goto, HandOver, Steady, Looking
  <2> QED  BY <1>6, <2>2, RoundHandOver
<1>7. CASE Resubmit
  BY <1>7, RoundResubmit
<1>8. Check => tpc' = "wait" \/ (event[cur] /\ tpc' = "look")
  BY DEF Check, Goto, Steady, Looking
<1>9. Wake => event[cur] /\ tpc' = "look"
  BY DEF Wake, Goto
<1> QED
  BY <1>1, <1>2, <1>3, <1>4, <1>5, <1>6, <1>7, <1>8, <1>9 DEF ReadThread

LEMMA OrderInvariance == ASSUME CancelsInTime PROVE Spec => [](IInv /\ DataInv /\ OrderInv)
<1>1. Init => OrderInv
  <2>1. ASSUME Init PROVE OrderInv
    BY <2>1 DEF Init, OrderInv, AskedIsCurrent, Steady, Looking
  <2> QED  BY <2>1
<1>2. ASSUME IInv, IInv', DataInv, DataInv', OrderInv, [Next]_vars PROVE OrderInv'
  <2>1. CASE Next
    <3>1. AskedIsCurrent'
      BY <1>2, <2>1, AskedStep DEF OrderInv
    <3>2. ASSUME Steady' PROVE RoundInv'
      <4>1. CASE ReadThread
        <5>1. Steady
          BY <1>2, <3>2, <4>1, SteadyBefore
        <5> QED  BY <1>2, <3>2, <4>1, <5>1, RoundReadThread DEF OrderInv
      <4>2. CASE \/ \E st \in Statuses : Answer(st)
                 \/ Cancelled \/ Disappears \/ Callback \/ Unplug \/ ShutdownReadThread
        <5>1. Steady
          BY <1>2, <3>2, <4>2, SteadyBefore
        <5> QED  BY <1>2, <4>2, <5>1, RoundLibrary DEF OrderInv
      <4>3. CASE InitReadThread
        <5>1. /\ tpc' = "submit" /\ cur' = 1 /\ callback' = NoCallback
              /\ event' = [b \in Buffers |-> FALSE]
              /\ inFlight' = << >> /\ arrived' = << >>
          BY <1>2, <4>3 DEF InitReadThread, Released, DataInv, SubmitsClean
        <5>2. DOMAIN << >> = {} /\ ToSet(<< >>) = {}
          BY EmptySeqFacts
        <5>3. InRound'
          BY <5>1, <5>2 DEF InRound, Ascending
        <5>4. RoundIsWaited'
          BY <5>1, UsbAssumption DEF RoundIsWaited, Looking, Buffers
        <5>5. DataIsArrived'
          BY <5>1 DEF DataIsArrived, BroughtData, NoCallback
        <5> QED  BY <5>3, <5>4, <5>5 DEF RoundInv
      <4>4. CASE Join \/ Terminate
        BY <3>2, <4>4 DEF Join, Terminate, CleanUp, Ended, Steady, Looking
      <4> QED  BY <2>1, <4>1, <4>2, <4>3, <4>4 DEF Next, Application
    <3> QED  BY <3>1, <3>2 DEF OrderInv
  <2>2. CASE UNCHANGED vars
    <3>1. UNCHANGED <<kill, tpc, cur, isQueued, lastStatus, event, status, inFlight, asked,
                      callback, arrived>>
      BY <2>2 DEF vars, thread, shared, libusb
    <3>2. Base' = Base /\ \A b : /\ Expected(b)' <=> Expected(b)
                                 /\ BroughtData(b)' <=> BroughtData(b)
                                 /\ Left(b)' <=> Left(b)
                                 /\ Refused(b)' <=> Refused(b)
      BY <3>1 DEF Base, Expected, Flying, BroughtData, Left, Refused
    <3>3. /\ AskedIsCurrent' /\ (Steady' => Steady)
          /\ InRound => InRound'
          /\ RoundIsWaited => RoundIsWaited'
          /\ DataIsArrived => DataIsArrived'
      BY <1>2, <3>1, <3>2
         DEF OrderInv, AskedIsCurrent, Steady, InRound, RoundIsWaited, DataIsArrived
    <3> QED  BY <1>2, <3>3 DEF OrderInv, RoundInv
  <2> QED  BY <1>2, <2>1, <2>2
<1> QED  BY DataInvariance, <1>1, <1>2, PTL DEF Spec

\* The thread hands over data in the order in which it arrived, and each buffer
\* once, unless a submission was refused, or a transfer not cancelled in time.
THEOREM OrderOfHandOver == ASSUME CancelsInTime PROVE Spec => HandedInOrder
<1>1. ASSUME IInv, IInv', DataInv, OrderInv, [Next]_vars
      PROVE  [tpc = "look" /\ tpc' = "handed" /\ lastStatus[cur] \in WithData
                => \/ arrived # << >> /\ Head(arrived) = cur
                   \/ \E b \in Buffers : Refused(b)]_vars
  <2> SUFFICES ASSUME Next, tpc = "look", tpc' = "handed", lastStatus[cur] \in WithData,
                      \A b \in Buffers : ~Refused(b)
               PROVE  arrived # << >> /\ Head(arrived) = cur
    BY <1>1
  <2>1. RoundInv
    BY <1>1 DEF OrderInv, Steady, Looking
  <2>2. Look
    BY DEF Next, ReadThread, SubmitAll, Check, Wake, TimeOut, Cancel, TimeOutAgain,
         Resubmit, Goto, Answer, Cancelled, Disappears, Finished, thread, Callback,
         KeepStatus, Signal, Unplug, Application, InitReadThread, ShutdownReadThread,
         Join, Terminate, CleanUp
  <2> QED  BY <1>1, <2>1, <2>2, RoundHandOver
<1> QED  BY OrderInvariance, <1>1, PTL DEF Spec, HandedInOrder

-----------------------------------------------------------------------------
(***************************************************************************)
(* An isochronous transfer.  Its loop over the packets is a recursive      *)
(* function; that there is one, and what it keeps, follows from looking at *)
(* the first number of packets for which it would not.                     *)
(***************************************************************************)
Start == [chunk |-> NothingYet, calls |-> << >>]

\* The recursive function of the loop exists: a first number of packets for which
\* there was none would have one, made from that for a packet less.
LEMMA LoopExists ==
    ASSUME NEW packets, Len(packets) \in Nat
    PROVE  \E f : f = [i \in 0 .. Len(packets) |->
                         IF i = 0 THEN Start ELSE Aggregate(packets, i, f[i - 1])]
<1> DEFINE Step(i, acc) == Aggregate(packets, i, acc)
           Good(k) == \E f : f = [i \in 0 .. k |-> IF i = 0 THEN Start ELSE Step(i, f[i - 1])]
           Bad == {k \in 0 .. Len(packets) : ~Good(k)}
<1> HIDE DEF Step
<1>1. Good(0)
  <2>1. 0 .. 0 = {0}
    OBVIOUS
  <2> DEFINE f == [i \in 0 .. 0 |-> Start]
  <2>2. f = [i \in 0 .. 0 |-> IF i = 0 THEN Start ELSE Step(i, f[i - 1])]
    BY <2>1
  <2> QED  BY <2>2
<1>2. ASSUME NEW k \in Nat, k # 0, Good(k - 1) PROVE Good(k)
  <2>1. PICK f : f = [i \in 0 .. k - 1 |-> IF i = 0 THEN Start ELSE Step(i, f[i - 1])]
    BY <1>2
  <2> DEFINE g == [i \in 0 .. k |-> IF i = k THEN Step(k, f[k - 1]) ELSE f[i]]
  <2>2. ASSUME NEW i \in 0 .. k
        PROVE  g[i] = IF i = 0 THEN Start ELSE Step(i, g[i - 1])
    <3>1. CASE i = 0
      <4>1. 0 \in 0 .. k /\ 0 \in 0 .. k - 1 /\ 0 # k
        BY <1>2
      <4>2. g[0] = f[0] /\ f[0] = Start
        BY <2>1, <4>1
      <4> QED  BY <3>1, <4>2
    <3>2. CASE i # 0
      <4>1. i - 1 \in 0 .. k - 1 /\ i - 1 \in 0 .. k /\ i - 1 # k
        BY <3>2
      <4>2. g[i - 1] = f[i - 1]
        BY <4>1
      <4>3. CASE i = k
        BY <3>2, <4>2, <4>3
      <4>4. CASE i # k
        <5>1. i \in 0 .. k - 1
          BY <4>4
        <5>2. f[i] = Step(i, f[i - 1])
          BY <2>1, <3>2, <5>1
        <5> QED  BY <3>2, <4>2, <4>4, <5>2
      <4> QED  BY <4>3, <4>4
    <3> QED  BY <3>1, <3>2
  <2>3. g = [i \in 0 .. k |-> g[i]]
    OBVIOUS
  <2> HIDE DEF g
  <2>4. g = [i \in 0 .. k |-> IF i = 0 THEN Start ELSE Step(i, g[i - 1])]
    BY <2>2, <2>3
  <2> QED  BY <2>4
<1> HIDE DEF Good
<1>3. Bad = {}
  <2> SUFFICES ASSUME Bad # {} PROVE FALSE
    OBVIOUS
  <2>1. Bad \subseteq Nat
    OBVIOUS
  <2> HIDE DEF Bad
  <2>2. PICK k \in Bad : \A j \in Bad : k =< j
    BY <2>1, HasLeast
  <2> USE DEF Bad
  <2>3. k \in Nat /\ k # 0 /\ k =< Len(packets) /\ ~Good(k)
    BY <1>1
  <2>4. k - 1 \in 0 .. Len(packets) /\ ~(k =< k - 1)
    BY <2>3
  <2>5. Good(k - 1)
    BY <2>2, <2>4
  <2> QED  BY <1>2, <2>3, <2>5
<1>4. Good(Len(packets))
  <2>1. Len(packets) \in 0 .. Len(packets)
    OBVIOUS
  <2> QED  BY <1>3, <2>1
<1> QED  BY <1>4 DEF Good, Step

\* What the loop has after no packet, and after one more.
LEMMA LoopSteps ==
    ASSUME NEW packets, Len(packets) \in Nat
    PROVE  /\ Loop(packets)[0] = Start
           /\ \A i \in 1 .. Len(packets) :
                 Loop(packets)[i] = Aggregate(packets, i, Loop(packets)[i - 1])
<1> DEFINE Body(f) == [i \in 0 .. Len(packets) |->
                         IF i = 0 THEN Start ELSE Aggregate(packets, i, f[i - 1])]
           l == Loop(packets)
<1>1. \E f : f = Body(f)
  BY LoopExists
<1>2. l = CHOOSE f : f = Body(f)
  BY DEF Loop, Start
<1> HIDE DEF Body, l
<1>3. l = Body(l)
  BY <1>1, <1>2
<1>4. l = [i \in 0 .. Len(packets) |->
                         IF i = 0 THEN Start ELSE Aggregate(packets, i, l[i - 1])]
  BY <1>3 DEF Body
<1>5. 0 \in 0 .. Len(packets)
  OBVIOUS
<1>6. l[0] = Start
  BY <1>4, <1>5
<1>7. ASSUME NEW i \in 1 .. Len(packets) PROVE l[i] = Aggregate(packets, i, l[i - 1])
  <2>1. i \in 0 .. Len(packets) /\ i # 0
    OBVIOUS
  <2> QED  BY <1>4, <2>1
<1> QED  BY <1>6, <1>7 DEF l

-----------------------------------------------------------------------------
Call == [from : Nat, size : Nat]

\* Where a call that is added next begins.
NextFrom(i, acc) == IF acc.chunk = NothingYet THEN StartOf(i + 1) ELSE acc.chunk.from

BytesIn(packets, i) ==
    IF packets[i].completed THEN StartOf(i) .. StartOf(i) + packets[i].length - 1 ELSE {}

ReceivedIn(packets, i) == UNION {BytesIn(packets, j) : j \in 1 .. i}

HandedIn(calls) == UNION {BytesOf(calls[k]) : k \in DOMAIN calls}

Apart(calls) ==
    \A k \in 1 .. Len(calls) - 1 : calls[k].from + calls[k].size < calls[k + 1].from

\* After i packets the calls and the chunk are what was received, the chunk ends
\* where the next packet begins, and the calls end before the chunk does.
Sound(packets, i, acc) ==
    /\ acc \in [chunk : Call \cup {NothingYet}, calls : Seq(Call)]
    /\ acc.chunk # NothingYet => acc.chunk.from + acc.chunk.size = StartOf(i + 1)
    /\ i = Len(packets) => acc.chunk = NothingYet
    /\ HandedIn(acc.calls) \cup BytesOf(acc.chunk) = ReceivedIn(packets, i)
    /\ Apart(acc.calls)
    /\ i < Len(packets) =>
          \A k \in 1 .. Len(acc.calls) :
              acc.calls[k].from + acc.calls[k].size < NextFrom(i, acc)

LEMMA PacketFacts ==
    ASSUME NEW packets \in Seq(Packet), NEW i \in 1 .. Len(packets)
    PROVE  /\ Len(packets) \in Nat /\ i \in Nat \ {0}
           /\ packets[i].completed \in BOOLEAN
           /\ packets[i].length \in 0 .. PacketLength
           /\ StartOf(i) \in Nat /\ StartOf(i + 1) = StartOf(i) + PacketLength
           /\ PacketLength \in Nat \ {0}
<1>1. PacketLength \in Nat \ {0} /\ Len(packets) \in Nat /\ i \in Nat \ {0}
  BY PacketAssumption, LenProperties
<1>2. packets[i] \in Packet
  BY ElementOfSeq
<1>3. packets[i].completed \in BOOLEAN /\ packets[i].length \in 0 .. PacketLength
  BY <1>2 DEF Packet
<1>4. \A m, p \in Nat : m * p \in Nat /\ (m + 1) * p = m * p + p
  OBVIOUS
<1>5. i - 1 \in Nat /\ (i + 1) - 1 = (i - 1) + 1
  BY <1>1
<1>6. StartOf(i) \in Nat /\ StartOf(i + 1) = StartOf(i) + PacketLength
  BY <1>1, <1>4, <1>5 DEF StartOf
<1> QED  BY <1>1, <1>3, <1>6

\* A call that begins after the others end keeps the calls apart.
LEMMA AppendApart ==
    ASSUME NEW calls \in Seq(Call), NEW c \in Call, Apart(calls),
           \A k \in 1 .. Len(calls) : calls[k].from + calls[k].size < c.from
    PROVE  /\ Append(calls, c) \in Seq(Call)
           /\ Apart(Append(calls, c))
           /\ HandedIn(Append(calls, c)) = HandedIn(calls) \cup BytesOf(c)
<1> DEFINE r == Append(calls, c)
<1>1. Len(calls) \in Nat /\ DOMAIN calls = 1 .. Len(calls)
  BY LenProperties
<1>2. /\ r \in Seq(Call) /\ Len(r) = Len(calls) + 1
      /\ \A i \in 1 .. Len(calls) : r[i] = calls[i]
      /\ r[Len(calls) + 1] = c
  BY AppendProperties
<1>3. DOMAIN r = 1 .. Len(calls) + 1
  BY <1>2, LenProperties
<1> HIDE DEF r
<1>4. Apart(r)
  <2> SUFFICES ASSUME NEW k \in 1 .. Len(calls) PROVE r[k].from + r[k].size < r[k + 1].from
    BY <1>1, <1>2 DEF Apart
  <2>1. CASE k = Len(calls)
    BY <1>2, <2>1
  <2>2. CASE k # Len(calls)
    <3>1. \A m \in Nat : \A j \in 1 .. m : j # m => j \in 1 .. m - 1 /\ j + 1 \in 1 .. m
      OBVIOUS
    <3>2. k \in 1 .. Len(calls) - 1 /\ k + 1 \in 1 .. Len(calls)
      BY <1>1, <2>2, <3>1
    <3> QED  BY <1>2, <3>2 DEF Apart
  <2> QED  BY <2>1, <2>2
<1>5. HandedIn(r) = HandedIn(calls) \cup BytesOf(c)
  <2>1. \A k \in 1 .. Len(calls) + 1 : k \in 1 .. Len(calls) \/ k = Len(calls) + 1
    BY <1>1
  <2>2. Len(calls) + 1 \in 1 .. Len(calls) + 1 /\ 1 .. Len(calls) \subseteq 1 .. Len(calls) + 1
    BY <1>1
  <2>3. \A k \in DOMAIN calls : k \in DOMAIN r /\ BytesOf(r[k]) = BytesOf(calls[k])
    BY <1>1, <1>2, <1>3, <2>2
  <2>4. Len(calls) + 1 \in DOMAIN r /\ BytesOf(r[Len(calls) + 1]) = BytesOf(c)
    BY <1>2, <1>3, <2>2
  <2>5. \A k \in DOMAIN r : k \in DOMAIN calls \/ k = Len(calls) + 1
    BY <1>1, <1>3, <2>1
  <2> HIDE DEF BytesOf
  <2>6. HandedIn(r) \subseteq HandedIn(calls) \cup BytesOf(c)
    BY <2>3, <2>4, <2>5 DEF HandedIn
  <2>7. HandedIn(calls) \subseteq HandedIn(r)
    BY <2>3 DEF HandedIn
  <2>8. BytesOf(c) \subseteq HandedIn(r)
    BY <2>4 DEF HandedIn
  <2> QED  BY <2>6, <2>7, <2>8
<1> QED  BY <1>2, <1>4, <1>5 DEF r

LEMMA BytesUpTo ==
    ASSUME NEW c, NEW end \in Nat, c.from \in Nat, c.size \in Nat, c.from + c.size = end
    PROVE  BytesOf(c) = c.from .. end - 1
  BY DEF BytesOf

LEMMA AggregateStep ==
    ASSUME NEW packets \in Seq(Packet), NEW i \in 1 .. Len(packets), NEW acc,
           Sound(packets, i - 1, acc)
    PROVE  Sound(packets, i, Aggregate(packets, i, acc))
<1> DEFINE n     == Len(packets)
           p     == packets[i]
           here  == StartOf(i)
           chunk == IF p.completed
                    THEN [from |-> IF acc.chunk.from = Null THEN here ELSE acc.chunk.from,
                          size |-> acc.chunk.size + p.length]
                    ELSE acc.chunk
           res   == Aggregate(packets, i, acc)
           next  == NextFrom(i - 1, acc)
<1>1. /\ n \in Nat /\ i \in Nat \ {0} /\ i =< n /\ p.completed \in BOOLEAN
      /\ p.length \in 0 .. PacketLength
      /\ here \in Nat /\ StartOf(i + 1) = here + PacketLength
      /\ PacketLength \in Nat \ {0} /\ (i - 1) + 1 = i /\ i - 1 < n
  BY PacketFacts
<1>2. /\ acc \in [chunk : Call \cup {NothingYet}, calls : Seq(Call)]
      /\ acc.chunk # NothingYet => acc.chunk.from + acc.chunk.size = here
      /\ HandedIn(acc.calls) \cup BytesOf(acc.chunk) = ReceivedIn(packets, i - 1)
      /\ Apart(acc.calls)
      /\ \A k \in 1 .. Len(acc.calls) : acc.calls[k].from + acc.calls[k].size < next
  BY <1>1 DEF Sound
<1>3. /\ acc.chunk \in Call \cup {NothingYet} /\ acc.calls \in Seq(Call)
      /\ NothingYet.from = Null /\ NothingYet.size = 0 /\ Null = -1
      /\ acc.chunk # NothingYet =>
            acc.chunk.from \in Nat /\ acc.chunk.size \in Nat /\ acc.chunk.from # Null
  BY <1>2 DEF Call, NothingYet, Null
<1>4. res = IF ~Stops(packets, i) THEN [acc EXCEPT !.chunk = chunk]
            ELSE [chunk |-> NothingYet,
                  calls |-> IF chunk.size = 0 THEN acc.calls ELSE Append(acc.calls, chunk)]
  BY DEF Aggregate
<1>5. next = IF acc.chunk = NothingYet THEN here ELSE acc.chunk.from
  BY <1>1 DEF NextFrom
<1>6. next \in Nat /\ next =< here
  BY <1>1, <1>2, <1>3, <1>5
<1> SUFFICES Sound(packets, i, res)
  OBVIOUS
<1> HIDE DEF n, p, here, res, next
\* The chunk with this packet: all that is still to be handed over.
<1> DEFINE whole == BytesOf(chunk) = BytesOf(acc.chunk) \cup BytesIn(packets, i)
           full  == chunk \in Call /\ chunk.from = next
           end   == IF p.completed THEN here + p.length ELSE here
<1>7. /\ whole /\ chunk.size \in Nat /\ chunk.from \in Int
      /\ p.completed \/ chunk.size # 0 => full /\ chunk.from + chunk.size = end
  <2>1. CASE p.completed
    <3>1. chunk = [from |-> next, size |-> acc.chunk.size + p.length]
      BY <1>3, <1>5, <2>1
    <3>2. acc.chunk.size \in Nat /\ next + acc.chunk.size = here
      BY <1>1, <1>2, <1>3, <1>5
    <3>3. acc.chunk.size + p.length \in Nat /\ p.length \in Nat
      BY <1>1, <3>2
    <3>4. /\ chunk.from = next /\ chunk.size = acc.chunk.size + p.length
          /\ chunk \in Call
      BY <1>6, <3>1, <3>3 DEF Call
    <3> HIDE DEF chunk
    <3>5. chunk.from + chunk.size = here + p.length
      <4>1. \A a, b, c \in Nat : a + (b + c) = (a + b) + c
        OBVIOUS
      <4> QED  BY <1>6, <3>2, <3>3, <3>4, <4>1
    <3>6. BytesOf(acc.chunk) = next .. here - 1
      <4>1. CASE acc.chunk = NothingYet
        <5>1. BytesOf(acc.chunk) = Null .. Null + 0 - 1
          BY <1>3, <4>1 DEF BytesOf
        <5>2. next = here
          BY <1>5, <4>1
        <5> QED  BY <1>1, <1>3, <5>1, <5>2
      <4>2. CASE acc.chunk # NothingYet
        <5>1. acc.chunk.from = next /\ acc.chunk.from + acc.chunk.size = here
          BY <1>2, <1>5, <4>2
        <5>2. acc.chunk.from \in Nat /\ acc.chunk.size \in Nat
          BY <1>3, <4>2
        <5> QED  BY <1>1, <5>1, <5>2, BytesUpTo
      <4> QED  BY <4>1, <4>2
    <3>7. BytesOf(chunk) = next .. here + p.length - 1
      <4>1. chunk.from \in Nat /\ chunk.size \in Nat /\ here + p.length \in Nat
        BY <1>1, <1>6, <3>3, <3>4
      <4>2. \A a, b \in Nat : (a + b) - 1 = a + b - 1
        OBVIOUS
      <4>3. (here + p.length) - 1 = here + p.length - 1
        BY <1>1, <3>3, <4>2
      <4>4. BytesOf(chunk) = chunk.from .. (here + p.length) - 1
        BY <3>5, <4>1, BytesUpTo
      <4> QED  BY <3>4, <4>3, <4>4
    <3>8. BytesIn(packets, i) = here .. here + p.length - 1
      BY <2>1 DEF BytesIn, p, here
    <3>9. \A a, b, c \in Nat : a =< b => a .. b + c - 1 = (a .. b - 1) \cup (b .. b + c - 1)
      OBVIOUS
    <3>10. next .. here + p.length - 1 = (next .. here - 1) \cup (here .. here + p.length - 1)
      BY <1>1, <1>6, <3>3, <3>9
    <3>11. whole
      BY <3>6, <3>7, <3>8, <3>10
    <3>12. chunk.size \in Nat /\ chunk.from \in Int
      BY <1>6, <3>3, <3>4
    <3> QED  BY <2>1, <3>4, <3>5, <3>11, <3>12
  <2>2. CASE ~p.completed
    <3>1. chunk = acc.chunk /\ BytesIn(packets, i) = {}
      BY <2>2 DEF BytesIn, p
    <3>2. /\ acc.chunk.size \in Nat /\ acc.chunk.from \in Int
          /\ (acc.chunk.size # 0 => acc.chunk # NothingYet)
      BY <1>3
    <3>3. acc.chunk # NothingYet =>
              acc.chunk \in Call /\ acc.chunk.from = next /\ acc.chunk.from + acc.chunk.size = here
      BY <1>2, <1>3, <1>5
    <3> QED  BY <2>2, <3>1, <3>2, <3>3
  <2> QED  BY <1>1, <2>1, <2>2
<1>8. ReceivedIn(packets, i) = HandedIn(acc.calls) \cup BytesOf(chunk)
  <2>1. ReceivedIn(packets, i) = ReceivedIn(packets, i - 1) \cup BytesIn(packets, i)
    <3>1. 1 .. i = 1 .. i - 1 \cup {i}
      BY <1>1
    <3> HIDE DEF BytesIn
    <3> QED  BY <3>1 DEF ReceivedIn
  <2> QED  BY <1>2, <1>7, <2>1
<1> HIDE DEF chunk, whole
<1>9. CASE ~Stops(packets, i)
  <2>1. p.completed /\ p.length = PacketLength /\ i # n
    BY <1>9 DEF Stops, p, n
  <2>2. full /\ chunk.from + chunk.size = StartOf(i + 1)
    BY <1>1, <1>7, <2>1
  <2>3. res = [chunk |-> chunk, calls |-> acc.calls]
    BY <1>2, <1>4, <1>9
  <2>4. chunk # NothingYet
    BY <1>3, <2>2 DEF Call
  <2>5. /\ res \in [chunk : Call \cup {NothingYet}, calls : Seq(Call)]
        /\ res.chunk = chunk /\ res.calls = acc.calls
    BY <1>3, <2>2, <2>3
  <2>6. NextFrom(i, res) = next
    BY <2>2, <2>4, <2>5 DEF NextFrom
  <2> QED  BY <1>2, <1>8, <2>1, <2>2, <2>5, <2>6 DEF Sound, n
<1>10. CASE Stops(packets, i)
  <2> DEFINE calls == IF chunk.size = 0 THEN acc.calls ELSE Append(acc.calls, chunk)
  <2>1. res = [chunk |-> NothingYet, calls |-> calls]
    BY <1>4, <1>10
  <2>2. BytesOf(NothingYet) = {}
    BY <1>3 DEF BytesOf
  <2>3. NextFrom(i, res) = here + PacketLength
    BY <1>1, <2>1 DEF NextFrom
  <2>4. i < n => end < here + PacketLength
    <3>1. i < n => ~p.completed \/ p.length # PacketLength
      BY <1>1, <1>10 DEF Stops, p, n
    <3> QED  BY <1>1, <3>1
  <2>5. /\ calls \in Seq(Call) /\ Apart(calls)
        /\ HandedIn(calls) = ReceivedIn(packets, i)
        /\ i < n => \A k \in 1 .. Len(calls) :
                       calls[k].from + calls[k].size < here + PacketLength
    <3>0. \A k \in 1 .. Len(acc.calls) :
              acc.calls[k].from + acc.calls[k].size < here + PacketLength
      <4> SUFFICES ASSUME NEW k \in 1 .. Len(acc.calls)
                   PROVE  acc.calls[k].from + acc.calls[k].size < here + PacketLength
        OBVIOUS
      <4>1. acc.calls[k] \in Call
        BY <1>3, ElementOfSeq
      <4>2. acc.calls[k].from \in Nat /\ acc.calls[k].size \in Nat
        BY <4>1 DEF Call
      <4>3. acc.calls[k].from + acc.calls[k].size < next
        BY <1>2
      <4>4. next \in Nat /\ here + PacketLength \in Nat /\ next =< here + PacketLength
        BY <1>1, <1>6
      <4> QED  BY <4>2, <4>3, <4>4
    <3>1. CASE chunk.size = 0
      <4>1. calls = acc.calls
        BY <3>1
      <4>2. BytesOf(chunk) = {}
        BY <1>7, <3>1 DEF BytesOf
      <4> QED  BY <1>2, <1>3, <1>8, <3>0, <4>1, <4>2
    <3>2. CASE chunk.size # 0
      <4>1. calls = Append(acc.calls, chunk) /\ full /\ chunk.from + chunk.size = end
        BY <1>7, <3>2
      <4>2. /\ calls \in Seq(Call) /\ Apart(calls)
            /\ HandedIn(calls) = HandedIn(acc.calls) \cup BytesOf(chunk)
        BY <1>2, <1>3, <4>1, AppendApart
      <4>3. /\ Len(calls) = Len(acc.calls) + 1 /\ Len(acc.calls) \in Nat
            /\ \A k \in 1 .. Len(acc.calls) : calls[k] = acc.calls[k]
            /\ calls[Len(acc.calls) + 1] = chunk
        BY <1>3, <4>1, AppendProperties, LenProperties
      <4>4. \A m \in Nat : \A k \in 1 .. m + 1 : k \in 1 .. m \/ k = m + 1
        OBVIOUS
      <4>5. ASSUME i < n, NEW k \in 1 .. Len(calls)
            PROVE  calls[k].from + calls[k].size < here + PacketLength
        <5>1. k \in 1 .. Len(acc.calls) \/ k = Len(acc.calls) + 1
          BY <4>3, <4>4
        <5> HIDE DEF calls, end
        <5>2. CASE k \in 1 .. Len(acc.calls)
          BY <3>0, <4>3, <5>2
        <5>3. CASE k = Len(acc.calls) + 1
          <6>1. calls[k].from + calls[k].size = end
            BY <4>1, <4>3, <5>3
          <6> QED  BY <2>4, <4>5, <6>1
        <5> QED  BY <5>1, <5>2, <5>3
      <4> QED  BY <1>8, <4>2, <4>5
    <3> QED  BY <3>1, <3>2
  <2> HIDE DEF calls
  <2>6. /\ res \in [chunk : Call \cup {NothingYet}, calls : Seq(Call)]
        /\ res.chunk = NothingYet /\ res.calls = calls
    BY <2>1, <2>5
  <2> QED  BY <2>2, <2>3, <2>5, <2>6 DEF Sound, n
<1> QED  BY <1>9, <1>10

LEMMA LoopIsSound ==
    ASSUME NEW packets \in Seq(Packet), Len(packets) # 0
    PROVE  \A i \in 0 .. Len(packets) : Sound(packets, i, Loop(packets)[i])
<1> DEFINE l   == Loop(packets)
           Bad == {i \in 0 .. Len(packets) : ~Sound(packets, i, l[i])}
<1>1. Len(packets) \in Nat /\ 0 < Len(packets)
  BY LenProperties
<1>2. /\ l[0] = Start
      /\ \A i \in 1 .. Len(packets) : l[i] = Aggregate(packets, i, l[i - 1])
  BY <1>1, LoopSteps
<1> HIDE DEF l
<1>3. Sound(packets, 0, Start)
  <2>1. /\ Start \in [chunk : Call \cup {NothingYet}, calls : Seq(Call)]
        /\ Start.chunk = NothingYet /\ Start.calls = << >>
    BY EmptySeq DEF Start
  <2>2. HandedIn(<< >>) = {} /\ BytesOf(NothingYet) = {} /\ ReceivedIn(packets, 0) = {}
    <3>1. DOMAIN << >> = {} /\ 1 .. 0 = {}
      OBVIOUS
    <3>2. BytesOf(NothingYet) = {}
      BY DEF BytesOf, NothingYet, Null
    <3> QED  BY <3>1, <3>2 DEF HandedIn, ReceivedIn
  <2>3. Len(<< >>) = 0
    OBVIOUS
  <2>4. Apart(<< >>)
    BY <2>3 DEF Apart
  <2>5. \A k \in 1 .. Len(Start.calls) : FALSE
    BY <2>1, <2>3
  <2>6. HandedIn(Start.calls) \cup BytesOf(Start.chunk) = ReceivedIn(packets, 0)
        /\ Apart(Start.calls)
    BY <2>1, <2>2, <2>4
  <2> HIDE DEF Start
  <2> QED  BY <2>1, <2>5, <2>6 DEF Sound
<1>4. Bad = {}
  <2> SUFFICES ASSUME Bad # {} PROVE FALSE
    OBVIOUS
  <2>1. Bad \subseteq Nat
    BY <1>1
  <2> HIDE DEF Bad
  <2>2. PICK i \in Bad : \A j \in Bad : i =< j
    BY <2>1, HasLeast
  <2> USE DEF Bad
  <2>3. i \in 0 .. Len(packets) /\ ~Sound(packets, i, l[i]) /\ i # 0
    BY <1>2, <1>3
  <2>4. i \in 1 .. Len(packets) /\ i - 1 \in 0 .. Len(packets) /\ ~(i =< i - 1)
    BY <1>1, <2>3
  <2>5. Sound(packets, i - 1, l[i - 1])
    BY <2>2, <2>4
  <2> QED  BY <1>2, <2>3, <2>4, <2>5, AggregateStep
<1> QED  BY <1>4 DEF l

\* The calls of a transfer of any number of packets of any length hand over the
\* bytes that were received, each once and in order, and no two calls could have
\* been one.
THEOREM HandsOverWhole ==
    ASSUME NEW packets \in Seq(Packet), packets # << >>
    PROVE  HandedWhole(packets)
<1> DEFINE n     == Len(packets)
           calls == CallsFor(packets)
<1>1. n \in Nat /\ n # 0 /\ n \in 0 .. n /\ DOMAIN packets = 1 .. n
  BY LenProperties, EmptySeq
<1>2. Sound(packets, n, Loop(packets)[n]) /\ calls = Loop(packets)[n].calls
  BY <1>1, LoopIsSound DEF CallsFor
<1>3. HandedIn(calls) \cup BytesOf(NothingYet) = ReceivedIn(packets, n) /\ Apart(calls)
  BY <1>2 DEF Sound
<1>4. BytesOf(NothingYet) = {}
  BY DEF BytesOf, NothingYet, Null
<1>5. ReceivedIn(packets, n) = Received(packets)
  BY <1>1 DEF ReceivedIn, BytesIn, Received
<1>6. HandedIn(calls) = Received(packets) /\ Apart(calls)
  BY <1>3, <1>4, <1>5
<1> QED  BY <1>6 DEF HandedWhole, HandedIn, Apart

THEOREM TransfersAreHandedWhole == Spec => []CallsAreTheReceived
<1>1. CallsAreTheReceived
  <2>1. ASSUME NEW packets \in Transfers PROVE packets \in Seq(Packet) /\ packets # << >>
    <3>1. PICK n \in 1 .. MaxPackets : packets \in [1 .. n -> Packet]
      BY DEF Transfers
    <3>2. n \in Nat /\ 1 \in 1 .. n
      BY PacketAssumption
    <3>3. packets \in Seq(Packet)
      BY <3>1, <3>2
    <3>4. DOMAIN packets # {}
      BY <3>1, <3>2
    <3>5. DOMAIN << >> = {}
      OBVIOUS
    <3> QED  BY <3>3, <3>4, <3>5
  <2> QED  BY <2>1, HandsOverWhole DEF CallsAreTheReceived
<1> QED  BY <1>1, PTL
=============================================================================
