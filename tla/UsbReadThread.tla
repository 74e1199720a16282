---------------------------- MODULE UsbReadThread ----------------------------
(***************************************************************************)
(* The read thread of an endpoint in the Linux USB library of XnLib, with  *)
(* the three others it works with:                                         *)
(*                                                                         *)
(*   - the application, which starts and shuts down the read thread;       *)
(*   - libusb and its events thread, which takes a finished transfer out   *)
(*     of flight and calls xnTransferCallback;                             *)
(*   - the device, which fills the transfers in the order they were        *)
(*     submitted, may fail one of them, and may be unplugged.              *)
(*                                                                         *)
(* The read thread and the callback share bIsQueued, nLastStatus and the   *)
(* event of a buffer without a lock, so each statement of the callback is  *)
(* a step.  Times are left out: the first wait may time out at any moment, *)
(* the second one when there is nothing to wait for, when the transfer was *)
(* not cancelled, and with "slow" in Faults at any moment too.             *)
(***************************************************************************)
EXTENDS Integers, Sequences, SequencesExt

CONSTANTS
    NumBuffers,     \* nNumBuffers
    Faults          \* what may go wrong: "submit", a submission is refused;
                    \* "unplug", the device disappears; "cancel", a transfer
                    \* that is in flight cannot be cancelled; "slow", one that
                    \* was cancelled is not back within nTimeOut

ASSUME UsbAssumption ==
    /\ NumBuffers \in Nat \ {0}
    /\ Faults \subseteq {"submit", "unplug", "cancel", "slow"}

Buffers == 1 .. NumBuffers

\* LIBUSB_TRANSFER_COMPLETED and so on; the transfers have no timeout.
WithData == {"completed", "cancelled"}
Statuses == WithData \cup {"error", "nodevice"}

VARIABLES
    app,        \* between InitReadThread and ShutdownReadThread, or in the
                \* latter; "off" once the memory of the buffers is released
    kill,       \* bKillReadThread
    tpc,        \* where the read thread is
    cur,        \* i, the buffer it looks at
    isQueued,   \* bIsQueued and
    lastStatus, \* nLastStatus of each buffer
    event,      \* hEvent of each buffer is signalled
    status,     \* the status field of each transfer
    inFlight,   \* the transfers libusb has, in the order of submission
    asked,      \* those of them that are to be cancelled
    callback,   \* the call of xnTransferCallback that is in progress
    plugged,    \* the device is there
    arrived     \* history: buffers with data not handed over, as it arrived

shared == <<isQueued, lastStatus, event>>
libusb == <<status, inFlight, asked, callback, plugged>>
thread == <<tpc, cur>>
vars   == <<app, kill, thread, shared, libusb, arrived>>

NoCallback == [buf |-> 0, next |-> "none"]

Calls == {NoCallback} \cup [buf : Buffers, next : {"keep", "signal"}]

Ended == {"exited", "disconnected", "terminated"}

TypeOK ==
    /\ app \in {"off", "up", "stopping"}
    /\ kill \in BOOLEAN
    /\ tpc \in {"off", "submit", "check", "wait", "cancel", "rewait", "look", "handed"}
              \cup Ended
    /\ cur \in Buffers
    /\ isQueued \in [Buffers -> BOOLEAN]
    /\ lastStatus \in [Buffers -> Statuses]
    /\ event \in [Buffers -> BOOLEAN]
    /\ status \in [Buffers -> Statuses]
    /\ inFlight \in Seq(Buffers)
    /\ asked \subseteq Buffers
    /\ callback \in Calls
    /\ plugged \in BOOLEAN
    /\ arrived \in Seq(Buffers)

Init ==
    /\ app = "off"
    /\ kill = FALSE
    /\ tpc = "off"
    /\ cur = 1
    /\ isQueued = [b \in Buffers |-> FALSE]
    /\ lastStatus = [b \in Buffers |-> "completed"]
    /\ event = [b \in Buffers |-> FALSE]
    /\ status = [b \in Buffers |-> "completed"]
    /\ inFlight = << >>
    /\ asked = {}
    /\ callback = NoCallback
    /\ plugged = TRUE
    /\ arrived = << >>

-----------------------------------------------------------------------------
Flying(b) == b \in ToSet(inFlight)

\* A buffer whose submission was refused: bIsQueued stays although libusb does
\* not have the transfer and will never call back.
Refused(b) == isQueued[b] /\ ~Flying(b)

Goto(step) == tpc' = step /\ UNCHANGED cur

NextBufferMutant == cur + 1       \* mutant: past the last buffer

NextBuffer == IF cur = NumBuffers THEN 1 ELSE cur + 1

LookAtNextMutant == tpc' = "check" /\ cur' = 1     \* mutant: the first again

LookAtNext == tpc' = "check" /\ cur' = NextBuffer

\* libusb_submit_transfer, after bIsQueued is set.
Accepted(b) == plugged /\ inFlight' = Append(inFlight, b)

Rejected == (plugged => "submit" \in Faults) /\ UNCHANGED inFlight

Queue(b) ==
    /\ isQueued' = [isQueued EXCEPT ![b] = TRUE]
    /\ UNCHANGED <<lastStatus, event, status, asked, callback, plugged>>

-----------------------------------------------------------------------------
\* xnUSBReadThreadMain: submit all transfers, then look at one buffer after the
\* other.  A refused submission is logged.
SubmitAll ==
    /\ app # "off" /\ tpc = "submit"
    /\ Queue(cur)
    /\ Accepted(cur) \/ Rejected
    /\ cur' = NextBuffer
    /\ tpc' = IF cur = NumBuffers THEN "check" ELSE "submit"
    /\ UNCHANGED <<app, kill, arrived>>

AnyTransferQueuedMutant == isQueued[cur]    \* mutant: the buffer looked at

AnyTransferQueued == \E b \in Buffers : isQueued[b]

\* The thread may leave, or starts to wait: an event that is signalled is taken
\* and reset at once.
Check ==
    /\ app # "off" /\ tpc = "check"
    /\ IF kill /\ ~AnyTransferQueued
       THEN Goto("exited") /\ UNCHANGED event
       ELSE /\ Goto(IF event[cur] THEN "look" ELSE "wait")
            /\ event' = [event EXCEPT ![cur] = FALSE]
    /\ UNCHANGED <<app, kill, isQueued, lastStatus, libusb, arrived>>

\* XnLinuxPosixEvent::Wait returns: the event was set, or the time is over,
\* which it may be although the event was set in the meantime.
Wake ==
    /\ app # "off" /\ tpc \in {"wait", "rewait"}
    /\ event[cur]
    /\ event' = [event EXCEPT ![cur] = FALSE]
    /\ Goto("look")
    /\ UNCHANGED <<app, kill, isQueued, lastStatus, libusb, arrived>>

TimeOut ==
    /\ app # "off" /\ tpc = "wait"
    /\ Goto("cancel")
    /\ UNCHANGED <<app, kill, shared, libusb, arrived>>

\* libusb_cancel_transfer finds the transfer, or not, or not the device.  Any
\* other error is logged, and waited for as if the transfer were cancelled.
Cancel ==
    /\ app # "off" /\ tpc = "cancel"
    /\ \/ Flying(cur) /\ plugged /\ asked' = asked \cup {cur} /\ Goto("rewait")
       \/ /\ ~(Flying(cur) /\ plugged) \/ "cancel" \in Faults
          /\ UNCHANGED asked /\ Goto("rewait")
       \/ Flying(cur) /\ ~plugged /\ UNCHANGED asked /\ Goto("disconnected")
    /\ UNCHANGED <<app, kill, shared, status, inFlight, callback, plugged, arrived>>

Expected(b) == Flying(b) \/ callback.buf = b \/ event[b]

NotCancelled(b) == "cancel" \in Faults /\ Flying(b) /\ b \notin asked

TimeOutAgain ==
    /\ app # "off" /\ tpc = "rewait"
    /\ Expected(cur) => "slow" \in Faults \/ NotCancelled(cur)
    /\ Goto("look")
    /\ UNCHANGED <<app, kill, shared, libusb, arrived>>

\* The event says that the transfer is done, or the second wait was over:
\* bIsQueued tells which.  The callback of the application gets the data.
Done(b) == ~isQueued[b]

Taken(b) ==
    LET at == {k \in DOMAIN arrived : arrived[k] = b}
    IN  IF at = {} THEN arrived ELSE RemoveAt(arrived, CHOOSE k \in at : TRUE)

HandsOverMutant(b) == status[b] = "completed"   \* mutant: not what was cancelled

HandsOver(b) == lastStatus[b] \in WithData

HandOverMutant(b) ==        \* mutant: submitted again before the callback
    Goto("handed") /\ Queue(b) /\ Accepted(b)

HandOver(b) == Goto("handed") /\ UNCHANGED <<shared, libusb>>

Look ==
    /\ app # "off" /\ tpc = "look"
    /\ \/ /\ ~Done(cur)
          /\ LookAtNext
          /\ UNCHANGED <<shared, libusb, arrived>>
       \/ /\ Done(cur) /\ status[cur] = "nodevice"
          /\ Goto("disconnected")
          /\ UNCHANGED <<shared, libusb, arrived>>
       \/ /\ Done(cur) /\ status[cur] # "nodevice"
          /\ HandOver(cur)
          /\ arrived' = IF HandsOver(cur) THEN Taken(cur) ELSE arrived
    /\ UNCHANGED <<app, kill>>

AgainMutant == TRUE     \* mutant: submitted again although the thread is to end

Again == ~kill

\* After the callback: the transfer is submitted again, unless the thread is to
\* end.
Resubmit ==
    /\ app # "off" /\ tpc = "handed"
    /\ \/ /\ ~Again
          /\ LookAtNext
          /\ UNCHANGED <<shared, libusb>>
       \/ /\ Again
          /\ Queue(cur)
          /\ \/ Accepted(cur) /\ LookAtNext
             \/ Rejected /\ plugged /\ LookAtNext
             \/ Rejected /\ ~plugged /\ Goto("disconnected")
    /\ UNCHANGED <<app, kill, arrived>>

ReadThread ==
    \/ SubmitAll \/ Check \/ Wake \/ TimeOut \/ Cancel \/ TimeOutAgain
    \/ Look \/ Resubmit

-----------------------------------------------------------------------------
\* libusb takes the k-th transfer out of flight and calls xnTransferCallback.
\* bIsQueued, its first statement, says to the read thread that it is done.
Finished(k, st) ==
    LET b == inFlight[k]
    IN  /\ app # "off"
        /\ callback = NoCallback
        /\ inFlight' = RemoveAt(inFlight, k)
        /\ asked' = asked \ {b}
        /\ status' = [status EXCEPT ![b] = st]
        /\ isQueued' = [isQueued EXCEPT ![b] = FALSE]
        /\ callback' = [buf |-> b, next |-> "keep"]
        /\ arrived' = IF st \in WithData THEN Append(arrived, b) ELSE arrived
        /\ UNCHANGED <<app, kill, thread, lastStatus, event, plugged>>

\* The device answers the oldest transfer, with data or with an error.
Answer(st) ==
    /\ plugged
    /\ inFlight # << >>
    /\ st \in {"completed", "error"}
    /\ Finished(1, st)

Cancelled == \E k \in DOMAIN inFlight : inFlight[k] \in asked /\ Finished(k, "cancelled")

Disappears == ~plugged /\ \E k \in DOMAIN inFlight : Finished(k, "nodevice")

KeepStatus ==
    /\ app # "off" /\ callback.next = "keep"
    /\ lastStatus' = [lastStatus EXCEPT ![callback.buf] = status[callback.buf]]
    /\ callback' = [callback EXCEPT !.next = "signal"]
    /\ UNCHANGED <<app, kill, thread, isQueued, event, status, inFlight, asked,
                   plugged, arrived>>

Signal ==
    /\ app # "off" /\ callback.next = "signal"
    /\ event' = [event EXCEPT ![callback.buf] = TRUE]
    /\ callback' = NoCallback
    /\ UNCHANGED <<app, kill, thread, isQueued, lastStatus, status, inFlight,
                   asked, plugged, arrived>>

Callback == KeepStatus \/ Signal

Unplug ==
    /\ "unplug" \in Faults
    /\ plugged
    /\ plugged' = FALSE
    /\ UNCHANGED <<app, kill, thread, shared, status, inFlight, asked, callback, arrived>>

-----------------------------------------------------------------------------
\* Nobody outside of the library refers to the memory of the buffers.
Released == inFlight = << >> /\ callback = NoCallback

\* xnUSBInitReadThread on a device that is there.  The model ends where memory
\* was released that libusb is still using.
InitReadThread ==
    /\ app = "off" /\ Released
    /\ app' = "up"
    /\ kill' = FALSE
    /\ tpc' = "submit"
    /\ cur' = 1
    /\ isQueued' = [b \in Buffers |-> FALSE]
    /\ lastStatus' = [b \in Buffers |-> "completed"]
    /\ event' = [b \in Buffers |-> FALSE]
    /\ status' = [b \in Buffers |-> "completed"]
    /\ plugged' = TRUE
    /\ UNCHANGED <<inFlight, asked, callback, arrived>>

ShutdownReadThread ==
    /\ app = "up"
    /\ app' = "stopping"
    /\ kill' = TRUE
    /\ UNCHANGED <<thread, shared, libusb, arrived>>

\* xnOSWaitForThreadExit returned, or its time was over and the thread is
\* terminated; either way xnCleanupThreadData releases transfers and events.
CleanUp ==
    /\ app = "stopping"
    /\ app' = "off"
    /\ arrived' = << >>
    /\ UNCHANGED <<kill, cur, shared, libusb>>

Join == tpc \in Ended /\ CleanUp /\ UNCHANGED tpc

Terminate ==
    /\ tpc \notin Ended
    /\ Faults \cap {"cancel", "slow"} # {} \/ \E b \in Buffers : Refused(b)
    /\ CleanUp
    /\ tpc' = "terminated"

Application == InitReadThread \/ ShutdownReadThread \/ Join \/ Terminate

Next ==
    \/ ReadThread
    \/ \E st \in Statuses : Answer(st)
    \/ Cancelled \/ Disappears \/ Callback
    \/ Unplug
    \/ Application

Spec == Init /\ [][Next]_vars

\* Both threads are scheduled and every wait of the read thread has an end;
\* libusb calls back for what was cancelled and for what was in flight to a
\* device that is gone.  The device need not answer, and nobody need shut down.
FairSpec ==
    /\ Spec
    /\ WF_vars(ReadThread) /\ WF_vars(Callback)
    /\ WF_vars(Cancelled) /\ WF_vars(Disappears)
-----------------------------------------------------------------------------
\* "Only after kill was requested, and all transfers returned": a read thread
\* that ended of itself leaves no transfer behind that libusb would write to
\* after ShutdownReadThread has released it, whatever was refused, cancelled or
\* late.
ExitLeavesNoneInFlight ==
    tpc = "exited" => kill /\ inFlight = << >>

\* The buffer that the callback of the application reads is not one that the
\* device may be writing to, and no transfer is submitted twice.
HandedIsNotInFlight ==
    /\ tpc = "handed" => ~Flying(cur)
    /\ IsInjective(inFlight)

\* Data that arrived is not overwritten before it was handed over, when
\* cancelled transfers come back in time.
NoneOverwritten ==
    \A b \in ToSet(arrived) : ~Flying(b)

\* The data is handed over in the order in which it arrived, each of it once,
\* although the thread goes round the buffers on its own and cancels what takes
\* long.  Given up when a submission was refused: the buffer stays queued, the
\* thread cannot exit, and goes round over data it has handed over already.
HandedInOrder ==
    [][tpc = "look" /\ tpc' = "handed" /\ lastStatus[cur] \in WithData
         => \/ arrived # << >> /\ Head(arrived) = cur
            \/ \E b \in Buffers : Refused(b)]_vars

\* Once it is told to the thread ends, and ShutdownReadThread need not
\* terminate it, unless a submission was refused.
KillEndsThread ==
    app = "stopping" ~> (tpc \in Ended \/ \E b \in Buffers : Refused(b))

\* What arrived is handed over, unless the thread ends before.
ArrivedIsHandedOver ==
    \A b \in Buffers :
        b \in ToSet(arrived) ~> (tpc \in Ended \/ b \notin ToSet(arrived))

-----------------------------------------------------------------------------
\* What the comments at the exit of the thread and at the wait for it say.

\* "Only after kill was requested, and all transfers returned"
\* (XnLinuxUSB.cpp:1357), "in any case we still need to wait for all transfers
\* to complete" (XnLinuxUSB.cpp:1663): when ShutdownReadThread releases the
\* buffers no transfer is in flight and no callback is at work on one.
AllReturnedAtCleanUp == app = "off" => Released
=============================================================================
