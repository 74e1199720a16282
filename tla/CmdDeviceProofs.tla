---------------------------- MODULE CmdDeviceProofs ----------------------------
(***************************************************************************)
(* The SN that ReadDeviceSN returns, for any number of devices, any width  *)
(* of sequence_num and any failures: the one asked for as long as nothing  *)
(* failed for its device, and never that of a third device.                *)
(***************************************************************************)
EXTENDS CmdDevice, SequenceTheorems, TLAPS

Calling == pc \in {"send", "poll", "take"}

\* What TypeOK says, and what the bench keeps: nothing is left in a device that
\* is gone, and a handle is that of a device that is there.
Typed ==
    /\ pc \in {"idle", "open", "send", "poll", "take"}
    /\ target \in AnyDevice
    /\ data \in Bytes /\ sn \in Bytes /\ was \in Bytes
    /\ seq \in 0 .. SeqSize - 1
    /\ cmd \in Command \cup {NoCommand} /\ head \in Command \cup {NoCommand}
    /\ Calling => cmd \in Command
    /\ len \in {"unset", "unready", "usable"}
    /\ present \subseteq Devices /\ lit \subseteq present /\ clean \subseteq present
    /\ handle \in present \cup {NoDevice}
    /\ inbox \in [Devices -> Seq(Command)]
    /\ outbox \in [Devices -> Seq(Command)]
    /\ \A d \in Devices : Len(inbox[d]) =< 1 /\ Len(outbox[d]) =< MaxReplies
    /\ \A d \in Devices \ present : inbox[d] = << >> /\ outbox[d] = << >>

\* A transfer of a call goes to the device of its path or nowhere, and nowhere
\* only after something has failed.
RightHandle ==
    Calling => handle \in {target, NoDevice} /\ (target \in clean => handle = target)

DataIsNoThirds ==
    pc \in {"open", "send", "poll", "take"} => data \in {target, was, Garbled}

\* A device for which nothing failed has no command and no reply left, but for
\* the one of the call it is in.
Asked(d) == pc = "poll" /\ target = d

Drained ==
    \A d \in clean : ~Asked(d) => inbox[d] = << >> /\ outbox[d] = << >>

OneInFlight ==
    \A d \in clean :
        Asked(d) =>
          \/ inbox[d] = <<cmd>> /\ outbox[d] = << >>
          \/ /\ inbox[d] = << >> /\ outbox[d] = <<cmd>>
             /\ cmd.op = "emitter" => d \in lit

LaserFirst == Calling /\ target \in clean /\ cmd.op = "flash" => target \in lit

Taken == pc = "take" /\ target \in clean => data = target /\ head = cmd /\ cmd.op = "flash"

CInv == Typed /\ RightHandle /\ DataIsNoThirds /\ Drained /\ OneInFlight /\ LaserFirst /\ Taken

-----------------------------------------------------------------------------
LEMMA Requests ==
    ASSUME seq \in 0 .. SeqSize - 1, NEW op \in {"emitter", "flash"}, Request(op)
    PROVE  /\ cmd' \in Command /\ cmd'.op = op /\ seq' \in 0 .. SeqSize - 1
           /\ len' = "unset" /\ pc' = "send"
<1>1. seq' \in 0 .. SeqSize - 1
  BY CmdAssumption DEF Request, NextSeq
<1> QED  BY <1>1 DEF Request, Command

LEMMA Initial == Init => CInv
<1> SUFFICES ASSUME Init PROVE CInv
  OBVIOUS
<1>1. Typed
  <2>1. << >> \in Seq(Command) /\ Len(<< >>) = 0
    BY EmptySeq
  <2>2. 0 \in 0 .. SeqSize - 1 /\ 0 =< MaxReplies
    BY CmdAssumption
  <2> QED  BY <2>1, <2>2 DEF Init, Typed, Calling, AnyDevice, Bytes
<1> QED
  BY <1>1 DEF Init, CInv, Calling, RightHandle, DataIsNoThirds, Drained, OneInFlight,
     Asked, LaserFirst, Taken

LEMMA SendStep == ASSUME CInv, Send PROVE CInv'
<1> USE CmdAssumption DEF CInv, Calling
<1>1. /\ pc = "send" /\ pc' = "poll" /\ cmd \in Command
      /\ UNCHANGED <<target, was, handle, seq, cmd, len, head, data, sn,
                     present, outbox, lit>>
  BY DEF Send, call, Typed
<1>2. CASE /\ handle # NoDevice
           /\ inbox' = [inbox EXCEPT ![handle] = <<cmd>>]
           /\ UNCHANGED clean
  <2>1. /\ handle = target /\ handle \in present /\ handle \in Devices
    BY <1>1, <1>2 DEF RightHandle, Typed
  <2>2. <<cmd>> \in Seq(Command) /\ Len(<<cmd>>) = 1
    BY <1>1
  <2>3. inbox' \in [Devices -> Seq(Command)]
        /\ inbox'[target] = <<cmd>>
        /\ \A d \in Devices : d # target => inbox'[d] = inbox[d]
    BY <1>2, <2>1, <2>2 DEF Typed
  <2>4. Typed'
    BY <1>1, <1>2, <2>1, <2>2, <2>3 DEF Typed
  <2>5. Drained' /\ OneInFlight'
    <3>1. clean \subseteq Devices
      BY DEF Typed
    <3>2. \A d \in clean : inbox[d] = << >> /\ outbox[d] = << >>
      BY <1>1 DEF Drained, Asked
    <3> QED  BY <1>1, <1>2, <2>3, <3>1, <3>2 DEF Drained, OneInFlight, Asked
  <2> QED
    BY <1>1, <1>2, <2>4, <2>5 DEF RightHandle, DataIsNoThirds, LaserFirst, Taken
<1>3. CASE Failed /\ UNCHANGED inbox
  BY <1>1, <1>3 DEF Failed, Typed, RightHandle, DataIsNoThirds, Drained, OneInFlight,
     Asked, LaserFirst, Taken
<1> QED  BY <1>2, <1>3 DEF Send

LEMMA OpenStep == ASSUME CInv, Open PROVE CInv'
<1> USE CmdAssumption DEF CInv, Calling
<1>1. /\ pc = "open" /\ pc' = "send" /\ len' = "unset"
      /\ cmd' \in Command /\ cmd'.op = "emitter" /\ seq' \in 0 .. SeqSize - 1
      /\ UNCHANGED <<target, was, head, data, sn, present, inbox, outbox, lit>>
  BY Requests DEF Open, Typed, call, bench
<1>2. \/ handle' = Opened /\ clean' = clean
      \/ handle' = NoDevice /\ clean' = clean \ {target}
  BY DEF Open, Failed
<1>3. Typed'
  BY <1>1, <1>2 DEF Typed, Opened
<1>4. RightHandle'
  BY <1>1, <1>2 DEF Typed, Opened, RightHandle
<1>5. Drained' /\ OneInFlight'
  BY <1>1, <1>2 DEF Drained, OneInFlight, Asked
<1> QED
  BY <1>1, <1>2, <1>3, <1>4, <1>5 DEF DataIsNoThirds, LaserFirst, Taken

\* The reply to a clean device is the one to its request.
LEMMA ReplyStep ==
    ASSUME CInv, pc = "poll", Reply, UNCHANGED <<call, handle, sn, present, inbox, lit>>
    PROVE  CInv'
<1> USE CmdAssumption DEF CInv, Calling
<1>1. /\ handle = target /\ handle \in Devices /\ handle \in present
      /\ outbox[handle] \in Seq(Command) /\ outbox[handle] # << >>
      /\ cmd \in Command
  BY DEF Reply, RightHandle, Typed
<1>2. /\ head' = Head(outbox[handle])
      /\ data' = IF head'.op = "flash" THEN handle ELSE data
      /\ outbox' = [outbox EXCEPT ![handle] = Tail(outbox[handle])]
      /\ UNCHANGED <<target, was, handle, sn, present, inbox, lit, clean>>
  BY DEF Reply, call
<1>3. \/ /\ cmd.op = "emitter" /\ pc' = "send" /\ len' = "unset"
         /\ cmd' \in Command /\ cmd'.op = "flash" /\ seq' \in 0 .. SeqSize - 1
      \/ /\ cmd.op = "flash" /\ pc' = "take" /\ len' = "usable"
         /\ UNCHANGED <<seq, cmd>>
  <2>1. Proceed("usable") /\ ~Again("usable")
    BY DEF Reply, Again
  <2>2. CASE cmd.op = "emitter"
    BY <2>1, <2>2, Requests DEF Proceed, Typed
  <2>3. CASE cmd.op # "emitter"
    BY <1>1, <2>1, <2>3 DEF Proceed, Command
  <2> QED  BY <2>2, <2>3
<1>4. /\ head' \in Command
      /\ Tail(outbox[handle]) \in Seq(Command)
      /\ Len(Tail(outbox[handle])) = Len(outbox[handle]) - 1
  BY <1>1, <1>2, HeadTailProperties
<1>5. /\ outbox' \in [Devices -> Seq(Command)]
      /\ outbox'[handle] = Tail(outbox[handle])
      /\ \A d \in Devices : d # handle => outbox'[d] = outbox[d]
  BY <1>1, <1>2, <1>4 DEF Typed
<1>6. Typed'
  <2>1. \A d \in Devices : Len(outbox'[d]) =< MaxReplies
    <3>1. Len(outbox[handle]) \in Nat /\ Len(outbox[handle]) =< MaxReplies
      BY <1>1, LenProperties DEF Typed
    <3>2. Len(outbox'[handle]) =< MaxReplies
      BY <1>4, <1>5, <3>1
    <3>3. ASSUME NEW d \in Devices, d # handle PROVE Len(outbox'[d]) =< MaxReplies
      BY <1>5, <3>3 DEF Typed
    <3> QED  BY <3>2, <3>3
  <2>2. data' \in Bytes
    BY <1>1, <1>2 DEF Typed, Bytes, AnyDevice
  <2>3. seq' \in 0 .. SeqSize - 1 /\ cmd' \in Command
        /\ pc' \in {"send", "take"} /\ len' \in {"unset", "usable"}
    BY <1>1, <1>3 DEF Typed
  <2> QED  BY <1>1, <1>2, <1>4, <1>5, <2>1, <2>2, <2>3 DEF Typed
<1>7. target \in clean => /\ inbox[target] = << >> /\ outbox[target] = <<cmd>>
                          /\ cmd.op = "emitter" => target \in lit
  BY <1>1 DEF OneInFlight, Asked
<1>8. target \in clean => head' = cmd /\ outbox'[target] = << >>
  BY <1>1, <1>2, <1>5, <1>7
<1>9. Drained' /\ OneInFlight'
  <2>1. pc' # "poll" /\ clean' = clean /\ clean \subseteq Devices /\ inbox' = inbox
    BY <1>2, <1>3 DEF Typed
  <2>2. \A d \in clean : inbox[d] = << >> /\ outbox'[d] = << >>
    BY <1>1, <1>5, <1>7, <1>8, <2>1 DEF Drained, Asked
  <2> QED  BY <2>1, <2>2 DEF Drained, OneInFlight, Asked
<1>10. RightHandle' /\ DataIsNoThirds'
  BY <1>1, <1>2, <1>3 DEF RightHandle, DataIsNoThirds
<1>11. LaserFirst' /\ Taken'
  BY <1>1, <1>2, <1>3, <1>7, <1>8 DEF LaserFirst, Taken
<1> QED  BY <1>6, <1>9, <1>10, <1>11

LEMMA PollStep ==
    ASSUME CInv, Poll \/ PollFails
    PROVE  CInv'
<1> USE CmdAssumption DEF CInv, Calling
<1>0. pc = "poll" /\ UNCHANGED <<call, handle, sn, present, inbox, lit>>
  BY DEF Poll, PollFails
<1>1. CASE Reply
  BY <1>0, <1>1, ReplyStep
<1>2. CASE NothingYet
  <2>1. /\ pc' = "poll" /\ len' = "unready"
        /\ UNCHANGED <<target, was, handle, sn, present, inbox, lit, seq, cmd, outbox,
                       clean>>
        /\ \/ head' = head /\ data' = data
           \/ head' = NoCommand /\ data' = Garbled
    BY <1>0, <1>2 DEF NothingYet, Proceed, Again, call
  <2>2. Typed'
    BY <1>0, <2>1 DEF Typed, Bytes
  <2>3. RightHandle' /\ DataIsNoThirds' /\ LaserFirst' /\ Taken'
    BY <1>0, <2>1 DEF RightHandle, DataIsNoThirds, LaserFirst, Taken
  <2>4. Drained' /\ OneInFlight'
    BY <1>0, <2>1 DEF Drained, OneInFlight, Asked
  <2> QED  BY <2>2, <2>3, <2>4
<1>3. CASE ReceiveFails
  <2>1. /\ clean' = clean \ {target} /\ UNCHANGED <<head, data, outbox>>
        /\ \E length \in {"unset", "unready", "usable"} : Proceed(length) /\ length # "unset"
    BY <1>3 DEF ReceiveFails, Failed, Typed
  <2>2. /\ pc' \in {"poll", "send", "take"} /\ len' \in {"unset", "unready", "usable"}
        /\ cmd' \in Command /\ seq' \in 0 .. SeqSize - 1
    <3> PICK length \in {"unset", "unready", "usable"} : Proceed(length)
      BY <2>1
    <3>1. CASE Again(length)
      BY <1>0, <3>1 DEF Proceed, Typed
    <3>2. CASE ~Again(length) /\ cmd.op = "emitter"
      BY <3>2, Requests DEF Proceed, Typed
    <3>3. CASE ~Again(length) /\ cmd.op # "emitter"
      BY <1>0, <3>3 DEF Proceed, Typed
    <3> QED  BY <3>1, <3>2, <3>3
  <2>3. UNCHANGED <<target, was, handle, sn, present, inbox, lit>>
    BY <1>0 DEF call
  <2>4. Typed'
    BY <1>0, <2>1, <2>2, <2>3 DEF Typed
  <2>5. RightHandle' /\ DataIsNoThirds'
    BY <1>0, <2>1, <2>2, <2>3 DEF RightHandle, DataIsNoThirds
  <2>6. Drained' /\ OneInFlight'
    BY <1>0, <2>1, <2>2, <2>3 DEF Drained, OneInFlight, Asked
  <2>7. LaserFirst' /\ Taken'
    BY <2>1, <2>3 DEF LaserFirst, Taken
  <2> QED  BY <2>4, <2>5, <2>6, <2>7
<1> QED  BY <1>1, <1>2, <1>3 DEF Poll, PollFails

\* A device answers the command it was sent, once.
LEMMA ServeStep ==
    ASSUME CInv, NEW d \in Devices, Serve(d)
    PROVE  CInv'
<1> USE CmdAssumption DEF CInv, Calling
<1>1. /\ inbox[d] \in Seq(Command) /\ inbox[d] # << >> /\ Len(inbox[d]) =< 1
      /\ outbox[d] \in Seq(Command) /\ d \in present
      /\ UNCHANGED <<target, was, pc, handle, seq, cmd, len, head, data, sn,
                     present, clean>>
  BY DEF Serve, Typed, call, host
<1>2. /\ inbox' \in [Devices -> Seq(Command)] /\ inbox'[d] = << >>
      /\ \A e \in Devices : e # d => inbox'[e] = inbox[e]
  <2>1. << >> \in Seq(Command)
    BY EmptySeq
  <2> QED  BY <2>1 DEF Serve, Typed
<1>3. /\ outbox' \in [Devices -> Seq(Command)]
      /\ \A e \in Devices : e # d => outbox'[e] = outbox[e]
      /\ Len(outbox'[d]) =< MaxReplies
      /\ outbox[d] = << >> => outbox'[d] = inbox[d]
  <2>0. Len(inbox[d]) \in Nat /\ Len(outbox[d]) \in Nat /\ Len(<< >>) = 0
    BY <1>1, LenProperties, EmptySeq
  <2>1. CASE outbox' = [outbox EXCEPT ![d] = inbox[d]]
    BY <1>1, <2>0, <2>1 DEF Typed
  <2>2. CASE /\ Len(outbox[d]) \in 1 .. MaxReplies - 1
             /\ outbox' = [outbox EXCEPT ![d] = outbox[d] \o inbox[d]]
    <3>1. /\ outbox[d] \o inbox[d] \in Seq(Command)
          /\ Len(outbox[d] \o inbox[d]) = Len(outbox[d]) + Len(inbox[d])
      BY <1>1, ConcatProperties
    <3>2. Len(outbox[d] \o inbox[d]) =< MaxReplies
      <4> DEFINE m == Len(outbox[d])
                 n == Len(inbox[d])
                 both == outbox[d] \o inbox[d]
      <4>1. n \in Nat /\ n =< 1 /\ m \in 1 .. MaxReplies - 1 /\ Len(both) = m + n
        BY <1>1, <2>0, <2>2, <3>1
      <4> HIDE DEF m, n, both
      <4>2. Len(both) =< MaxReplies
        BY <4>1
      <4> QED  BY <4>2 DEF both
    <3>3. outbox[d] # << >>
      <4>1. Len(outbox[d]) # 0
        BY <2>2
      <4> QED  BY <2>0, <4>1
    <3> QED  BY <2>2, <3>1, <3>2, <3>3 DEF Typed
  <2> QED  BY <2>1, <2>2 DEF Serve
<1>4. /\ lit \subseteq lit' /\ lit' \subseteq present
      /\ inbox[d][1].op = "emitter" => d \in lit'
  BY <1>1 DEF Serve, Typed
<1>5. Typed'
  <2>1. \A e \in Devices : Len(inbox'[e]) =< 1 /\ Len(outbox'[e]) =< MaxReplies
    <3>1. Len(inbox'[d]) =< 1
      BY <1>2, EmptySeq
    <3> QED  BY <1>2, <1>3, <3>1 DEF Typed
  <2>2. \A e \in Devices \ present : inbox'[e] = << >> /\ outbox'[e] = << >>
    BY <1>1, <1>2, <1>3 DEF Typed
  <2> QED  BY <1>1, <1>2, <1>3, <1>4, <2>1, <2>2 DEF Typed
<1>6. Drained'
  <2>1. d \in clean => Asked(d)
    BY <1>1 DEF Drained
  <2> QED  BY <1>1, <1>2, <1>3, <2>1 DEF Drained, Asked, Typed
<1>7. OneInFlight'
  <2> SUFFICES ASSUME NEW e \in clean, Asked(e)
               PROVE  \/ inbox'[e] = <<cmd>> /\ outbox'[e] = << >>
                      \/ /\ inbox'[e] = << >> /\ outbox'[e] = <<cmd>>
                         /\ cmd.op = "emitter" => e \in lit'
    BY <1>1 DEF OneInFlight, Asked
  <2>1. CASE e = d
    <3>1. inbox[d] = <<cmd>> /\ outbox[d] = << >>
      BY <1>1, <2>1 DEF OneInFlight
    <3>2. inbox'[d] = << >> /\ outbox'[d] = <<cmd>>
      BY <1>2, <1>3, <3>1
    <3>3. inbox[d][1] = cmd
      BY <3>1
    <3> QED  BY <1>4, <2>1, <3>2, <3>3
  <2>2. CASE e # d
    BY <1>2, <1>3, <1>4, <2>2 DEF OneInFlight, Typed
  <2> QED  BY <2>1, <2>2
<1> QED
  BY <1>1, <1>4, <1>5, <1>6, <1>7 DEF RightHandle, DataIsNoThirds, LaserFirst, Taken

LEMMA UnplugStep ==
    ASSUME CInv, NEW d \in Devices, Unplug(d)
    PROVE  CInv'
<1> USE CmdAssumption DEF CInv, Calling
<1>1. /\ present' = present \ {d} /\ lit' = lit \ {d} /\ clean' = clean \ {d}
      /\ handle' = IF handle = d THEN NoDevice ELSE handle
      /\ UNCHANGED <<target, was, pc, seq, cmd, len, head, data, sn>>
  BY DEF Unplug, call
<1>2. /\ inbox' \in [Devices -> Seq(Command)] /\ outbox' \in [Devices -> Seq(Command)]
      /\ inbox'[d] = << >> /\ outbox'[d] = << >>
      /\ \A e \in Devices : e # d => inbox'[e] = inbox[e] /\ outbox'[e] = outbox[e]
  <2>1. << >> \in Seq(Command)
    BY EmptySeq
  <2> QED  BY <2>1 DEF Unplug, Typed
<1>3. Typed'
  <2>1. \A e \in Devices : Len(inbox'[e]) =< 1 /\ Len(outbox'[e]) =< MaxReplies
    <3>1. Len(inbox'[d]) =< 1 /\ Len(outbox'[d]) =< MaxReplies
      BY <1>2, EmptySeq
    <3> QED  BY <1>2, <3>1 DEF Typed
  <2> QED  BY <1>1, <1>2, <2>1 DEF Typed
<1>4. Drained' /\ OneInFlight'
  BY <1>1, <1>2 DEF Drained, OneInFlight, Asked, Typed
<1> QED
  BY <1>1, <1>3, <1>4 DEF RightHandle, DataIsNoThirds, LaserFirst, Taken

LEMMA PlugStep ==
    ASSUME CInv, NEW d \in Devices, Plug(d)
    PROVE  CInv'
<1> USE CmdAssumption DEF CInv, Calling
<1>1. /\ d \notin present /\ present' = present \cup {d}
      /\ clean' = IF pc # "idle" /\ target = d THEN clean ELSE clean \cup {d}
      /\ UNCHANGED <<target, was, pc, handle, seq, cmd, len, head, data, sn,
                     inbox, outbox, lit>>
  BY DEF Plug, call, host
<1>2. Typed'
  BY <1>1 DEF Typed
<1>3. d \notin clean /\ inbox[d] = << >> /\ outbox[d] = << >>
  BY <1>1 DEF Typed
<1>4. Calling => (target \in clean' => target \in clean)
  BY <1>1
<1>5. Drained' /\ OneInFlight'
  BY <1>1, <1>3 DEF Drained, OneInFlight, Asked
<1> QED
  BY <1>1, <1>2, <1>4, <1>5 DEF RightHandle, DataIsNoThirds, LaserFirst, Taken

LEMMA Invariance == Spec => []CInv
<1>1. ASSUME CInv, [Next]_vars PROVE CInv'
  <2> USE <1>1 DEF CInv, Calling
  <2>1. ASSUME NEW d \in AnyDevice, Call(d) PROVE CInv'
    <3>1. /\ pc = "idle" /\ pc' = "open" /\ target' = d /\ was' = data /\ sn' = NoDevice
          /\ UNCHANGED <<handle, seq, cmd, len, head, data, present, inbox, outbox,
                         lit, clean>>
      BY <2>1 DEF Call, bench
    <3>2. Typed'
      BY <3>1 DEF Typed, AnyDevice, Bytes
    <3>3. Drained' /\ OneInFlight'
      BY <3>1 DEF Drained, OneInFlight, Asked
    <3> QED  BY <3>1, <3>2, <3>3 DEF RightHandle, DataIsNoThirds, LaserFirst, Taken
  <2>2. CASE Take
    <3>1. /\ pc = "take" /\ pc' = "idle" /\ sn' = data
          /\ UNCHANGED <<target, was, handle, seq, cmd, len, head, data, present,
                         inbox, outbox, lit, clean>>
      BY <2>2 DEF Take, call, bench
    <3>2. Typed'
      BY <3>1 DEF Typed, AnyDevice
    <3>3. Drained' /\ OneInFlight'
      BY <3>1 DEF Drained, OneInFlight, Asked
    <3> QED  BY <3>1, <3>2, <3>3 DEF RightHandle, DataIsNoThirds, LaserFirst, Taken
  <2>3. CASE UNCHANGED vars
    <3>1. UNCHANGED <<target, was, pc, handle, seq, cmd, len, head, data, sn,
                      present, inbox, outbox, lit, clean>>
      BY <2>3 DEF vars, call, host, bench
    <3>2. Typed'
      BY <3>1 DEF Typed
    <3>3. Drained' /\ OneInFlight'
      BY <3>1 DEF Drained, OneInFlight, Asked
    <3> QED  BY <3>1, <3>2, <3>3 DEF RightHandle, DataIsNoThirds, LaserFirst, Taken
  <2> QED
    BY <1>1, <2>1, <2>2, <2>3, OpenStep, SendStep, PollStep, ServeStep, UnplugStep,
       PlugStep DEF Next, Step
<1> QED  BY <1>1, Initial, PTL DEF Spec

-----------------------------------------------------------------------------
\* Every variable keeps its type, the queues of the devices their bounds.
THEOREM TypeCorrect == Spec => []TypeOK
<1>1. CInv => TypeOK
  BY DEF CInv, Typed, TypeOK, AnyDevice, Bytes
<1> QED  BY <1>1, Invariance, PTL

\* A call returns the SN of its device, the bytes of the call before or no SN at
\* all, whatever fails and however often the receive loop is overwritten.
THEOREM SerialIsNoThirds == Spec => NeverAThirds
<1>1. CInv /\ [Next]_vars =>
        [pc = "take" /\ pc' = "idle" => sn' \in {target, was, Garbled}]_vars
  BY DEF CInv, DataIsNoThirds, Next, Step, Call, Open, Send, Poll, PollFails, Take,
     Serve, Unplug, Plug, host, vars
<1> QED  BY <1>1, Invariance, PTL DEF Spec, NeverAThirds

\* As long as nothing failed for a device since it was plugged, a call for it
\* returns its SN with the laser on, out of the reply to the last request.
THEOREM SerialIsOwn == Spec => TakesOwnSerial
<1>1. CInv /\ [Next]_vars =>
        [ pc = "take" /\ target \in clean /\ pc' = "idle" =>
            sn' = target /\ target \in lit /\ head = cmd ]_vars
  BY DEF CInv, Calling, LaserFirst, Taken, Next, Step, Call, Open, Send, Poll,
     PollFails, Take, Serve, Unplug, Plug, host, vars
<1> QED  BY <1>1, Invariance, PTL DEF Spec, TakesOwnSerial
=============================================================================
