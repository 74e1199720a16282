------------------------------- MODULE CmdDevice -------------------------------
(***************************************************************************)
(* The class `cmdDevice' in a call of deviceInquiry::ReadDeviceSN: open the *)
(* device of a path, switch its laser on, read its SN from the flash.  Each *)
(* command is a control transfer out and then control transfers in until   *)
(* one has a usable length.  The results of the transfers are not looked   *)
(* at, replies are not matched with requests, and respone_buffer is reused.*)
(* The handle of a device that is gone, or was never opened, is NoDevice:  *)
(* nothing can be transferred through it.                                  *)
(***************************************************************************)
EXTENDS Integers, Sequences, FiniteSets

CONSTANTS
    Devices,        \* devices, each with a path and an SN of its own
    NoDevice,
    Garbled,        \* bytes that are no device's SN
    Faults,         \* opens and transfers may fail, devices may be unplugged
    SeqSize,        \* 2^16, the range of sequence_num
    MaxReplies      \* bound: unread replies that a device keeps

ASSUME CmdAssumption ==
    /\ NoDevice \notin Devices
    /\ Garbled \notin Devices \cup {NoDevice}
    /\ Faults \in BOOLEAN
    /\ SeqSize \in Nat \ {0}
    /\ MaxReplies \in Nat \ {0}

Command == [op : {"emitter", "flash"}, id : 0 .. SeqSize - 1]
NoCommand == [op |-> "none", id |-> 0]

VARIABLES
    pc,         \* the next step of the call
    target,     \* the path of the call; NoDevice for the empty one
    handle,     \* the device behind ob_hUSBDevice
    seq,        \* sequence_num
    cmd,        \* the header in request_buffer
    len,        \* actual_length: "unset", "unready" (0 or 0x200) or "usable"
    head,       \* the header in respone_buffer
    data,       \* whose SN is in the bytes after it
    sn,         \* the SN of the last call
    present,    \* external: the devices that are plugged in
    inbox,      \* external: the command a device works on
    outbox,     \* external: replies of a device that nobody has fetched
    lit,        \* external: the devices with the laser on
    clean,      \* history: devices that no open and no transfer failed for
    was         \* history: `data' when the call began

call  == <<target, was>>
host  == <<pc, handle, seq, cmd, len, head, data, sn>>
bench == <<present, inbox, outbox, lit>>
vars  == <<call, host, bench, clean>>

AnyDevice == Devices \cup {NoDevice}
Bytes == AnyDevice \cup {Garbled}

TypeOK ==
    /\ pc \in {"idle", "open", "send", "poll", "take"}
    /\ {target, handle} \subseteq AnyDevice
    /\ {data, sn, was} \subseteq Bytes
    /\ seq \in 0 .. SeqSize - 1
    /\ {cmd, head} \subseteq Command \cup {NoCommand}
    /\ len \in {"unset", "unready", "usable"}
    /\ present \subseteq Devices
    /\ lit \subseteq present
    /\ clean \subseteq present
    /\ \A d \in Devices :
        /\ Len(inbox[d]) =< 1
        /\ Len(outbox[d]) =< MaxReplies
        /\ \A b \in {inbox[d], outbox[d]} : \A i \in DOMAIN b : b[i] \in Command

Init ==
    /\ pc = "idle"
    /\ target = NoDevice
    /\ was = NoDevice
    /\ handle = NoDevice
    /\ data = NoDevice
    /\ sn = NoDevice
    /\ seq = 0
    /\ cmd = NoCommand
    /\ head = NoCommand
    /\ len = "unset"
    /\ present = Devices
    /\ lit = {}
    /\ clean = Devices
    /\ inbox = [d \in Devices |-> << >>]
    /\ outbox = [d \in Devices |-> << >>]

-----------------------------------------------------------------------------
\* ReadDeviceSN is entered with the path of a device that is or was there, or
\* with the empty one before any device has been seen.
Call(d) ==
    /\ pc = "idle"
    /\ pc' = "open"
    /\ target' = d
    /\ was' = data
    /\ sn' = NoDevice
    /\ UNCHANGED <<handle, seq, cmd, len, head, data, bench, clean>>

NextSeqMutant == seq + 1        \* mutant: a counter wider than 16 bits

NextSeq == (seq + 1) % SeqSize

\* initial_header, and the entry of send: its actual_length is not initialised.
Request(op) ==
    /\ cmd' = [op |-> op, id |-> seq]
    /\ seq' = NextSeq
    /\ len' = "unset"
    /\ pc' = "send"

Failed == clean' = clean \ {target}

\* mutant: an open that fails leaves the device opened before
OpenedMutant == IF target \in present THEN target ELSE handle

Opened == IF target \in present THEN target ELSE NoDevice

\* GetDevHandle.  A failed open leaves a freed structure behind ob_hUSBDevice,
\* and the call goes on.  The handle opened before is not closed.
Open ==
    /\ pc = "open"
    /\ \/ handle' = Opened /\ UNCHANGED clean
       \/ Faults /\ handle' = NoDevice /\ Failed
    /\ Request("emitter")
    /\ UNCHANGED <<call, head, data, sn, bench>>

\* xnUSBSendControl; the result is ignored.
Send ==
    /\ pc = "send"
    /\ \/ /\ handle # NoDevice
          /\ inbox' = [inbox EXCEPT ![handle] = <<cmd>>]
          /\ UNCHANGED clean
       \/ (Faults \/ handle = NoDevice) /\ Failed /\ UNCHANGED inbox
    /\ pc' = "poll"
    /\ UNCHANGED <<call, handle, seq, cmd, len, head, data, sn,
                   present, outbox, lit>>

AgainMutant(length) == FALSE        \* mutant: one receive, no loop

AgainAlwaysMutant(length) == TRUE   \* mutant: <= 0x200 in place of = 0x200

\* The condition of the receive loop.
Again(length) == length = "unready"

\* The end of send: Emitter is followed by Read_flash, and that by the copy of
\* the SN out of respone_buffer.
Proceed(length) ==
    IF Again(length)
    THEN pc' = "poll" /\ len' = length /\ UNCHANGED <<seq, cmd>>
    ELSE IF cmd.op = "emitter"
    THEN Request("flash")
    ELSE pc' = "take" /\ len' = length /\ UNCHANGED <<seq, cmd>>

\* xnUSBReceiveControl.  The reply of Emitter ends before the bytes where the
\* SN of a flash reply is, so it leaves those.
Reply ==
    /\ handle # NoDevice
    /\ outbox[handle] # << >>
    /\ head' = Head(outbox[handle])
    /\ data' = IF head'.op = "flash" THEN handle ELSE data
    /\ outbox' = [outbox EXCEPT ![handle] = Tail(@)]
    /\ Proceed("usable")
    /\ UNCHANGED clean

\* Without a reply the device sends nothing, or 0x200 bytes of no command, which
\* overwrite respone_buffer although another receive follows.
NothingYet ==
    /\ handle # NoDevice
    /\ outbox[handle] = << >>
    /\ Proceed("unready")
    /\ \/ UNCHANGED <<head, data>>
       \/ head' = NoCommand /\ data' = Garbled
    /\ UNCHANGED <<outbox, clean>>

\* A failed receive writes a length of 0 or none: the one left by the last round,
\* or at first whatever is on the stack, decides whether there is another round.
ReceiveFails ==
    /\ Faults \/ handle = NoDevice
    /\ \E length \in IF len = "unset" THEN {"unready", "usable"} ELSE {len} :
          Proceed(length)
    /\ Failed
    /\ UNCHANGED <<head, data, outbox>>

Poll ==
    /\ pc = "poll"
    /\ Reply \/ NothingYet
    /\ UNCHANGED <<call, handle, sn, present, inbox, lit>>

PollFails ==
    /\ pc = "poll"
    /\ ReceiveFails
    /\ UNCHANGED <<call, handle, sn, present, inbox, lit>>

\* The copy of the 12 bytes at offset 10.
Take ==
    /\ pc = "take"
    /\ pc' = "idle"
    /\ sn' = data
    /\ UNCHANGED <<call, handle, seq, cmd, len, head, data, bench, clean>>

-----------------------------------------------------------------------------
\* The device executes a command.  Whether a reply that was not fetched is kept
\* before the new one is up to its firmware.
Serve(d) ==
    /\ inbox[d] # << >>
    /\ inbox' = [inbox EXCEPT ![d] = << >>]
    /\ \/ outbox' = [outbox EXCEPT ![d] = inbox[d]]
       \/ /\ Len(outbox[d]) \in 1 .. MaxReplies - 1
          /\ outbox' = [outbox EXCEPT ![d] = @ \o inbox[d]]
    /\ lit' = IF inbox[d][1].op = "emitter" THEN lit \cup {d} ELSE lit
    /\ UNCHANGED <<call, host, present, clean>>

Unplug(d) ==
    /\ Faults
    /\ d \in present
    /\ present' = present \ {d}
    /\ inbox' = [inbox EXCEPT ![d] = << >>]
    /\ outbox' = [outbox EXCEPT ![d] = << >>]
    /\ lit' = lit \ {d}
    /\ clean' = clean \ {d}
    /\ handle' = IF handle = d THEN NoDevice ELSE handle
    /\ UNCHANGED <<call, pc, seq, cmd, len, head, data, sn>>

Plug(d) ==
    /\ d \notin present
    /\ present' = present \cup {d}
    /\ clean' = IF pc # "idle" /\ target = d THEN clean ELSE clean \cup {d}
    /\ UNCHANGED <<call, host, inbox, outbox, lit>>

Step == Open \/ Send \/ Poll \/ Take

Next ==
    \/ \E d \in AnyDevice : Call(d)
    \/ Step \/ PollFails
    \/ \E d \in Devices : Serve(d) \/ Unplug(d) \/ Plug(d)

Spec == Init /\ [][Next]_vars

\* The thread goes on, and a device works on what it got.  No transfer has to
\* fail, so that the property below does not hold thanks to a failure.
FairSpec == Spec /\ WF_vars(Step) /\ \A d \in Devices : WF_vars(Serve(d))

-----------------------------------------------------------------------------
\* ReadDeviceSN returns the SN of the device of its path with the laser on, and
\* the reply it was taken from answers the last request: although nothing
\* matches replies, as long as nothing failed for this device since it was
\* plugged, in this call or an earlier one, and whatever failed for others.
TakesOwnSerial ==
    [][ pc = "take" /\ target \in clean /\ pc' = "idle" =>
            sn' = target /\ target \in lit /\ head = cmd ]_vars

\* What polling relies on when things do fail: the call returns the SN of the
\* device asked for, the one that was in the buffer before or bytes that are no
\* SN, never the SN of a third device, which would be taken for this port's part.
NeverAThirds ==
    [][ pc = "take" /\ pc' = "idle" => sn' \in {target, was, Garbled} ]_vars

\* A call comes back, unless something fails for its device.
CallReturns ==
    \A d \in Devices :
        (pc = "open" /\ target = d /\ d \in clean)
            ~> (pc = "idle" \/ d \notin clean)
=============================================================================
