------------------------------ MODULE IsoPackets ------------------------------
(***************************************************************************)
(* How the read thread hands over an isochronous transfer.  The buffer is  *)
(* divided into packets of one length; each of them was received in full,  *)
(* in part, or not at all, and the callback of the application is called   *)
(* with as many consecutive bytes as possible at a time.                   *)
(***************************************************************************)
EXTENDS Integers, Sequences

CONSTANTS
    PacketLength,   \* length of a packet, wMaxPacketSize of the endpoint
    MaxPackets      \* bound: num_iso_packets of the transfers looked at

ASSUME PacketAssumption ==
    /\ PacketLength \in Nat \ {0}
    /\ MaxPackets \in Nat \ {0}

\* The length of a packet that failed is what was received before it did.
Packet == [completed : BOOLEAN, length : 0 .. PacketLength]

Transfers == UNION {[1 .. n -> Packet] : n \in 1 .. MaxPackets}

\* libusb_get_iso_packet_buffer_simple.
StartOf(i) == (i - 1) * PacketLength

StopsMutant(packets, i) ==      \* mutant: a partial packet does not stop it
    ~packets[i].completed \/ i = Len(packets)

Stops(packets, i) ==
    \/ ~packets[i].completed
    \/ packets[i].length # PacketLength
    \/ i = Len(packets)

Null == -1

NothingYet == [from |-> Null, size |-> 0]

\* One packet of the loop: pBuffer and nTotalBytes, and the calls so far.
Aggregate(packets, i, acc) ==
    LET p     == packets[i]
        chunk == IF p.completed
                 THEN [from |-> IF acc.chunk.from = Null THEN StartOf(i) ELSE acc.chunk.from,
                       size |-> acc.chunk.size + p.length]
                 ELSE acc.chunk
    IN  IF ~Stops(packets, i) THEN [acc EXCEPT !.chunk = chunk]
        ELSE [chunk |-> NothingYet,
              calls |-> IF chunk.size = 0 THEN acc.calls ELSE Append(acc.calls, chunk)]

\* The loop: what there is after the first i packets.
Loop(packets) ==
    LET after[i \in 0 .. Len(packets)] ==
            IF i = 0 THEN [chunk |-> NothingYet, calls |-> << >>]
                     ELSE Aggregate(packets, i, after[i - 1])
    IN  after

\* The calls for a transfer, each with where its data begins and how much it is.
CallsFor(packets) == Loop(packets)[Len(packets)].calls

-----------------------------------------------------------------------------
\* The bytes of the buffer that were received in packets that did not fail.
Received(packets) ==
    UNION {StartOf(i) .. StartOf(i) + packets[i].length - 1 :
              i \in {j \in DOMAIN packets : packets[j].completed}}

BytesOf(call) == call.from .. call.from + call.size - 1

\* What the calls for a transfer hand over are the received bytes, all of them
\* and no other, each once and in their order, and no two calls are next to each
\* other: "aggregate as many consequent packets as possible"
\* (XnLinuxUSB.cpp:1423).
HandedWhole(packets) ==
    LET calls == CallsFor(packets)
    IN  /\ UNION {BytesOf(calls[k]) : k \in DOMAIN calls} = Received(packets)
        /\ \A k \in 1 .. Len(calls) - 1 :
              calls[k].from + calls[k].size < calls[k + 1].from
=============================================================================
