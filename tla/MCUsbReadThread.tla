---------------------------- MODULE MCUsbReadThread ----------------------------
(***************************************************************************)
(* Small instances of the read thread for TLC, with the aggregation of     *)
(* isochronous packets, which does not depend on its state.                *)
(***************************************************************************)
EXTENDS UsbReadThread, IsoPackets

\* Every isochronous transfer is handed over whole, whichever of its packets
\* failed or were cut short.  The state plays no part in it, so it is looked at
\* before the thread is started.
CallsAreTheReceived == tpc = "off" => \A packets \in Transfers : HandedWhole(packets)
=============================================================================
