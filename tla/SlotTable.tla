------------------------------ MODULE SlotTable ------------------------------
(***************************************************************************)
(* The table of preheat slots of deviceInquiry: IDqueue, PNqueue, DBstatus *)
(* and ProgressData, six positions wide in the code.  An IDqueue string is *)
(* "" (nobody has used the slot), "X" (the device on port X is in it) or   *)
(* "&X" (the device that was on port X has been unplugged).  Here a slot   *)
(* is a record: `port' and `lost' stand for the IDqueue string, `pn',      *)
(* `status' and `value' for PNqueue, DBstatus and progressValue.           *)
(*                                                                         *)
(* The operators map a table to a table, one for each function of the      *)
(* class; the worker composes them.                                        *)
(***************************************************************************)
EXTENDS Integers, FiniteSets

CONSTANTS
    Ports,      \* the USB ports: uriParsing turns a device uri into one
    Parts,      \* the devices on the bench, named by the PN in their flash
    NoPort,     \* the empty IDqueue string
    NoPart,     \* the empty PNqueue string, or bytes that are no PN
    NumSlots,   \* PROGRESSCOUNT: 6 in the code
    Seconds,    \* secondsForExecution: the Time/PreHeat key of Config.ini
    ValueCap    \* bound: a progressValue beyond it is kept at it

ASSUME SlotTableAssumption ==
    /\ IsFiniteSet(Ports)
    /\ IsFiniteSet(Parts)
    /\ NoPort \notin Ports
    /\ NoPart \notin Parts
    /\ NumSlots \in Nat \ {0}
    /\ Seconds \in Int
    /\ ValueCap \in Nat
    /\ Seconds =< ValueCap

Slots == 1 .. NumSlots

\* The three texts pushItemInIDqueue writes into DBstatus, and "".
Statuses == {"", "normal", "noinfo", "bistfailed"}

Slot == [port : Ports \cup {NoPort}, lost : BOOLEAN,
         pn : Parts \cup {NoPart}, status : Statuses, value : 0 .. ValueCap]

EmptySlot ==
    [port |-> NoPort, lost |-> FALSE, pn |-> NoPart, status |-> "", value |-> 0]

EmptyTable == [i \in Slots |-> EmptySlot]

Occupied(tab, i) == tab[i].port # NoPort
Live(tab, i) == Occupied(tab, i) /\ ~tab[i].lost

-----------------------------------------------------------------------------
\* The slots at which the scan of pushItemInIDqueue stops: it owns the port,
\* live or marked, or it is empty.  The scan ends at the first of them.
StopsAtMutant(tab, port) ==     \* mutant: a marked slot is not reclaimed
    {i \in Slots : tab[i].port = NoPort \/ (tab[i].port = port /\ ~tab[i].lost)}

StopsAt(tab, port) == {i \in Slots : tab[i].port \in {port, NoPort}}

Target(tab, port, i) ==
    /\ i \in StopsAt(tab, port)
    /\ \A j \in StopsAt(tab, port) : i =< j

\* A live slot of the port is left as it is, PN and status included; when
\* every slot belongs to another port the device is dropped.
PushMutant(tab, port, pn, status) ==     \* mutant: PNqueue is not assigned
    [i \in Slots |->
        IF Target(tab, port, i) /\ ~Live(tab, i)
        THEN [tab[i] EXCEPT !.port = port, !.lost = FALSE, !.status = status]
        ELSE tab[i]]

Push(tab, port, pn, status) ==
    [i \in Slots |->
        IF Target(tab, port, i) /\ ~Live(tab, i)
        THEN [tab[i] EXCEPT !.port = port, !.lost = FALSE,
                            !.pn = pn, !.status = status]
        ELSE tab[i]]

\* The mark keeps the slot for the port: it is never empty again.
Clear(tab, port) ==
    [i \in Slots |->
        IF tab[i].port = port /\ ~tab[i].lost
        THEN [tab[i] EXCEPT !.lost = TRUE, !.pn = NoPart, !.status = ""]
        ELSE tab[i]]

\* One more second for one slot.
AdvanceMutant(s) ==     \* mutant: a marked slot keeps its progressValue
    [s EXCEPT !.value =
        IF s.status = "normal" /\ s.value < ValueCap THEN s.value + 1 ELSE s.value]

Advance(s) ==
    [s EXCEPT !.value =
        IF s.port = NoPort \/ s.lost THEN 0
        ELSE IF s.status = "normal" /\ s.value < ValueCap THEN s.value + 1
        ELSE s.value]

\* The loop leaves at the first empty slot: those behind it are not visited.
VisitedMutant(tab, i) ==     \* mutant: the loop leaves at a marked slot too
    \A j \in Slots : j < i => Live(tab, j)

Visited(tab, i) == \A j \in Slots : j < i => Occupied(tab, j)

Renew(tab) == [i \in Slots |-> IF Visited(tab, i) THEN Advance(tab[i]) ELSE tab[i]]

\* progressPercent = 100.  The float quotient by zero or by a negative time
\* converts to no positive int, so such a configuration never finishes.
FullMutant(s) == Seconds > 0 /\ s.value + 1 >= Seconds     \* mutant: off by one

Full(s) == Seconds > 0 /\ s.value >= Seconds

-----------------------------------------------------------------------------
\* What the table keeps between two polls.

\* Occupied slots are a prefix, so the scans that stop at the first empty
\* slot (pushItemInIDqueue, renewProgressBarValue) miss nobody.
PrefixFilled(tab) ==
    \A i, j \in Slots : i < j /\ Occupied(tab, j) => Occupied(tab, i)

\* No port has two slots, live or marked.
OneSlotPerPort(tab) ==
    \A i, j \in Slots :
        Occupied(tab, i) /\ tab[i].port = tab[j].port => i = j

\* Only a live slot with a normal status carries heating time, so a slot that
\* is taken or reclaimed starts from zero although the push does not reset it.
HeatIsEarned(tab) ==
    \A i \in Slots : tab[i].value > 0 => Live(tab, i) /\ tab[i].status = "normal"

\* A marked or empty slot shows no PN and no status.
VacantIsBlank(tab) ==
    \A i \in Slots : ~Live(tab, i) => tab[i].pn = NoPart /\ tab[i].status = ""
=============================================================================
