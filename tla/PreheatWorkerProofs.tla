------------------------- MODULE PreheatWorkerProofs -------------------------
(***************************************************************************)
(* Type correctness of the polling worker and the soundness of its slot    *)
(* table, and that it implements the bench of bays, for any number of      *)
(* ports, devices, slots and seconds and for any behaviour of the operator,*)
(* the link and the other stations.                                        *)
(***************************************************************************)
EXTENDS PreheatRefinement, FiniteSetTheorems, TLAPS

Tables == [Slots -> Slot]

\* What is left of HeatIsEarned between clearValueInIDqueue and the renewal: a
\* slot that was marked in this poll still has the heat of the device it lost.
HeatIsOwned(tab) ==
    \A i \in Slots :
        tab[i].value > 0 =>
            Occupied(tab, i) /\ (tab[i].lost \/ tab[i].status = "normal")

\* The part of the soundness that a queue update keeps by itself.
Ready(tab) ==
    /\ tab \in Tables
    /\ PrefixFilled(tab)
    /\ OneSlotPerPort(tab)
    /\ VacantIsBlank(tab)
    /\ HeatIsOwned(tab)

Sound(tab) ==
    /\ tab \in Tables
    /\ PrefixFilled(tab)
    /\ OneSlotPerPort(tab)
    /\ HeatIsEarned(tab)
    /\ VacantIsBlank(tab)

\* A flag other than 0 comes with the port it is about.
FlagNamesPort == flag # 0 => changing \in Ports

\* check_bist is asked about a PN only after get_item found it.
AskedIsPart == pc = "bist" => newPN \in Parts

IInv == TypeOK /\ TableIsSound /\ FlagNamesPort /\ AskedIsPart

-----------------------------------------------------------------------------
LEMMA SoundIsReady ==
    ASSUME NEW tab, Sound(tab)
    PROVE  Ready(tab)
  BY DEF Sound, Ready, HeatIsEarned, HeatIsOwned, Live

\* A push fills the first free slot or reclaims the slot of the port.
LEMMA PushReady ==
    ASSUME NEW tab, Sound(tab),
           NEW port \in Ports, NEW pn \in Parts \cup {NoPart},
           NEW status \in Statuses
    PROVE  Ready(Push(tab, port, pn, status))
<1> DEFINE new == Push(tab, port, pn, status)
<1> USE SlotTableAssumption
<1>0. \A i \in Slots : tab[i] \in Slot
  BY DEF Sound, Tables
<1>1. new \in Tables
  <2>1. \A i \in Slots : [tab[i] EXCEPT !.port = port, !.lost = FALSE,
                                        !.pn = pn, !.status = status] \in Slot
    BY <1>0 DEF Slot
  <2> QED
    BY <1>0, <2>1 DEF Tables, Push
<1>2. \A i \in Slots :
        \/ new[i] = tab[i]
        \/ /\ Target(tab, port, i) /\ ~Live(tab, i)
           /\ new[i].port = port /\ new[i].lost = FALSE /\ new[i].pn = pn
           /\ new[i].status = status /\ new[i].value = tab[i].value
  BY <1>0 DEF Push, Slot
<1>3. \A i \in Slots : Occupied(tab, i) => Occupied(new, i) /\ new[i].port = tab[i].port
  BY <1>2 DEF Target, StopsAt, Occupied
<1>4. \A i \in Slots :
        Occupied(new, i) /\ ~Occupied(tab, i) => Target(tab, port, i) /\ new[i].port = port
  BY <1>2 DEF Occupied
<1>5. PrefixFilled(new)
  <2> SUFFICES ASSUME NEW i \in Slots, NEW j \in Slots, i < j, Occupied(new, j)
               PROVE  Occupied(new, i)
    BY DEF PrefixFilled
  <2>1. CASE Occupied(tab, j)
    BY <2>1, <1>3 DEF Sound, PrefixFilled
  <2>2. CASE ~Occupied(tab, j)
    <3>1. Target(tab, port, j)
      BY <2>2, <1>4
    <3>2. i \notin StopsAt(tab, port)
      BY <3>1 DEF Target, Slots
    <3>3. Occupied(tab, i)
      BY <3>2 DEF StopsAt, Occupied
    <3> QED
      BY <3>3, <1>3
  <2> QED
    BY <2>1, <2>2
<1>6. OneSlotPerPort(new)
  <2> SUFFICES ASSUME NEW i \in Slots, NEW j \in Slots,
                      Occupied(new, i), new[i].port = new[j].port, i # j
               PROVE  FALSE
    BY DEF OneSlotPerPort
  <2>0. Occupied(new, j)
    BY DEF Occupied
  <2>1. CASE Occupied(tab, i) /\ Occupied(tab, j)
    BY <2>1, <1>3 DEF Sound, OneSlotPerPort
  <2>2. CASE Occupied(tab, i) /\ ~Occupied(tab, j)
    <3>1. Target(tab, port, j) /\ tab[i].port = port
      BY <2>2, <2>0, <1>3, <1>4
    <3>2. i \in StopsAt(tab, port) /\ j < i
      BY <3>1 DEF StopsAt, Target, Slots
    <3> QED
      BY <3>2, <2>2 DEF Sound, PrefixFilled
  <2>3. CASE ~Occupied(tab, i) /\ Occupied(tab, j)
    <3>1. Target(tab, port, i) /\ tab[j].port = port
      BY <2>3, <1>3, <1>4
    <3>2. j \in StopsAt(tab, port) /\ i < j
      BY <3>1 DEF StopsAt, Target, Slots
    <3> QED
      BY <3>2, <2>3 DEF Sound, PrefixFilled
  <2>4. CASE ~Occupied(tab, i) /\ ~Occupied(tab, j)
    <3>1. Target(tab, port, i) /\ Target(tab, port, j)
      BY <2>4, <2>0, <1>4
    <3> QED
      BY <3>1 DEF Target, StopsAt, Slots
  <2> QED
    BY <2>1, <2>2, <2>3, <2>4
<1>7. VacantIsBlank(new)
  BY <1>2 DEF Sound, VacantIsBlank, Live, Occupied
<1>8. HeatIsOwned(new)
  BY <1>2 DEF Sound, HeatIsEarned, HeatIsOwned, Live, Occupied
<1> QED
  BY <1>1, <1>5, <1>6, <1>7, <1>8 DEF Ready

\* A clear marks the live slot of the port and keeps every slot where it is.
LEMMA ClearReady ==
    ASSUME NEW tab, Sound(tab), NEW port \in Ports
    PROVE  Ready(Clear(tab, port))
<1> DEFINE new == Clear(tab, port)
<1> USE SlotTableAssumption
<1>0. \A i \in Slots : tab[i] \in Slot
  BY DEF Sound, Tables
<1>1. new \in Tables
  <2>1. \A i \in Slots :
          [tab[i] EXCEPT !.lost = TRUE, !.pn = NoPart, !.status = ""] \in Slot
    BY <1>0 DEF Slot, Statuses
  <2> QED
    BY <1>0, <2>1 DEF Tables, Clear
<1>2. \A i \in Slots :
        \/ new[i] = tab[i]
        \/ /\ tab[i].port = port
           /\ new[i].port = port /\ new[i].lost = TRUE /\ new[i].pn = NoPart
           /\ new[i].status = "" /\ new[i].value = tab[i].value
  BY <1>0 DEF Clear, Slot
<1>3. \A i \in Slots : new[i].port = tab[i].port
  BY <1>2
<1>4. PrefixFilled(new) /\ OneSlotPerPort(new)
  BY <1>3 DEF Sound, PrefixFilled, OneSlotPerPort, Occupied
<1>5. VacantIsBlank(new)
  BY <1>2 DEF Sound, VacantIsBlank, Live, Occupied
<1>6. HeatIsOwned(new)
  BY <1>2 DEF Sound, HeatIsEarned, HeatIsOwned, Live, Occupied
<1> QED
  BY <1>1, <1>4, <1>5, <1>6 DEF Ready

\* The renewal visits every occupied slot, so no marked slot keeps its heat.
LEMMA RenewSound ==
    ASSUME NEW tab, Ready(tab)
    PROVE  Sound(Renew(tab))
<1> DEFINE new == Renew(tab)
<1> USE SlotTableAssumption
<1>1. \A i \in Slots : tab[i] \in Slot
  BY DEF Ready, Tables
<1>2. \A s \in Slot : /\ Advance(s) \in Slot
                      /\ Advance(s).port = s.port /\ Advance(s).lost = s.lost
                      /\ Advance(s).pn = s.pn /\ Advance(s).status = s.status
  BY DEF Advance, Slot
<1>3. new \in Tables
  BY <1>1, <1>2 DEF Renew, Tables
<1>4. \A i \in Slots : /\ new[i].port = tab[i].port
                       /\ new[i].lost = tab[i].lost
                       /\ new[i].pn = tab[i].pn
                       /\ new[i].status = tab[i].status
  BY <1>1, <1>2 DEF Renew
<1>5. /\ PrefixFilled(new)
      /\ OneSlotPerPort(new)
      /\ VacantIsBlank(new)
  <2>1. PrefixFilled(new)
    BY <1>4 DEF Ready, PrefixFilled, Occupied
  <2>2. OneSlotPerPort(new)
    BY <1>4 DEF Ready, OneSlotPerPort, Occupied
  <2>3. VacantIsBlank(new)
    BY <1>4 DEF Ready, VacantIsBlank, Live, Occupied
  <2> QED
    BY <2>1, <2>2, <2>3
<1>6. HeatIsEarned(new)
  <2> SUFFICES ASSUME NEW i \in Slots, new[i].value > 0
               PROVE  Live(new, i) /\ new[i].status = "normal"
    BY DEF HeatIsEarned
  <2>1. CASE ~Occupied(tab, i)
    <3>1. tab[i].value = 0
      BY <2>1, <1>1 DEF Ready, HeatIsOwned, Slot
    <3>2. Advance(tab[i]).value = 0
      BY <2>1, <1>1 DEF Advance, Occupied, Slot
    <3> QED
      BY <3>1, <3>2 DEF Renew
  <2>2. CASE Occupied(tab, i)
    <3>1. Visited(tab, i)
      BY <2>2 DEF Visited, Ready, PrefixFilled
    <3>2. new[i] = Advance(tab[i])
      BY <3>1 DEF Renew
    <3>3. ~tab[i].lost
      BY <3>2, <2>2, <1>1 DEF Advance, Occupied, Slot
    <3>4. tab[i].status = "normal"
      BY <3>2, <3>3, <2>2, <1>1 DEF Ready, HeatIsOwned, Advance, Occupied, Slot
    <3> QED
      BY <3>3, <3>4, <2>2, <1>4 DEF Live, Occupied
  <2> QED
    BY <2>1, <2>2
<1> QED
  BY <1>3, <1>5, <1>6 DEF Sound
-----------------------------------------------------------------------------
LEMMA EmptyTableSound == Sound(EmptyTable)
<1>1. EmptySlot \in Slot
  BY SlotTableAssumption DEF EmptySlot, Slot, Statuses
<1>2. EmptyTable \in Tables
  BY <1>1 DEF EmptyTable, Tables
<1>3. \A i \in Slots : /\ EmptyTable[i].port = NoPort
                       /\ EmptyTable[i].pn = NoPart
                       /\ EmptyTable[i].status = ""
                       /\ EmptyTable[i].value = 0
  BY DEF EmptyTable, EmptySlot
<1>4. PrefixFilled(EmptyTable) /\ OneSlotPerPort(EmptyTable)
  BY <1>3 DEF PrefixFilled, OneSlotPerPort, Occupied
<1>5. HeatIsEarned(EmptyTable)
  <2> SUFFICES ASSUME NEW i \in Slots, EmptyTable[i].value > 0
               PROVE  FALSE
    BY DEF HeatIsEarned
  <2>1. EmptyTable[i].value = 0
    BY <1>3
  <2> QED
    BY <2>1
<1>6. VacantIsBlank(EmptyTable)
  BY <1>3 DEF VacantIsBlank
<1> QED
  BY <1>2, <1>4, <1>5, <1>6 DEF Sound

LEMMA InitInvariant == Init => IInv
<1> SUFFICES ASSUME Init PROVE IInv
  OBVIOUS
<1> USE SlotTableAssumption, WorkerAssumption
<1>1. TableIsSound /\ slots \in [Slots -> Slot]
  BY EmptyTableSound DEF Init, TableIsSound, Sound, Tables
<1>2. changes \in 0 .. MaxChanges
  <2>1. IsFiniteSet(PluggedPorts)
    BY FS_Subset DEF PluggedPorts
  <2>2. Cardinality(PluggedPorts) \in Nat
    BY <2>1, FS_CardinalityType
  <2>3. changes = Cardinality(PluggedPorts) /\ changes =< MaxChanges
    BY DEF Init
  <2> QED
    BY <2>2, <2>3
<1>3. TypeOK
  <2>1. /\ pc = "idle" /\ connected = {} /\ changing = NoPort /\ flag = 0
        /\ buffer = NoPart /\ newPN = NoPart /\ verdict = "" /\ rec = 1
    BY DEF Init
  <2>2. /\ session = "closed" /\ count = 0 /\ link = TRUE /\ preheated = {}
        /\ vetted = {} /\ plugged \in [Ports -> Parts \cup {NoPart}]
        /\ bist \in [Parts -> Results]
    BY DEF Init
  <2>3. warm \in [Parts -> 0 .. ValueCap]
    <3>1. warm = [a \in Parts |-> 0]
      BY DEF Init
    <3> QED
      BY <3>1
  <2>4. rec \in 1 .. NumSlots + 1 /\ flag \in -1 .. 1 /\ count \in Nat
    <3>1. rec = 1 /\ flag = 0 /\ count = 0
      BY <2>1, <2>2
    <3> QED
      BY <3>1
  <2>5. /\ pc \in PCs /\ verdict \in Statuses /\ link \in BOOLEAN
        /\ session \in {"closed", "open", "broken"}
    BY <2>1, <2>2 DEF PCs, Statuses
  <2> QED
    BY <1>1, <1>2, <2>1, <2>2, <2>3, <2>4, <2>5 DEF TypeOK
<1>4. FlagNamesPort /\ AskedIsPart
  BY DEF Init, FlagNamesPort, AskedIsPart
<1> QED
  BY <1>1, <1>3, <1>4 DEF IInv

\* Only a scan moves the flag and the changing port, and only an update moves
\* the table; the other steps leave both to the typing argument.
LEMMA NextInvariant == IInv /\ [Next]_vars => IInv'
<1> SUFFICES ASSUME IInv, [Next]_vars PROVE IInv'
  OBVIOUS
<1> USE SlotTableAssumption, WorkerAssumption DEF IInv, TypeOK
<1>1. CASE Start
  BY <1>1 DEF Start, bench, db, PCs, TableIsSound, FlagNamesPort, AskedIsPart
<1>2. CASE Open
  BY <1>2 DEF Open, bench, PCs, TableIsSound, FlagNamesPort, AskedIsPart
<1>3. CASE Scan
  <2>1. connected' \subseteq Ports
    BY <1>3 DEF Scan, PluggedPorts
  <2>2. flag' \in -1 .. 1 /\ changing' \in Ports \cup {NoPort} /\ FlagNamesPort'
    BY <1>3, <2>1 DEF Scan, Diff, FlagNamesPort
  <2>3. warm' \in [Parts -> 0 .. ValueCap]
    BY <1>3 DEF Scan
  <2>4. /\ UNCHANGED <<slots, buffer, newPN, verdict, rec, plugged, session,
                        count, link, bist, preheated, vetted>>
        /\ pc' = "read" /\ pc' \in PCs /\ changes' \in 0 .. MaxChanges
    BY <1>3 DEF Scan, db, PCs
  <2>5. TableIsSound'
    BY <2>4 DEF TableIsSound
  <2> QED
    BY <2>1, <2>2, <2>3, <2>4, <2>5 DEF AskedIsPart
<1>4. CASE ReadSN
  BY <1>4 DEF ReadSN, Answers, FlashPN, bench, db, PCs, TableIsSound, FlagNamesPort, AskedIsPart
<1>5. CASE QueryItem
  BY <1>5 DEF QueryItem, bench, db, PCs, Statuses, TableIsSound, FlagNamesPort, AskedIsPart
<1>6. CASE QueryBist
  <2>1. vetted' \subseteq Parts
    BY <1>6 DEF QueryBist, AskedIsPart
  <2>2. verdict' \in Statuses
    BY <1>6 DEF QueryBist, Statuses
  <2> QED
    BY <1>6, <2>1, <2>2 DEF QueryBist, bench, PCs, TableIsSound, FlagNamesPort, AskedIsPart
<1>7. CASE Update
  <2>1. Sound(slots)
    BY DEF Sound, Tables, TableIsSound
  <2>2. Ready(Changed)
    <3>1. CASE flag = 1
      BY <3>1, <2>1, PushReady DEF Changed, FlagNamesPort
    <3>2. CASE flag = -1
      BY <3>2, <2>1, ClearReady DEF Changed, FlagNamesPort
    <3>3. CASE flag = 0
      BY <3>3, <2>1, SoundIsReady DEF Changed
    <3> QED
      BY <3>1, <3>2, <3>3
  <2>3. Sound(slots')
    BY <1>7, <2>2, RenewSound DEF Update
  <2>4. TableIsSound' /\ slots' \in [Slots -> Slot]
    BY <2>3 DEF Sound, Tables, TableIsSound
  <2>5. /\ UNCHANGED <<connected, changing, flag, buffer, newPN, verdict,
                        plugged, changes, warm, session, count, link, bist,
                        preheated, vetted>>
        /\ pc' # "bist" /\ pc' \in PCs /\ rec' \in 1 .. NumSlots + 1
    BY <1>7 DEF Update, bench, db, PCs
  <2> QED
    BY <2>4, <2>5 DEF FlagNamesPort, AskedIsPart
<1>8. CASE Record
  <2>1. slots[rec].pn \in Parts \cup {NoPart}
    BY <1>8 DEF Record, Slot
  <2>2. preheated' \subseteq Parts
    BY <1>8, <2>1 DEF Record
  <2>3. rec' \in 1 .. NumSlots + 1
    BY <1>8 DEF Record, Slots
  <2> QED
    BY <1>8, <2>2, <2>3 DEF Record, bench, TableIsSound, FlagNamesPort, AskedIsPart
<1>9. CASE Finish
  <2>1. Cardinality(preheated) \in Nat
    BY FS_Subset, FS_CardinalityType
  <2> QED
    BY <1>9, <2>1 DEF Finish, Counted, bench, PCs, TableIsSound, FlagNamesPort, AskedIsPart
<1>10. ASSUME NEW p \in Ports, Unplug(p) PROVE IInv'
  BY <1>10 DEF Unplug, worker, db, TableIsSound, FlagNamesPort, AskedIsPart
<1>11. ASSUME NEW p \in Ports, NEW a \in Parts, Plug(p, a) PROVE IInv'
  BY <1>11 DEF Plug, worker, TableIsSound, FlagNamesPort, AskedIsPart
<1>12. CASE LinkDrops
  BY <1>12 DEF LinkDrops, worker, bench, TableIsSound, FlagNamesPort, AskedIsPart
<1>13. CASE LinkReturns
  BY <1>13 DEF LinkReturns, worker, bench, TableIsSound, FlagNamesPort, AskedIsPart
<1>14. ASSUME NEW a \in Parts, NEW r \in Results, BistStation(a, r) PROVE IInv'
  BY <1>14 DEF BistStation, Results, worker, bench, TableIsSound, FlagNamesPort, AskedIsPart
<1>15. CASE Restart
  <2>1. TableIsSound' /\ slots' \in [Slots -> Slot]
    <3>1. slots' = EmptyTable
      BY <1>15 DEF Restart, Restarted
    <3> QED
      BY <3>1, EmptyTableSound DEF Sound, Tables, TableIsSound
  <2>2. changes' \in 0 .. MaxChanges
    <3>1. IsFiniteSet(PluggedPorts)
      BY FS_Subset DEF PluggedPorts
    <3>2. Cardinality(PluggedPorts) \in Nat
      BY <3>1, FS_CardinalityType
    <3>3. changes' = Cardinality(PluggedPorts) /\ changes' =< MaxChanges
      BY <1>15 DEF Restart
    <3> QED
      BY <3>2, <3>3
  <2>3. warm' \in [Parts -> 0 .. ValueCap]
    <3>1. warm' = [a \in Parts |-> 0]
      BY <1>15 DEF Restart
    <3> QED
      BY <3>1
  <2>4. /\ pc' = "idle" /\ connected' = {} /\ changing' = NoPort /\ flag' = 0
        /\ buffer' = NoPart /\ newPN' = NoPart /\ verdict' = "" /\ rec' = 1
        /\ session' = "closed" /\ count' = 0 /\ vetted' = {}
        /\ UNCHANGED <<plugged, link, bist, preheated>>
    BY <1>15 DEF Restart
  <2>5. pc' \in PCs /\ verdict' \in Statuses
    BY <2>4 DEF PCs, Statuses
  <2>6. rec' \in 1 .. NumSlots + 1 /\ flag' \in -1 .. 1 /\ count' \in Nat
    <3>1. rec' = 1 /\ flag' = 0 /\ count' = 0
      BY <2>4
    <3> QED
      BY <3>1
  <2> QED
    BY <2>1, <2>2, <2>3, <2>4, <2>5, <2>6 DEF FlagNamesPort, AskedIsPart
<1>16. CASE UNCHANGED vars
  BY <1>16 DEF vars, worker, bench, db, TableIsSound, FlagNamesPort, AskedIsPart
<1> QED
  BY <1>1, <1>2, <1>3, <1>4, <1>5, <1>6, <1>7, <1>8, <1>9, <1>10, <1>11,
     <1>12, <1>13, <1>14, <1>15, <1>16
     DEF Next, Poll, Environment

-----------------------------------------------------------------------------
\* Every variable of the worker keeps its type.
THEOREM TypeCorrect == Spec => []TypeOK
<1>1. IInv => TypeOK
  BY DEF IInv
<1> QED
  BY <1>1, InitInvariant, NextInvariant, PTL DEF Spec

\* The slot table of deviceInquiry is sound in every state of the station.
THEOREM TableAlwaysSound == Spec => []TableIsSound
<1>1. IInv => TableIsSound
  BY DEF IInv
<1> QED
  BY <1>1, InitInvariant, NextInvariant, PTL DEF Spec

-----------------------------------------------------------------------------
\* A dropped link breaks the session of the poll, and only a poll opens one.
SessionNeedsLink == session = "open" => link

LEMMA SessionNeedsLinkNext ==
    ASSUME SessionNeedsLink, [Next]_vars PROVE SessionNeedsLink'
<1>1. CASE UNCHANGED <<session, link>>
  BY <1>1 DEF SessionNeedsLink
<1>2. CASE Open \/ Finish \/ Restart \/ LinkDrops \/ LinkReturns
  BY <1>2 DEF Open, Finish, Restart, LinkDrops, LinkReturns, SessionNeedsLink
<1>3. CASE \/ Start \/ Scan \/ ReadSN \/ QueryItem \/ QueryBist \/ Update \/ Record
           \/ \E p \in Ports : Unplug(p) \/ \E a \in Parts : Plug(p, a)
           \/ \E a \in Parts, r \in Results : BistStation(a, r)
           \/ UNCHANGED vars
  BY <1>1, <1>3 DEF Start, Scan, ReadSN, QueryItem, QueryBist, Update, Record,
     Unplug, Plug, BistStation, vars, db
<1> QED
  BY <1>2, <1>3 DEF Next, Poll, Environment

\* Only the loop over the slots writes preheat results.
LEMMA RecordStep ==
    ASSUME IInv, SessionNeedsLink, [Next]_vars, preheated' # preheated
    PROVE  \E i \in Slots :
             /\ slots[i].value >= Seconds /\ Live(slots, i) /\ link
             /\ preheated' = preheated \cup {slots[i].pn}
<1>1. Record
  BY DEF Next, Poll, Environment, Start, Open, Scan, ReadSN, QueryItem, QueryBist,
     Update, Finish, Restart, Plug, Unplug, LinkDrops, LinkReturns, BistStation,
     vars, db
<1>2. /\ rec \in Slots /\ Due(rec) /\ link
      /\ preheated' = preheated \cup {slots[rec].pn}
  BY <1>1 DEF Record, SessionNeedsLink
<1>3. slots[rec].value >= Seconds /\ slots[rec].value > 0
  BY <1>2, SlotTableAssumption DEF Due, Full, IInv, TypeOK, Slot
<1>4. Live(slots, rec)
  BY <1>2, <1>3 DEF IInv, TableIsSound, HeatIsEarned
<1> QED  BY <1>2, <1>3, <1>4

\* The set of recorded devices grows by the device of a due slot, while the
\* link is up, and never otherwise.
THEOREM OnlyDueRecorded == Spec => RecordsOnlyDue
<1> DEFINE Step ==
      preheated' # preheated =>
         \E i \in Slots :
           /\ slots[i].value >= Seconds /\ Live(slots, i) /\ link
           /\ preheated' = preheated \cup {slots[i].pn}
<1>1. Init => IInv /\ SessionNeedsLink
  BY InitInvariant DEF Init, SessionNeedsLink
<1>2. IInv /\ SessionNeedsLink /\ [Next]_vars => (IInv /\ SessionNeedsLink)'
  BY NextInvariant, SessionNeedsLinkNext
<1>3. IInv /\ SessionNeedsLink /\ [Next]_vars => [Step]_vars
  BY RecordStep
<1> QED
  BY <1>1, <1>2, <1>3, PTL DEF Spec, RecordsOnlyDue

-----------------------------------------------------------------------------
\* The refinement: every step of the worker is a step of the bench of bays or
\* leaves it alone.
BaysOf(tab) == [p \in Ports |-> BayIn(tab, p)]

\* A device that a scan found new has been given a verdict by the time of the
\* update.
VerdictGiven ==
    pc = "update" /\ changing # NoPort => verdict \in {"normal", "noinfo", "bistfailed"}

RInv == IInv /\ VerdictGiven

-----------------------------------------------------------------------------
\* The bay of a live slot is its content.
LEMMA BayOfLive ==
    ASSUME NEW tab, OneSlotPerPort(tab), NEW i \in Slots, Live(tab, i)
    PROVE  BayIn(tab, tab[i].port) = BayOf(tab[i])
<1> DEFINE L == LiveSlots(tab, tab[i].port)
<1>1. i \in L
  BY DEF LiveSlots
<1>2. \A j \in L : j = i
  BY DEF LiveSlots, OneSlotPerPort, Live
<1>3. (CHOOSE j \in L : TRUE) = i
  <2>1. (CHOOSE j \in L : TRUE) \in L
    BY <1>1
  <2> QED  BY <2>1, <1>2
<1> QED  BY <1>1, <1>3 DEF BayIn

LEMMA BayOfNone ==
    ASSUME NEW tab, NEW p, \A i \in Slots : Live(tab, i) => tab[i].port # p
    PROVE  BayIn(tab, p) = VacantBay
<1>1. LiveSlots(tab, p) = {}
  BY DEF LiveSlots
<1> QED  BY <1>1 DEF BayIn

\* Two tables that agree on the live slots of a port agree on its bay.
LEMMA SameBay ==
    ASSUME NEW tab, NEW new, NEW p,
           OneSlotPerPort(tab), OneSlotPerPort(new),
           \A i \in Slots : tab[i].port = p \/ new[i].port = p => new[i] = tab[i]
    PROVE  BayIn(new, p) = BayIn(tab, p)
<1>1. LiveSlots(new, p) = LiveSlots(tab, p)
  BY DEF LiveSlots, Live, Occupied
<1>2. CASE LiveSlots(tab, p) = {}
  BY <1>1, <1>2 DEF BayIn
<1>3. CASE LiveSlots(tab, p) # {}
  <2>1. PICK i \in LiveSlots(tab, p) : TRUE
    BY <1>3
  <2>2. /\ i \in Slots /\ Live(tab, i) /\ tab[i].port = p
        /\ Live(new, i) /\ new[i].port = p /\ new[i] = tab[i]
    BY <1>1, <2>1 DEF LiveSlots
  <2> QED  BY <2>2, BayOfLive
<1> QED  BY <1>2, <1>3

-----------------------------------------------------------------------------
\* The renewal makes every bay that is to be warmer warmer.
LEMMA RenewWarms ==
    ASSUME NEW tab, Ready(tab)
    PROVE  /\ BaysOf(Renew(tab)) = Bench!Warmed(BaysOf(tab))
           /\ ServedBy(Renew(tab)) = ServedBy(tab)
<1> DEFINE new == Renew(tab)
<1> USE SlotTableAssumption
<1>1. \A i \in Slots : tab[i] \in Slot
  BY DEF Ready, Tables
<1>2. \A s \in Slot : /\ Advance(s).port = s.port /\ Advance(s).lost = s.lost
                      /\ Advance(s).pn = s.pn /\ Advance(s).status = s.status
  BY DEF Advance, Slot
<1>3. \A i \in Slots : /\ new[i].port = tab[i].port /\ new[i].lost = tab[i].lost
                       /\ new[i].pn = tab[i].pn /\ new[i].status = tab[i].status
  BY <1>1, <1>2 DEF Renew
<1>4. \A i \in Slots : Live(new, i) <=> Live(tab, i)
  BY <1>3 DEF Live, Occupied
<1>5. OneSlotPerPort(tab) /\ OneSlotPerPort(new)
  BY RenewSound DEF Ready, Sound
<1>6. \A i \in Slots : Live(tab, i) => BayOf(new[i]) = Bench!Warmer(BayOf(tab[i]))
  <2> TAKE i \in Slots
  <2> HAVE Live(tab, i)
  <2>1. Visited(tab, i)
    BY DEF Visited, Ready, PrefixFilled, Live
  <2>2. new[i] = Advance(tab[i])
    BY <2>1 DEF Renew
  <2>3. new[i].value = IF tab[i].status = "normal" /\ tab[i].value < ValueCap
                       THEN tab[i].value + 1 ELSE tab[i].value
    BY <1>1, <2>2 DEF Advance, Live, Occupied, Slot
  <2> QED  BY <1>3, <2>3 DEF BayOf, Bench!Warmer
<1>7. ASSUME NEW p \in Ports PROVE BayIn(new, p) = Bench!Warmer(BayIn(tab, p))
  <2>1. CASE \E i \in Slots : Live(tab, i) /\ tab[i].port = p
    <3>1. PICK i \in Slots : Live(tab, i) /\ tab[i].port = p
      BY <2>1
    <3>2. BayIn(tab, p) = BayOf(tab[i]) /\ BayIn(new, p) = BayOf(new[i])
      BY <1>3, <1>4, <1>5, <3>1, BayOfLive
    <3> QED  BY <1>6, <3>1, <3>2
  <2>2. CASE ~\E i \in Slots : Live(tab, i) /\ tab[i].port = p
    <3>1. BayIn(tab, p) = VacantBay /\ BayIn(new, p) = VacantBay
      BY <1>3, <1>4, <2>2, BayOfNone
    <3>2. Bench!Warmer(VacantBay) = VacantBay
      BY DEF Bench!Warmer, VacantBay
    <3> QED  BY <3>1, <3>2
  <2> QED  BY <2>1, <2>2
<1>8. BaysOf(new) = Bench!Warmed(BaysOf(tab))
  BY <1>7 DEF BaysOf, Bench!Warmed
<1> QED  BY <1>3, <1>8 DEF ServedBy

-----------------------------------------------------------------------------
\* A clear empties the bay of its port.
LEMMA ClearLeaves ==
    ASSUME NEW tab, Sound(tab), NEW port \in Ports
    PROVE  /\ BaysOf(Clear(tab, port)) = [BaysOf(tab) EXCEPT ![port] = VacantBay]
           /\ ServedBy(Clear(tab, port)) = ServedBy(tab)
<1> DEFINE new == Clear(tab, port)
<1> USE SlotTableAssumption
<1>1. \A i \in Slots : tab[i] \in Slot
  BY DEF Sound, Tables
<1>2. \A i \in Slots :
        \/ new[i] = tab[i] /\ (tab[i].port # port \/ tab[i].lost)
        \/ tab[i].port = port /\ new[i].port = port /\ new[i].lost = TRUE
  BY <1>1 DEF Clear, Slot
<1>3. OneSlotPerPort(tab) /\ OneSlotPerPort(new)
  BY ClearReady DEF Sound, Ready
<1>4. BayIn(new, port) = VacantBay
  BY <1>2, BayOfNone DEF Live
<1>5. \A p \in Ports \ {port} : BayIn(new, p) = BayIn(tab, p)
  <2> TAKE p \in Ports \ {port}
  <2>1. \A i \in Slots : tab[i].port = p \/ new[i].port = p => new[i] = tab[i]
    BY <1>2
  <2> QED  BY <1>3, <2>1, SameBay
<1>6. \A i \in Slots : new[i].port = tab[i].port
  BY <1>2
<1> QED  BY <1>4, <1>5, <1>6 DEF BaysOf, ServedBy

\* With an empty slot left fewer ports are served than there are slots.
LEMMA RoomIsCapacity ==
    ASSUME NEW tab, tab \in Tables, NEW e \in Slots, ~Occupied(tab, e)
    PROVE  IsFiniteSet(ServedBy(tab)) /\ Cardinality(ServedBy(tab)) < NumSlots
<1> DEFINE Taken == Slots \ {e}
           portOf == [i \in {j \in Slots : Occupied(tab, j)} |-> tab[i].port]
<1> USE SlotTableAssumption
<1>1. IsFiniteSet(Slots) /\ Cardinality(Slots) = NumSlots
  BY FS_Interval DEF Slots
<1>2. IsFiniteSet(Taken) /\ Cardinality(Taken) = NumSlots - 1
  BY <1>1, FS_RemoveElement
<1> DEFINE Occ == {j \in Slots : Occupied(tab, j)}
<1>3. Occ \subseteq Taken
  OBVIOUS
<1>4. IsFiniteSet(Occ) /\ Cardinality(Occ) =< NumSlots - 1
  BY <1>2, <1>3, FS_Subset
<1>5. portOf \in Surjection(Occ, ServedBy(tab))
  <2>1. \A i \in Slots : tab[i].port \in Ports \cup {NoPort}
    BY DEF Tables, Slot
  <2> QED  BY <2>1 DEF Surjection, ServedBy, Occupied
<1>6. /\ IsFiniteSet(ServedBy(tab))
      /\ Cardinality(ServedBy(tab)) =< Cardinality(Occ)
  <2> HIDE DEF Occ, portOf
  <2> QED  BY <1>4, <1>5, FS_Surjection
<1>7. Cardinality(ServedBy(tab)) \in Nat /\ Cardinality(Occ) \in Nat
  BY <1>4, <1>6, FS_CardinalityType
<1> HIDE DEF Occ
<1> QED  BY <1>4, <1>6, <1>7

\* A push gives a device a bay that is vacant, or changes nothing.
LEMMA PushEnters ==
    ASSUME NEW tab, Sound(tab),
           NEW port \in Ports, NEW pn \in Parts \cup {NoPart},
           NEW status \in Statuses
    PROVE  \/ Push(tab, port, pn, status) = tab
           \/ /\ BayIn(tab, port) = VacantBay
              /\ \/ port \in ServedBy(tab)
                 \/ Cardinality(ServedBy(tab)) < NumSlots
              /\ BaysOf(Push(tab, port, pn, status)) =
                   [BaysOf(tab) EXCEPT
                      ![port] = [pn |-> pn, status |-> status, heat |-> 0]]
              /\ ServedBy(Push(tab, port, pn, status)) = ServedBy(tab) \cup {port}
<1> DEFINE new == Push(tab, port, pn, status)
<1> USE SlotTableAssumption
<1>1. tab \in Tables /\ \A i \in Slots : tab[i] \in Slot
  BY DEF Sound, Tables
<1>2. \A i \in Slots :
        IF Target(tab, port, i) /\ ~Live(tab, i)
        THEN /\ new[i].port = port /\ new[i].lost = FALSE /\ new[i].pn = pn
             /\ new[i].status = status /\ new[i].value = tab[i].value
        ELSE new[i] = tab[i]
  BY <1>1 DEF Push, Slot
<1>3. CASE ~\E i \in Slots : Target(tab, port, i) /\ ~Live(tab, i)
  <2>1. new \in Tables
    BY PushReady DEF Ready
  <2>2. \A i \in Slots : new[i] = tab[i]
    BY <1>2, <1>3
  <2> QED  BY <1>1, <2>1, <2>2 DEF Tables
<1>4. CASE \E i \in Slots : Target(tab, port, i) /\ ~Live(tab, i)
  <2>1. PICK k \in Slots : Target(tab, port, k) /\ ~Live(tab, k)
    BY <1>4
  <2>2. \A i \in Slots \ {k} : new[i] = tab[i]
    BY <1>2, <2>1 DEF Target, StopsAt, Slots
  <2>3. /\ new[k].port = port /\ new[k].lost = FALSE /\ new[k].pn = pn
        /\ new[k].status = status /\ new[k].value = 0
    BY <1>1, <1>2, <2>1 DEF Sound, HeatIsEarned, Slot
  <2>4. OneSlotPerPort(tab) /\ OneSlotPerPort(new)
    BY PushReady DEF Sound, Ready
  <2>5. tab[k].port \in {port, NoPort}
    BY <2>1 DEF Target, StopsAt
  <2>6. \A i \in Slots : Live(tab, i) => tab[i].port # port
    <3> SUFFICES ASSUME NEW i \in Slots, Live(tab, i), tab[i].port = port
                 PROVE  FALSE
      OBVIOUS
    <3>1. i # k
      BY <2>1
    <3>2. new[i].port = port
      BY <2>2, <3>1
    <3> QED  BY <2>3, <2>4, <3>1, <3>2 DEF OneSlotPerPort, Occupied
  <2>7. BayIn(tab, port) = VacantBay
    BY <2>6, BayOfNone
  <2>8. port \in ServedBy(tab) \/ Cardinality(ServedBy(tab)) < NumSlots
    <3>1. CASE tab[k].port = port
      BY <3>1 DEF ServedBy
    <3>2. CASE tab[k].port = NoPort
      BY <1>1, <3>2, RoomIsCapacity DEF Occupied
    <3> QED  BY <2>5, <3>1, <3>2
  <2>9. BayIn(new, port) = [pn |-> pn, status |-> status, heat |-> 0]
    <3>1. Live(new, k)
      BY <2>3 DEF Live, Occupied
    <3>2. BayIn(new, port) = BayOf(new[k])
      BY <2>3, <2>4, <3>1, BayOfLive
    <3> QED  BY <2>3, <3>2 DEF BayOf
  <2>10. \A p \in Ports \ {port} : BayIn(new, p) = BayIn(tab, p)
    <3> TAKE p \in Ports \ {port}
    <3>1. \A i \in Slots : tab[i].port = p \/ new[i].port = p => new[i] = tab[i]
      BY <2>2, <2>3, <2>5
    <3> QED  BY <2>4, <3>1, SameBay
  <2>11. ServedBy(new) = ServedBy(tab) \cup {port}
    BY <2>2, <2>3, <2>5 DEF ServedBy
  <2> QED  BY <2>7, <2>8, <2>9, <2>10, <2>11 DEF BaysOf
<1> QED  BY <1>3, <1>4

-----------------------------------------------------------------------------
\* The verdict is given between the read and the update, for the port that the
\* scan has found, and both stay until the next poll.
LEMMA VerdictInit == Init => VerdictGiven
  BY DEF Init, VerdictGiven

LEMMA VerdictNext == IInv /\ VerdictGiven /\ [Next]_vars => VerdictGiven'
<1> SUFFICES ASSUME IInv, VerdictGiven, [Next]_vars PROVE VerdictGiven'
  OBVIOUS
<1> USE DEF VerdictGiven
<1>1. CASE QueryItem
  BY <1>1 DEF QueryItem
<1>2. CASE QueryBist
  BY <1>2 DEF QueryBist
<1>3. CASE Start \/ Open \/ Scan \/ ReadSN \/ Update \/ Finish \/ Restart
  BY <1>3 DEF Start, Open, Scan, ReadSN, Update, Finish, Restart
<1>4. CASE Record
  BY <1>4 DEF Record
<1>5. CASE UNCHANGED worker
  BY <1>5 DEF worker
<1>6. CASE Environment /\ ~Restart
  BY <1>5, <1>6 DEF Environment, Plug, Unplug, LinkDrops, LinkReturns, BistStation
<1>7. CASE UNCHANGED vars
  BY <1>5, <1>7 DEF vars
<1> QED
  BY <1>1, <1>2, <1>3, <1>4, <1>6, <1>7 DEF Next, Poll

-----------------------------------------------------------------------------
\* All bays are vacant when the station starts, and no port is served.
LEMMA EmptyIsVacant ==
    /\ BaysOf(EmptyTable) = [p \in Ports |-> VacantBay]
    /\ ServedBy(EmptyTable) = {}
<1>1. \A i \in Slots : EmptyTable[i].port = NoPort
  BY DEF EmptyTable, EmptySlot
<1>2. \A p \in Ports : BayIn(EmptyTable, p) = VacantBay
  BY <1>1, BayOfNone DEF Live, Occupied
<1> QED  BY <1>1, <1>2, SlotTableAssumption DEF BaysOf, ServedBy

LEMMA InitRefines == Init => Bench!Init
<1> SUFFICES ASSUME Init PROVE Bench!Init
  OBVIOUS
<1>1. bay = [p \in Ports |-> VacantBay] /\ served = {}
  BY EmptyIsVacant DEF Init, bay, served, BaysOf
<1> QED  BY <1>1 DEF Init, Bench!Init, Bench!Vacant, VacantBay

\* A poll with its update is a second on the bench, in which a device may have
\* entered or left.
LEMMA UpdateRefines ==
    ASSUME RInv, Update
    PROVE  Bench!Next
<1>1. Sound(slots) /\ slots' = Renew(Changed) /\ UNCHANGED preheated
  BY DEF RInv, IInv, TypeOK, TableIsSound, Sound, Tables, Update, db
<1>2. bay = BaysOf(slots) /\ bay' = BaysOf(slots')
  BY DEF bay, BaysOf
<1>3. served = ServedBy(slots) /\ served' = ServedBy(slots')
  BY DEF served
<1>4. CASE Changed = slots
  <2>1. bay' = Bench!Warmed(bay) /\ served' = served
    BY <1>1, <1>2, <1>3, <1>4, SoundIsReady, RenewWarms
  <2> QED  BY <1>1, <2>1 DEF Bench!Next, Bench!Second
<1>5. CASE flag = 1 /\ Changed # slots
  <2>1. /\ changing \in Ports /\ newPN \in Parts \cup {NoPart}
        /\ verdict \in Statuses /\ verdict \in {"normal", "noinfo", "bistfailed"}
        /\ Changed = Push(slots, changing, newPN, verdict)
    <3>1. changing \in Ports /\ newPN \in Parts \cup {NoPart} /\ verdict \in Statuses
      BY <1>5 DEF RInv, IInv, TypeOK, FlagNamesPort
    <3>2. pc = "update" /\ changing # NoPort
      BY <3>1, SlotTableAssumption DEF Update
    <3>3. verdict \in {"normal", "noinfo", "bistfailed"}
      BY <3>2 DEF RInv, VerdictGiven
    <3>4. Changed = Push(slots, changing, newPN, verdict)
      BY <1>5 DEF Changed
    <3> QED  BY <3>1, <3>3, <3>4
  <2>2. /\ BayIn(slots, changing) = VacantBay
        /\ changing \in ServedBy(slots) \/ Cardinality(ServedBy(slots)) < NumSlots
        /\ BaysOf(Changed) = [BaysOf(slots) EXCEPT
             ![changing] = [pn |-> newPN, status |-> verdict, heat |-> 0]]
        /\ ServedBy(Changed) = ServedBy(slots) \cup {changing}
    BY <1>1, <1>5, <2>1, PushEnters
  <2>3. Ready(Changed)
    BY <1>1, <2>1, PushReady
  <2>4. /\ bay' = Bench!Warmed(BaysOf(Changed))
        /\ served' = ServedBy(Changed)
    BY <1>1, <1>2, <1>3, <2>3, RenewWarms
  <2>5. bay[changing] = VacantBay
    BY <1>2, <2>1, <2>2 DEF BaysOf
  <2>6. Bench!Enter(changing, newPN, verdict)
    <3>1. Bench!Cardinality(served) = Cardinality(served)
      BY DEF Bench!Cardinality, Cardinality
    <3> QED
      BY <1>1, <1>2, <1>3, <2>2, <2>4, <2>5, <3>1 DEF Bench!Enter, Bench!Vacant, VacantBay
  <2> QED  BY <2>1, <2>6 DEF Bench!Next, Bench!Status
<1>6. CASE flag = -1 /\ Changed # slots
  <2>1. changing \in Ports /\ Changed = Clear(slots, changing)
    <3>1. changing \in Ports
      BY <1>6 DEF RInv, IInv, FlagNamesPort
    <3>2. flag # 1
      BY <1>6
    <3> QED  BY <1>6, <3>1, <3>2 DEF Changed
  <2>2. /\ BaysOf(Changed) = [BaysOf(slots) EXCEPT ![changing] = VacantBay]
        /\ ServedBy(Changed) = ServedBy(slots)
    BY <1>1, <2>1, ClearLeaves
  <2>3. Ready(Changed)
    BY <1>1, <2>1, ClearReady
  <2>4. bay' = Bench!Warmed(BaysOf(Changed)) /\ served' = served
    BY <1>1, <1>2, <1>3, <2>2, <2>3, RenewWarms
  <2>5. CASE bay[changing] = VacantBay
    <3>1. BaysOf(Changed) = bay
      BY <1>2, <2>1, <2>2, <2>5 DEF BaysOf
    <3> QED  BY <1>1, <2>4, <3>1 DEF Bench!Next, Bench!Second
  <2>6. CASE bay[changing] # VacantBay
    <3>1. Bench!Leave(changing)
      BY <1>1, <1>2, <2>2, <2>4, <2>6 DEF Bench!Leave, Bench!Vacant, VacantBay
    <3> QED  BY <2>1, <3>1 DEF Bench!Next
  <2> QED  BY <2>5, <2>6
<1>7. flag \in {-1, 0, 1}
  BY DEF RInv, IInv, TypeOK
<1>8. flag = 0 => Changed = slots
  BY DEF Changed
<1> QED  BY <1>4, <1>5, <1>6, <1>7, <1>8

\* A preheat result is written for the device of a bay that is warm enough.
LEMMA RecordRefines ==
    ASSUME RInv, Record, preheated' # preheated
    PROVE  Bench!Next
<1> USE SlotTableAssumption
<1>1. /\ rec \in Slots /\ Due(rec) /\ slots[rec].pn # NoPart
      /\ preheated' = preheated \cup {slots[rec].pn} /\ UNCHANGED slots
  BY DEF Record
<1>2. slots[rec] \in Slot /\ OneSlotPerPort(slots) /\ HeatIsEarned(slots)
  BY <1>1 DEF RInv, IInv, TypeOK, TableIsSound
<1>3. Seconds > 0 /\ slots[rec].value >= Seconds /\ slots[rec].value > 0
  BY <1>1, <1>2 DEF Due, Full, Slot
<1>4. Live(slots, rec)
  BY <1>1, <1>2, <1>3 DEF HeatIsEarned
<1> DEFINE p == slots[rec].port
<1>5. p \in Ports
  BY <1>2, <1>4 DEF Slot, Live, Occupied
<1>6. bay[p] = BayOf(slots[rec])
  <2>1. BayIn(slots, p) = BayOf(slots[rec])
    BY <1>1, <1>2, <1>4, BayOfLive
  <2> QED  BY <1>5, <2>1 DEF bay
<1>7. UNCHANGED <<bay, served>>
  BY <1>1 DEF bay, served
<1>8. Bench!Certify(p)
  BY <1>1, <1>3, <1>6, <1>7 DEF Bench!Certify, Bench!WarmedThrough, BayOf
<1> QED  BY <1>5, <1>8 DEF Bench!Next

LEMMA RestartRefines ==
    ASSUME Restart
    PROVE  Bench!Next
<1>1. slots' = EmptyTable /\ UNCHANGED preheated
  BY DEF Restart, Restarted
<1>2. bay' = [p \in Ports |-> VacantBay] /\ served' = {}
  BY <1>1, EmptyIsVacant DEF bay, served, BaysOf
<1> QED  BY <1>1, <1>2 DEF Bench!Next, Bench!StartAgain, Bench!Vacant, VacantBay

LEMMA NextRefines == RInv /\ [Next]_vars => [Bench!Next]_(Bench!vars)
<1> SUFFICES ASSUME RInv, [Next]_vars PROVE [Bench!Next]_(Bench!vars)
  OBVIOUS
<1>1. CASE UNCHANGED <<slots, preheated>>
  BY <1>1 DEF Bench!vars, bay, served
<1>2. CASE Update
  BY <1>2, UpdateRefines
<1>3. CASE Record
  <2>1. UNCHANGED slots
    BY <1>3 DEF Record
  <2> QED  BY <1>1, <1>3, <2>1, RecordRefines
<1>4. CASE Restart
  BY <1>4, RestartRefines
<1>5. CASE Start \/ Open \/ Scan \/ ReadSN \/ QueryItem \/ QueryBist \/ Finish
  BY <1>1, <1>5 DEF Start, Open, Scan, ReadSN, QueryItem, QueryBist, Finish, db
<1>6. CASE Environment /\ ~Restart
  BY <1>1, <1>6 DEF Environment, Plug, Unplug, LinkDrops, LinkReturns, BistStation,
                    worker, db
<1>7. CASE UNCHANGED vars
  BY <1>1, <1>7 DEF vars, worker, db
<1> QED
  BY <1>2, <1>3, <1>4, <1>5, <1>6, <1>7 DEF Next, Poll

\* The worker, its slot table and the restarts of the station implement the
\* bench of bays, for all ports, devices, slots and times.
THEOREM Refinement == Spec => ImplementsBench
<1>1. Init => RInv
  BY InitInvariant, VerdictInit DEF RInv
<1>2. RInv /\ [Next]_vars => RInv'
  BY NextInvariant, VerdictNext DEF RInv
<1>3. Init => Bench!Init
  BY InitRefines
<1>4. RInv /\ [Next]_vars => [Bench!Next]_(Bench!vars)
  BY NextRefines
<1> QED
  BY <1>1, <1>2, <1>3, <1>4, PTL DEF Spec, ImplementsBench, Bench!Spec
=============================================================================
