------------------------ MODULE PreheatTrackingProofs ------------------------
(***************************************************************************)
(* With at most one plug or unplug between two scans, which is what the    *)
(* comparison of lengths in DeviceStatusChange is right for, the slots are *)
(* the ports of the last scan, for any number of ports, devices, slots and *)
(* seconds and for any configuration.                                      *)
(***************************************************************************)
EXTENDS PreheatWorkerProofs, SequenceLemmas

CarefulOperator == MaxChanges =< 1

\* From the scan to the update the table is one change behind the scan.
Pending == pc \in {"read", "item", "bist", "update"}

Tracked(tab, ports) ==
    /\ \A i \in Slots : Live(tab, i) => tab[i].port \in ports
    /\ \A p \in ports :
          \/ \E i \in Slots : Live(tab, i) /\ tab[i].port = p
          \/ \A i \in Slots : Occupied(tab, i) /\ tab[i].port # p

\* The ports of the last scan differ from the bench by what happened since.
Differs(p) == (p \in connected) # (plugged[p] # NoPart)

OneDiffers ==
    /\ changes = 0 => \A p \in Ports : ~Differs(p)
    /\ \A p, q \in Ports : Differs(p) /\ Differs(q) => p = q

SlotsFollow ==
    /\ Settled => Tracked(slots, connected)
    /\ Pending /\ flag = 0 => Tracked(slots, connected)
    /\ Pending /\ flag = 1 =>
          changing \in connected /\ Tracked(slots, connected \ {changing})
    /\ Pending /\ flag = -1 =>
          changing \notin connected /\ Tracked(slots, connected \cup {changing})

TInv == IInv /\ OneDiffers /\ SlotsFollow

-----------------------------------------------------------------------------
LEMMA AtMostOnePlugged ==
    ASSUME CarefulOperator, Cardinality(PluggedPorts) =< MaxChanges
    PROVE  /\ \A p, q \in Ports : plugged[p] # NoPart /\ plugged[q] # NoPart => p = q
           /\ Cardinality(PluggedPorts) = 0 => \A p \in Ports : plugged[p] = NoPart
<1>1. IsFiniteSet(PluggedPorts)
  BY FS_Subset, SlotTableAssumption DEF PluggedPorts
<1>2. Cardinality(PluggedPorts) \in Nat
  BY <1>1, FS_CardinalityType
<1>3. Cardinality(PluggedPorts) = 0 \/ Cardinality(PluggedPorts) = 1
  BY <1>2, WorkerAssumption DEF CarefulOperator
<1>4. CASE Cardinality(PluggedPorts) = 0
  <2>1. PluggedPorts = {}
    BY <1>1, <1>4, FS_EmptySet
  <2> QED  BY <2>1 DEF PluggedPorts
<1>5. CASE Cardinality(PluggedPorts) = 1
  <2>1. PICK x : PluggedPorts = {x}
    BY <1>1, <1>5, FS_Singleton
  <2> QED  BY <1>5, <2>1 DEF PluggedPorts
<1> QED  BY <1>3, <1>4, <1>5

LEMMA OneDiffersInit == ASSUME CarefulOperator, Init PROVE OneDiffers
<1>1. connected = {} /\ changes = Cardinality(PluggedPorts) /\ changes =< MaxChanges
  BY DEF Init
<1> QED  BY <1>1, AtMostOnePlugged DEF OneDiffers, Differs

\* The operator changes the bench only when it is as the last scan found it.
LEMMA OneDiffersNext ==
    ASSUME CarefulOperator, IInv, OneDiffers, [Next]_vars
    PROVE  OneDiffers'
<1> USE WorkerAssumption DEF OneDiffers
<1>1. CASE UNCHANGED <<connected, plugged, changes>>
  BY <1>1 DEF Differs
<1>2. CASE Scan
  BY <1>2 DEF Scan, Differs, PluggedPorts
<1>3. ASSUME NEW p \in Ports, Unplug(p) \/ \E a \in Parts : Plug(p, a)
      PROVE  OneDiffers'
  <2>1. changes = 0 /\ changes' = 1 /\ UNCHANGED connected
    BY <1>3 DEF Unplug, Plug, worker, CarefulOperator, IInv, TypeOK
  <2>2. \A q \in Ports \ {p} : plugged'[q] = plugged[q]
    BY <1>3 DEF Unplug, Plug, IInv, TypeOK
  <2> QED  BY <2>1, <2>2 DEF Differs
<1>4. CASE Restart
  <2>1. /\ connected' = {} /\ UNCHANGED plugged /\ changes' = Cardinality(PluggedPorts)
        /\ Cardinality(PluggedPorts) =< MaxChanges
    BY <1>4 DEF Restart
  <2> QED  BY <2>1, AtMostOnePlugged DEF Differs
<1>5. CASE Start \/ Open \/ ReadSN \/ QueryItem \/ QueryBist \/ Update \/ Record \/ Finish
  BY <1>1, <1>5 DEF Start, Open, ReadSN, QueryItem, QueryBist, Update, Record, Finish, bench
<1>6. CASE LinkDrops \/ LinkReturns \/ \E a \in Parts, r \in Results : BistStation(a, r)
  BY <1>1, <1>6 DEF LinkDrops, LinkReturns, BistStation, worker, bench
<1>7. CASE UNCHANGED vars
  BY <1>1, <1>7 DEF vars, worker, bench
<1> QED
  BY <1>2, <1>3, <1>4, <1>5, <1>6, <1>7 DEF Next, Poll, Environment

-----------------------------------------------------------------------------
\* With one difference the flag is right: the lengths tell what happened, and
\* the port that is reported is the only one.
LEMMA ScanFindsChange ==
    ASSUME IInv, OneDiffers, Scan
    PROVE  \/ flag' = 0 /\ connected' = connected
           \/ /\ flag' = 1 /\ changing' \in connected'
              /\ connected = connected' \ {changing'}
           \/ /\ flag' = -1 /\ changing' \notin connected'
              /\ connected = connected' \cup {changing'}
<1> USE SlotTableAssumption
<1>1. /\ connected \subseteq Ports /\ connected' = PluggedPorts
      /\ IsFiniteSet(connected) /\ IsFiniteSet(PluggedPorts)
  BY FS_Subset DEF IInv, TypeOK, Scan, PluggedPorts
<1>2. Cardinality(connected) \in Nat /\ Cardinality(PluggedPorts) \in Nat
  BY <1>1, FS_CardinalityType
<1>3. Diff(connected, PluggedPorts)
  BY <1>1 DEF Scan
<1>4. CASE \A p \in Ports : ~Differs(p)
  <2>1. connected = PluggedPorts
    BY <1>1, <1>4 DEF Differs, PluggedPorts
  <2> QED  BY <1>1, <1>3, <2>1 DEF Diff
<1>5. CASE \E p \in Ports : Differs(p)
  <2>1. PICK p \in Ports : Differs(p)
    BY <1>5
  <2>2. \A q \in Ports \ {p} : q \in connected <=> q \in PluggedPorts
    BY <1>1, <2>1 DEF OneDiffers, Differs, PluggedPorts
  <2>3. CASE p \in connected
    <3>1. p \notin PluggedPorts /\ connected = PluggedPorts \cup {p}
      BY <1>1, <2>1, <2>2, <2>3 DEF Differs, PluggedPorts
    <3>2. Cardinality(connected) = Cardinality(PluggedPorts) + 1
      BY <1>1, <3>1, FS_AddElement
    <3>3. changing' = p /\ flag' = -1
      <4>1. ~(Cardinality(connected) < Cardinality(PluggedPorts))
        BY <1>2, <3>2
      <4>2. Cardinality(connected) > Cardinality(PluggedPorts)
        BY <1>2, <3>2
      <4>3. /\ {q \in PluggedPorts \ connected :
                  Cardinality(connected) < Cardinality(PluggedPorts)} = {}
            /\ {q \in connected \ PluggedPorts :
                  Cardinality(connected) > Cardinality(PluggedPorts)} = {p}
        BY <3>1, <4>1, <4>2
      <4> QED  BY <1>3, <4>3 DEF Diff
    <3> QED  BY <1>1, <3>1, <3>3
  <2>4. CASE p \notin connected
    <3>1. p \in PluggedPorts /\ PluggedPorts = connected \cup {p}
      BY <1>1, <2>1, <2>2, <2>4 DEF Differs, PluggedPorts
    <3>2. Cardinality(PluggedPorts) = Cardinality(connected) + 1
      BY <1>1, <2>4, <3>1, FS_AddElement
    <3>3. changing' = p /\ flag' = 1
      <4>1. ~(Cardinality(connected) > Cardinality(PluggedPorts))
        BY <1>2, <3>2
      <4>2. Cardinality(connected) < Cardinality(PluggedPorts)
        BY <1>2, <3>2
      <4>3. /\ {q \in PluggedPorts \ connected :
                  Cardinality(connected) < Cardinality(PluggedPorts)} = {p}
            /\ {q \in connected \ PluggedPorts :
                  Cardinality(connected) > Cardinality(PluggedPorts)} = {}
        BY <2>4, <3>1, <4>1, <4>2
      <4> QED  BY <1>3, <4>3 DEF Diff
    <3> QED  BY <1>1, <2>4, <3>1, <3>3
  <2> QED  BY <2>3, <2>4
<1> QED  BY <1>4, <1>5

-----------------------------------------------------------------------------
\* Only the ports and marks of a table matter for what it tracks.
LEMMA RenewTracks ==
    ASSUME NEW tab \in Tables, NEW ports, Tracked(tab, ports)
    PROVE  Tracked(Renew(tab), ports)
<1> DEFINE new == Renew(tab)
<1>1. \A i \in Slots : new[i].port = tab[i].port /\ new[i].lost = tab[i].lost
  <2>1. \A s \in Slot : Advance(s).port = s.port /\ Advance(s).lost = s.lost
    BY DEF Advance, Slot
  <2> QED  BY <2>1 DEF Renew, Tables
<1> QED  BY <1>1 DEF Tracked, Live, Occupied

\* A push brings in the port that had no live slot, unless all are taken.
LEMMA PushTracks ==
    ASSUME NEW tab, Sound(tab), NEW ports \in SUBSET Ports, NEW port \in ports,
           NEW pn \in Parts \cup {NoPart}, NEW status \in Statuses,
           Tracked(tab, ports \ {port})
    PROVE  Tracked(Push(tab, port, pn, status), ports)
<1> DEFINE new == Push(tab, port, pn, status)
           stops == StopsAt(tab, port)
<1> USE SlotTableAssumption
<1>1. \A i \in Slots :
        IF Target(tab, port, i) /\ ~Live(tab, i)
        THEN new[i].port = port /\ new[i].lost = FALSE
        ELSE new[i] = tab[i]
  <2>1. \A i \in Slots : tab[i] \in Slot
    BY DEF Sound, Tables
  <2> QED  BY <2>1 DEF Push, Slot
<1>2. \A i \in Slots : Live(tab, i) => new[i] = tab[i]
  BY <1>1
<1>3. \A i \in Slots : Occupied(tab, i) => new[i].port = tab[i].port
  BY <1>1 DEF Target, StopsAt, Occupied
<1>4. \A i \in Slots : Live(new, i) => new[i].port \in ports
  BY <1>1 DEF Tracked, Live, Occupied
<1>5. \/ \E i \in Slots : Live(new, i) /\ new[i].port = port
      \/ \A i \in Slots : Occupied(new, i) /\ new[i].port # port
  <2>1. CASE stops = {}
    BY <1>3, <2>1 DEF StopsAt, Occupied
  <2>2. CASE stops # {}
    <3>0. stops \subseteq Nat
      BY DEF StopsAt, Slots
    <3> HIDE DEF stops
    <3>1. PICK k \in stops : \A j \in stops : k =< j
      BY <2>2, <3>0, HasLeast
    <3> USE DEF stops
    <3>2. k \in Slots /\ Target(tab, port, k)
      BY <3>1 DEF Target, StopsAt
    <3>3. ~Live(tab, k)
      BY <3>2 DEF Tracked, Target, StopsAt, Live, Occupied
    <3>4. new[k].port = port /\ new[k].lost = FALSE
      BY <1>1, <3>2, <3>3
    <3> QED  BY <3>2, <3>4 DEF Live, Occupied
  <2> QED  BY <2>1, <2>2
<1>6. ASSUME NEW p \in ports, p # port
      PROVE  \/ \E i \in Slots : Live(new, i) /\ new[i].port = p
             \/ \A i \in Slots : Occupied(new, i) /\ new[i].port # p
  <2>1. CASE \E i \in Slots : Live(tab, i) /\ tab[i].port = p
    BY <1>2, <2>1 DEF Live, Occupied
  <2>2. CASE \A i \in Slots : Occupied(tab, i) /\ tab[i].port # p
    BY <1>3, <2>2 DEF Occupied
  <2> QED  BY <1>6, <2>1, <2>2 DEF Tracked
<1> QED  BY <1>4, <1>5, <1>6 DEF Tracked

\* A clear takes out the port and nothing else.
LEMMA ClearTracks ==
    ASSUME NEW tab, Sound(tab), NEW ports \in SUBSET Ports, NEW port \in Ports,
           port \notin ports, Tracked(tab, ports \cup {port})
    PROVE  Tracked(Clear(tab, port), ports)
<1> DEFINE new == Clear(tab, port)
<1>1. \A i \in Slots :
        /\ new[i].port = tab[i].port
        /\ tab[i].port # port => new[i].lost = tab[i].lost
        /\ tab[i].port = port => new[i].lost = TRUE
  <2>1. \A i \in Slots : tab[i] \in Slot
    BY DEF Sound, Tables
  <2> QED  BY <2>1 DEF Clear, Slot
<1> QED  BY <1>1 DEF Tracked, Live, Occupied

LEMMA EmptyTracks == Tracked(EmptyTable, {})
  BY DEF Tracked, EmptyTable, EmptySlot, Live, Occupied

-----------------------------------------------------------------------------
LEMMA SlotsFollowInit == Init => SlotsFollow
  BY EmptyTracks DEF Init, SlotsFollow, Pending, Settled

\* The update makes up for the change that the scan has found.
LEMMA UpdateFollows ==
    ASSUME TInv, Update
    PROVE  SlotsFollow'
<1> USE SlotTableAssumption
<1>1. /\ Sound(slots) /\ connected \subseteq Ports /\ flag \in {-1, 0, 1}
      /\ newPN \in Parts \cup {NoPart} /\ verdict \in Statuses
      /\ flag # 0 => changing \in Ports
  BY DEF TInv, IInv, TypeOK, TableIsSound, Sound, Tables, FlagNamesPort
<1>2. Pending /\ slots' = Renew(Changed) /\ UNCHANGED connected
      /\ pc' \in {"record", "finish"}
  BY DEF Update, Pending
<1>3. Changed \in Tables /\ Tracked(Changed, connected)
  <2>1. CASE flag = 0
    BY <1>1, <1>2, <2>1 DEF TInv, SlotsFollow, Changed, Sound
  <2>2. CASE flag = 1
    <3>1. Changed = Push(slots, changing, newPN, verdict)
      BY <2>2 DEF Changed
    <3>2. changing \in connected /\ Tracked(slots, connected \ {changing})
      BY <1>2, <2>2 DEF TInv, SlotsFollow
    <3> QED  BY <1>1, <2>2, <3>1, <3>2, PushTracks, PushReady DEF Ready
  <2>3. CASE flag = -1
    <3>1. Changed = Clear(slots, changing)
      <4>1. flag # 1
        BY <2>3
      <4> QED  BY <2>3, <4>1 DEF Changed
    <3>2. changing \notin connected /\ Tracked(slots, connected \cup {changing})
      BY <1>2, <2>3 DEF TInv, SlotsFollow
    <3> QED  BY <1>1, <2>3, <3>1, <3>2, ClearTracks, ClearReady DEF Ready
  <2> QED  BY <1>1, <2>1, <2>2, <2>3
<1>4. Tracked(slots', connected')
  BY <1>2, <1>3, RenewTracks
<1> QED  BY <1>2, <1>4 DEF SlotsFollow, Pending

LEMMA SlotsFollowNext ==
    ASSUME TInv, [Next]_vars
    PROVE  SlotsFollow'
<1> USE DEF Pending, Settled
<1>1. CASE UNCHANGED worker
  BY <1>1 DEF worker, TInv, SlotsFollow
<1>2. CASE Scan
  <2>1. Settled /\ Pending' /\ UNCHANGED slots /\ Tracked(slots, connected)
    BY <1>2 DEF Scan, TInv, SlotsFollow
  <2>2. \/ flag' = 0 /\ connected' = connected
        \/ /\ flag' = 1 /\ changing' \in connected'
           /\ connected = connected' \ {changing'}
        \/ /\ flag' = -1 /\ changing' \notin connected'
           /\ connected = connected' \cup {changing'}
    BY <1>2, ScanFindsChange DEF TInv
  <2>3. ~Settled'
    BY <1>2 DEF Scan
  <2> QED  BY <2>1, <2>2, <2>3 DEF SlotsFollow
<1>3. CASE Update
  BY <1>3, UpdateFollows
<1>4. CASE ReadSN \/ QueryItem \/ QueryBist
  <2>1. /\ Pending /\ pc' \in {"item", "bist", "update", "hung"}
        /\ UNCHANGED <<slots, connected, changing, flag>>
    BY <1>4 DEF ReadSN, QueryItem, QueryBist
  <2> QED  BY <2>1 DEF TInv, SlotsFollow
<1>5. CASE Start \/ Open \/ Record \/ Finish
  <2>1. Settled /\ ~Pending' /\ UNCHANGED <<slots, connected>>
    BY <1>5 DEF Start, Open, Record, Finish
  <2> QED  BY <2>1 DEF TInv, SlotsFollow
<1>6. CASE Restart
  BY <1>6, EmptyTracks DEF Restart, Restarted, SlotsFollow
<1>7. CASE Environment /\ ~Restart
  BY <1>1, <1>7 DEF Environment, Plug, Unplug, LinkDrops, LinkReturns, BistStation
<1>8. CASE UNCHANGED vars
  BY <1>1, <1>8 DEF vars
<1> QED
  BY <1>2, <1>3, <1>4, <1>5, <1>6, <1>7, <1>8 DEF Next, Poll

LEMMA TrackingInit == ASSUME CarefulOperator, Init PROVE TInv
  BY InitInvariant, OneDiffersInit, SlotsFollowInit DEF TInv

LEMMA TrackingNext == ASSUME CarefulOperator, TInv, [Next]_vars PROVE TInv'
  BY NextInvariant, OneDiffersNext, SlotsFollowNext DEF TInv

\* From the update of a poll to the next scan the live slots are the ports that
\* were enumerated, unless all slots are taken.
THEOREM SlotsAreConnected ==
    ASSUME CarefulOperator PROVE Spec => []SlotsTrackConnected
<1>1. Init => TInv
  BY TrackingInit
<1>2. TInv /\ [Next]_vars => TInv'
  BY TrackingNext
<1>3. TInv => SlotsTrackConnected
  BY DEF TInv, SlotsFollow, Tracked, SlotsTrackConnected
<1> QED
  BY <1>1, <1>2, <1>3, PTL DEF Spec

-----------------------------------------------------------------------------
\* What a slot shows and what its heating time stands for.  A device that is
\* unplugged between the scan and the read leaves a slot with an answer of an
\* earlier device, which is cleared after a second; hence two seconds.
DevicesAnswer == ReadFaults = FALSE
HeatsLonger == Seconds >= 2

\* A port that is still plugged after the scan is so with the device it saw.
Shown ==
    \A i \in Slots :
        /\ Live(slots, i)
        /\ slots[i].port \in connected
        /\ plugged[slots[i].port] # NoPart
      => slots[i].pn = plugged[slots[i].port]

Answered ==
    pc \in {"item", "bist", "update"} /\ flag = 1 /\ plugged[changing] # NoPart
      => newPN = plugged[changing]

ShownInv == TInv /\ Shown /\ Answered

Bump(v) == IF v < ValueCap THEN v + 1 ELSE ValueCap

SeenOnce ==
    Pending => \A p \in connected : plugged[p] # NoPart => warm[plugged[p]] >= 1

NormalIsVetted ==
    Online /\ pc = "update" /\ flag = 1 /\ verdict = "normal" => newPN \in vetted

\* The scan of a poll is one ahead of the second that its update adds.
Proper(i) ==
    /\ slots[i].pn \in vetted
    /\ Settled => warm[slots[i].pn] >= slots[i].value
    /\ Pending => warm[slots[i].pn] >= Bump(slots[i].value)

Passing(i) == Settled /\ plugged[slots[i].port] = NoPart /\ slots[i].value =< 1

Earned ==
    Online /\ pc # "hung" =>
      \A i \in Slots :
        Live(slots, i) /\ slots[i].status = "normal" /\ slots[i].port \in connected
          => Proper(i) \/ Passing(i)

RecordIsOnline == pc = "record" => Online

EarnedInv == ShownInv /\ SeenOnce /\ NormalIsVetted /\ Earned /\ RecordIsOnline

-----------------------------------------------------------------------------
\* The one plug of a poll is at a port that the scan found empty, with a device
\* that it did not find; all it did find is still there.
LEMMA PlugIsNew ==
    ASSUME CarefulOperator, TInv, NEW q \in Ports, NEW a \in Parts, Plug(q, a)
    PROVE  /\ q \notin connected
           /\ \A p \in connected : /\ plugged[p] # NoPart
                                   /\ plugged[p] # a
                                   /\ plugged'[p] = plugged[p]
<1>1. changes = 0 /\ connected \subseteq Ports
      /\ plugged \in [Ports -> Parts \cup {NoPart}]
  BY WorkerAssumption DEF Plug, CarefulOperator, TInv, IInv, TypeOK
<1>2. \A p \in Ports : (p \in connected) = (plugged[p] # NoPart)
  BY <1>1 DEF TInv, OneDiffers, Differs
<1>3. q \notin connected
  BY <1>2 DEF Plug
<1>4. \A p \in connected : plugged[p] # NoPart /\ plugged[p] # a
  BY <1>1, <1>2 DEF Plug, OnBench, PluggedPorts
<1>5. \A p \in connected : plugged'[p] = plugged[p]
  BY <1>1, <1>3 DEF Plug
<1> QED  BY <1>3, <1>4, <1>5

\* Where a live slot comes from: it was live and is a second older at most, or
\* it is the one of the port that has just appeared.
LEMMA UpdateOrigin ==
    ASSUME TInv, Update, NEW i \in Slots, Live(slots, i)'
    PROVE  \/ /\ Live(slots, i)
              /\ slots'[i].port = slots[i].port
              /\ slots'[i].pn = slots[i].pn
              /\ slots'[i].status = slots[i].status
              /\ slots'[i].value =< Bump(slots[i].value)
           \/ /\ flag = 1
              /\ slots'[i].port = changing
              /\ slots'[i].pn = newPN
              /\ slots'[i].status = verdict
              /\ slots'[i].value =< 1
<1> USE SlotTableAssumption
<1>1. /\ Sound(slots) /\ flag \in {-1, 0, 1}
      /\ newPN \in Parts \cup {NoPart} /\ verdict \in Statuses
      /\ flag # 0 => changing \in Ports
      /\ \A j \in Slots : slots[j] \in Slot
  BY DEF TInv, IInv, TypeOK, TableIsSound, Sound, Tables, FlagNamesPort
<1> DEFINE old == slots[i]
           mid == Changed[i]
<1>2. /\ mid \in Slot
      /\ \/ mid = old
         \/ mid.lost = TRUE
         \/ /\ flag = 1 /\ ~Live(slots, i)
            /\ mid.port = changing /\ mid.pn = newPN /\ mid.status = verdict
            /\ mid.value = old.value
  <2>1. CASE flag = 0
    BY <1>1, <2>1 DEF Changed
  <2>2. CASE flag = 1
    <3>1. Changed = Push(slots, changing, newPN, verdict)
      BY <2>2 DEF Changed
    <3>2. Changed \in Tables
      BY <1>1, <2>2, <3>1, PushReady DEF Ready
    <3> QED  BY <1>1, <2>2, <3>1, <3>2 DEF Push, Slot, Tables
  <2>3. CASE flag = -1
    <3>0. flag # 1
      BY <2>3
    <3>1. Changed = Clear(slots, changing)
      BY <2>3, <3>0 DEF Changed
    <3>2. Changed \in Tables
      BY <1>1, <2>3, <3>1, ClearReady DEF Ready
    <3> QED  BY <1>1, <2>3, <3>1, <3>2 DEF Clear, Slot, Tables
  <2> QED  BY <1>1, <2>1, <2>2, <2>3
<1>3. \/ slots'[i] = mid
      \/ slots'[i] = Advance(mid)
  BY DEF Update, Renew
<1>4. /\ slots'[i].port = mid.port /\ slots'[i].lost = mid.lost
      /\ slots'[i].pn = mid.pn /\ slots'[i].status = mid.status
      /\ slots'[i].value =< Bump(mid.value)
  BY <1>2, <1>3 DEF Advance, Slot, Bump
<1>5. ~mid.lost /\ mid.port # NoPort
  BY <1>4 DEF Live, Occupied
<1>6. CASE mid = old
  BY <1>4, <1>5, <1>6 DEF Live, Occupied
<1>7. CASE mid # old
  <2>1. old.value = 0
    BY <1>1, <1>2, <1>5, <1>7 DEF Sound, HeatIsEarned, Slot
  <2>2. Bump(mid.value) =< 1
    BY <1>2, <1>5, <1>7, <2>1 DEF Bump
  <2>3. slots'[i].value \in Nat
    BY <1>2, <1>3 DEF Advance, Slot
  <2> QED  BY <1>2, <1>4, <1>5, <1>7, <2>1, <2>2, <2>3 DEF Bump
<1> QED  BY <1>6, <1>7

-----------------------------------------------------------------------------
LEMMA ShownStep ==
    ASSUME CarefulOperator, DevicesAnswer, ShownInv, [Next]_vars
    PROVE  Shown'
<1> USE SlotTableAssumption DEF Pending, Settled
<1>0. /\ TInv /\ Shown /\ Answered
      /\ plugged \in [Ports -> Parts \cup {NoPart}] /\ connected \subseteq Ports
  BY DEF ShownInv, TInv, IInv, TypeOK
<1>1. CASE UNCHANGED <<slots, connected, plugged>>
  BY <1>0, <1>1 DEF Shown, Live, Occupied
<1>2. CASE Scan
  <2>1. UNCHANGED <<slots, plugged>> /\ Tracked(slots, connected)
    BY <1>0, <1>2 DEF Scan, TInv, SlotsFollow
  <2>2. \A i \in Slots : Live(slots, i) => slots[i].port \in connected
    BY <2>1 DEF Tracked
  <2> QED  BY <1>0, <2>1, <2>2 DEF Shown, Live, Occupied
<1>3. CASE Update
  <2>1. UNCHANGED <<connected, plugged>> /\ pc = "update"
    BY <1>3 DEF Update, bench
  <2> SUFFICES ASSUME NEW i \in Slots, Live(slots, i)', slots'[i].port \in connected,
                      plugged[slots'[i].port] # NoPart
               PROVE  slots'[i].pn = plugged[slots'[i].port]
    BY <2>1 DEF Shown
  <2>2. CASE Live(slots, i) /\ slots'[i].port = slots[i].port /\ slots'[i].pn = slots[i].pn
    BY <1>0, <2>2 DEF Shown
  <2>3. CASE flag = 1 /\ slots'[i].port = changing /\ slots'[i].pn = newPN
    BY <1>0, <2>1, <2>3 DEF Answered
  <2> QED  BY <1>0, <1>3, <2>2, <2>3, UpdateOrigin
<1>4. CASE Restart
  BY <1>4 DEF Restart, Shown
<1>5. ASSUME NEW q \in Ports, Unplug(q)
      PROVE  Shown'
  <2>1. UNCHANGED <<slots, connected>>
        /\ \A p \in Ports : plugged'[p] # NoPart => plugged'[p] = plugged[p]
    BY <1>0, <1>5 DEF Unplug, worker
  <2> QED  BY <1>0, <2>1 DEF Shown, Live, Occupied
<1>6. ASSUME NEW q \in Ports, NEW a \in Parts, Plug(q, a)
      PROVE  Shown'
  <2>1. UNCHANGED <<slots, connected>>
    BY <1>6 DEF Plug, worker
  <2>2. \A p \in connected : plugged'[p] = plugged[p]
    BY <1>0, <1>6, PlugIsNew
  <2> QED  BY <1>0, <2>1, <2>2 DEF Shown, Live, Occupied
<1>7. CASE Start \/ Open \/ ReadSN \/ QueryItem \/ QueryBist \/ Record \/ Finish
  BY <1>1, <1>7 DEF Start, Open, ReadSN, QueryItem, QueryBist, Record, Finish, bench
<1>8. CASE LinkDrops \/ LinkReturns \/ UNCHANGED vars
           \/ \E a \in Parts, r \in Results : BistStation(a, r)
  BY <1>1, <1>8 DEF LinkDrops, LinkReturns, BistStation, vars, worker, bench
<1> QED
  BY <1>2, <1>3, <1>4, <1>5, <1>6, <1>7, <1>8 DEF Next, Poll, Environment

LEMMA AnsweredStep ==
    ASSUME CarefulOperator, DevicesAnswer, ShownInv, [Next]_vars
    PROVE  Answered'
<1> USE SlotTableAssumption DEF Pending, Settled
<1>0. /\ TInv /\ Answered
      /\ plugged \in [Ports -> Parts \cup {NoPart}] /\ connected \subseteq Ports
      /\ flag = 1 => changing \in Ports
      /\ Pending /\ flag = 1 => changing \in connected
  BY DEF ShownInv, TInv, IInv, TypeOK, FlagNamesPort, SlotsFollow
<1>1. CASE UNCHANGED <<pc, flag, changing, newPN, plugged>>
  BY <1>0, <1>1 DEF Answered
<1>2. CASE pc' \notin {"item", "bist", "update"}
  BY <1>2 DEF Answered
<1>3. CASE ReadSN
  <2>1. UNCHANGED <<flag, changing, plugged>>
    BY <1>3 DEF ReadSN, bench
  <2> SUFFICES ASSUME pc' # "hung", flag = 1, plugged[changing] # NoPart
               PROVE  newPN' = plugged[changing]
    BY <1>3, <2>1 DEF Answered, ReadSN
  <2>2. Answers(changing)
    BY <1>0 DEF Answers
  <2> QED  BY <1>3, <2>2 DEF ReadSN, DevicesAnswer, FlashPN
<1>4. CASE QueryItem \/ QueryBist
  <2>1. UNCHANGED <<flag, changing, newPN, plugged>>
        /\ pc \in {"item", "bist", "update"}
    BY <1>4 DEF QueryItem, QueryBist, bench
  <2> QED  BY <1>0, <2>1 DEF Answered
<1>5. ASSUME NEW q \in Ports, Unplug(q)
      PROVE  Answered'
  <2>1. UNCHANGED <<pc, flag, changing, newPN>>
        /\ \A p \in Ports : plugged'[p] # NoPart => plugged'[p] = plugged[p]
    BY <1>0, <1>5 DEF Unplug, worker
  <2> QED  BY <1>0, <2>1 DEF Answered
<1>6. ASSUME NEW q \in Ports, NEW a \in Parts, Plug(q, a)
      PROVE  Answered'
  <2>1. UNCHANGED <<pc, flag, changing, newPN>>
    BY <1>6 DEF Plug, worker
  <2>2. \A p \in connected : plugged'[p] = plugged[p]
    BY <1>0, <1>6, PlugIsNew
  <2> QED  BY <1>0, <2>1, <2>2 DEF Answered
<1>7. CASE Start \/ Open \/ Scan \/ Update \/ Record \/ Finish \/ Restart
  BY <1>2, <1>7 DEF Start, Open, Scan, Update, Record, Finish, Restart
<1>8. CASE LinkDrops \/ LinkReturns \/ UNCHANGED vars
           \/ \E a \in Parts, r \in Results : BistStation(a, r)
  BY <1>1, <1>8 DEF LinkDrops, LinkReturns, BistStation, vars, worker, bench
<1> QED
  BY <1>3, <1>4, <1>5, <1>6, <1>7, <1>8 DEF Next, Poll, Environment

LEMMA ShownInit == ASSUME CarefulOperator, Init PROVE ShownInv
  BY TrackingInit DEF Init, ShownInv, Shown, Answered

LEMMA ShownNext ==
    ASSUME CarefulOperator, DevicesAnswer, ShownInv, [Next]_vars
    PROVE  ShownInv'
  BY TrackingNext, ShownStep, AnsweredStep DEF ShownInv

\* When every plugged device answers its flash read, no slot keeps the PN of an
\* earlier device of its port or of an answer that was meant for another one.
THEOREM SlotsShowTheirDevice ==
    ASSUME CarefulOperator, DevicesAnswer PROVE Spec => []SlotShowsPluggedPart
<1>1. Init => ShownInv
  BY ShownInit
<1>2. ShownInv /\ [Next]_vars => ShownInv'
  BY ShownNext
<1>3. ShownInv => SlotShowsPluggedPart
  BY DEF ShownInv, TInv, SlotsFollow, Tracked, Shown, SlotShowsPluggedPart
<1> QED
  BY <1>1, <1>2, <1>3, PTL DEF Spec

-----------------------------------------------------------------------------
LEMMA EarnedFacts ==
    ASSUME EarnedInv, HeatsLonger
    PROVE  /\ ShownInv /\ TInv /\ SeenOnce /\ NormalIsVetted /\ Earned /\ RecordIsOnline
           /\ plugged \in [Ports -> Parts \cup {NoPart}]
           /\ connected \subseteq Ports
           /\ changing \in Ports \cup {NoPort} /\ flag \in {-1, 0, 1}
           /\ warm \in [Parts -> 0 .. ValueCap] /\ vetted \subseteq Parts
           /\ \A i \in Slots : slots[i] \in Slot
           /\ Pending /\ flag = 1 => changing \in connected
           /\ Settled => \A i \in Slots : Live(slots, i) => slots[i].port \in connected
           /\ ValueCap \in Nat /\ ValueCap >= 1
<1>1. ValueCap \in Nat /\ ValueCap >= 1
  BY SlotTableAssumption DEF HeatsLonger
<1> QED
  BY <1>1 DEF EarnedInv, ShownInv, TInv, IInv, TypeOK, SlotsFollow, Tracked

LEMMA SeenStep ==
    ASSUME CarefulOperator, HeatsLonger, EarnedInv, [Next]_vars
    PROVE  SeenOnce'
<1> USE DEF Pending
<1>0. /\ TInv /\ SeenOnce /\ connected \subseteq Ports
      /\ plugged \in [Ports -> Parts \cup {NoPart}]
      /\ warm \in [Parts -> 0 .. ValueCap]
      /\ ValueCap \in Nat /\ ValueCap >= 1
  BY EarnedFacts
<1>1. CASE ~Pending'
  BY <1>1 DEF SeenOnce
<1>2. CASE Pending /\ UNCHANGED <<connected, plugged, warm>>
  BY <1>0, <1>2 DEF SeenOnce
<1>3. CASE Scan
  <2>1. connected' = PluggedPorts /\ plugged' = plugged
        /\ warm' = [a \in Parts |->
                      IF a \in OnBench
                      THEN IF warm[a] < ValueCap THEN warm[a] + 1 ELSE ValueCap
                      ELSE 0]
    BY <1>3 DEF Scan
  <2>2. \A p \in PluggedPorts : plugged[p] \in Parts /\ plugged[p] \in OnBench
    BY <1>0 DEF PluggedPorts, OnBench
  <2>3. \A a \in Parts : a \in OnBench => warm'[a] >= 1
    BY <1>0, <2>1
  <2> QED  BY <2>1, <2>2, <2>3 DEF SeenOnce
<1>4. CASE ReadSN \/ QueryItem \/ QueryBist
  BY <1>2, <1>4 DEF ReadSN, QueryItem, QueryBist, bench
<1>5. ASSUME NEW q \in Ports, Unplug(q)
      PROVE  SeenOnce'
  <2>1. UNCHANGED <<pc, connected, warm>>
        /\ \A p \in Ports : plugged'[p] # NoPart => plugged'[p] = plugged[p]
    BY <1>0, <1>5 DEF Unplug, worker
  <2> QED  BY <1>0, <2>1 DEF SeenOnce
<1>6. ASSUME NEW q \in Ports, NEW a \in Parts, Plug(q, a)
      PROVE  SeenOnce'
  <2>1. UNCHANGED <<pc, connected>> /\ warm' = [warm EXCEPT ![a] = 0]
    BY <1>6 DEF Plug, worker
  <2>2. \A p \in connected : plugged'[p] = plugged[p] /\ plugged[p] # a /\ plugged[p] \in Parts
    BY <1>0, <1>6, PlugIsNew
  <2>3. \A p \in connected : warm'[plugged'[p]] = warm[plugged[p]]
    BY <1>0, <2>1, <2>2
  <2> QED  BY <1>0, <2>1, <2>2, <2>3 DEF SeenOnce
<1>7. CASE Start \/ Open \/ Update \/ Record \/ Finish \/ Restart
  BY <1>1, <1>7 DEF Start, Open, Update, Record, Finish, Restart
<1>8. CASE LinkDrops \/ LinkReturns \/ UNCHANGED vars
           \/ \E a \in Parts, r \in Results : BistStation(a, r)
  BY <1>1, <1>2, <1>8 DEF LinkDrops, LinkReturns, BistStation, vars, worker, bench
<1> QED
  BY <1>3, <1>4, <1>5, <1>6, <1>7, <1>8 DEF Next, Poll, Environment

LEMMA VettedStep ==
    ASSUME CarefulOperator, HeatsLonger, EarnedInv, [Next]_vars
    PROVE  NormalIsVetted'
<1>0. /\ TInv /\ NormalIsVetted /\ Answered
      /\ connected \subseteq Ports
      /\ Pending /\ flag = 1 => changing \in connected
      /\ flag = 1 => changing \in Ports
  BY EarnedFacts DEF ShownInv, TInv, IInv, FlagNamesPort
<1>1. CASE pc' # "update"
  BY <1>1 DEF NormalIsVetted
<1>2. CASE UNCHANGED <<pc, flag, verdict, newPN, vetted>>
  BY <1>0, <1>2 DEF NormalIsVetted
<1>3. CASE QueryItem
  <2> SUFFICES ASSUME Online, flag = 1, pc' = "update"
               PROVE  verdict' = "noinfo"
    BY <1>3 DEF NormalIsVetted, QueryItem
  <2>1. changing # NoPort
    BY <1>0, SlotTableAssumption
  <2> QED  BY <1>3, <2>1 DEF QueryItem
<1>4. CASE QueryBist
  BY <1>4 DEF QueryBist, NormalIsVetted
<1>5. ASSUME NEW q \in Ports, NEW a \in Parts, Plug(q, a)
      PROVE  NormalIsVetted'
  <2>1. UNCHANGED <<pc, flag, verdict, newPN, changing>> /\ vetted' = vetted \ {a}
    BY <1>5 DEF Plug, worker
  <2> SUFFICES ASSUME pc = "update", flag = 1 PROVE newPN # a
    BY <1>0, <2>1 DEF NormalIsVetted
  <2>2. plugged[changing] # NoPart /\ plugged[changing] # a
    BY <1>0, <1>5, PlugIsNew DEF Pending
  <2> QED  BY <1>0, <2>2 DEF Answered
<1>6. CASE Start \/ Open \/ Scan \/ ReadSN \/ Update \/ Record \/ Finish \/ Restart
  BY <1>1, <1>6 DEF Start, Open, Scan, ReadSN, Update, Record, Finish, Restart
<1>7. CASE LinkDrops \/ LinkReturns \/ UNCHANGED vars
           \/ (\E a \in Parts, r \in Results : BistStation(a, r))
           \/ (\E p \in Ports : Unplug(p))
  BY <1>2, <1>7 DEF Unplug, LinkDrops, LinkReturns, BistStation, vars, worker, bench, db
<1> QED
  BY <1>3, <1>4, <1>5, <1>6, <1>7 DEF Next, Poll, Environment

\* The scan sees the device of every slot it leaves in place once more.
LEMMA EarnedScan ==
    ASSUME HeatsLonger, EarnedInv, Scan
    PROVE  Earned'
<1> USE DEF Pending, Settled
<1>0. /\ Earned /\ Shown /\ Settled /\ vetted \subseteq Parts
      /\ warm \in [Parts -> 0 .. ValueCap] /\ ValueCap \in Nat
      /\ \A i \in Slots : slots[i] \in Slot
      /\ \A i \in Slots : Live(slots, i) => slots[i].port \in connected
  BY EarnedFacts DEF ShownInv, Scan
<1>1. /\ pc = "scan" /\ pc' = "read" /\ UNCHANGED <<slots, plugged, vetted>>
      /\ connected' = PluggedPorts
      /\ \A a \in Parts : a \in OnBench => warm'[a] = Bump(warm[a])
  BY DEF Scan, db, Bump
<1> SUFFICES ASSUME Online, NEW i \in Slots, Live(slots, i),
                    slots[i].status = "normal", slots[i].port \in PluggedPorts
             PROVE  slots[i].pn \in vetted /\ warm'[slots[i].pn] >= Bump(slots[i].value)
  BY <1>1 DEF Earned, Proper, Live, Occupied
<1>2. slots[i].port \in connected /\ plugged[slots[i].port] # NoPart
  BY <1>0 DEF PluggedPorts
<1>3. slots[i].pn = plugged[slots[i].port] /\ slots[i].pn \in OnBench
  BY <1>0, <1>2 DEF Shown, OnBench
<1>4. slots[i].pn \in vetted /\ warm[slots[i].pn] >= slots[i].value
  BY <1>0, <1>1, <1>2 DEF Earned, Proper, Passing
<1>5. warm'[slots[i].pn] = Bump(warm[slots[i].pn])
  BY <1>0, <1>1, <1>3, <1>4
<1>6. slots[i].value \in 0 .. ValueCap /\ warm[slots[i].pn] \in 0 .. ValueCap
  BY <1>0, <1>4 DEF Slot
<1> QED  BY <1>0, <1>4, <1>5, <1>6 DEF Bump

\* A second of heat for a slot, or the first one for a device just plugged.
LEMMA EarnedUpdate ==
    ASSUME HeatsLonger, EarnedInv, Update
    PROVE  Earned'
<1> USE DEF Pending, Settled
<1>0. /\ Earned /\ SeenOnce /\ NormalIsVetted /\ Answered /\ TInv
      /\ vetted \subseteq Parts /\ plugged \in [Ports -> Parts \cup {NoPart}]
      /\ warm \in [Parts -> 0 .. ValueCap]
      /\ flag = 1 => changing \in connected
      /\ connected \subseteq Ports
  BY EarnedFacts DEF ShownInv, Update
<1>1. /\ pc = "update" /\ pc' \in {"record", "finish"}
      /\ UNCHANGED <<connected, plugged, warm, vetted>>
  BY DEF Update, bench, db
<1> SUFFICES ASSUME Online, NEW i \in Slots, Live(slots, i)',
                    slots'[i].status = "normal", slots'[i].port \in connected
             PROVE  \/ /\ slots'[i].pn \in vetted
                       /\ warm[slots'[i].pn] >= slots'[i].value
                    \/ plugged[slots'[i].port] = NoPart /\ slots'[i].value =< 1
  BY <1>1 DEF Earned, Proper, Passing
<1>2. slots'[i].value \in Nat
  <2>1. slots' \in [Slots -> Slot]
    BY <1>0, NextInvariant DEF Next, Poll, TInv, IInv, TypeOK
  <2> QED  BY <2>1, SlotTableAssumption DEF Slot
<1>3. CASE /\ Live(slots, i)
           /\ slots'[i].port = slots[i].port
           /\ slots'[i].pn = slots[i].pn
           /\ slots'[i].status = slots[i].status
           /\ slots'[i].value =< Bump(slots[i].value)
  <2>1. slots[i].pn \in vetted /\ warm[slots[i].pn] >= Bump(slots[i].value)
    BY <1>0, <1>1, <1>3 DEF Earned, Proper, Passing
  <2>2. warm[slots[i].pn] \in Nat /\ Bump(slots[i].value) \in Nat
    <3>1. slots[i] \in Slot /\ ValueCap \in Nat
      BY EarnedFacts
    <3> QED  BY <1>0, <2>1, <3>1 DEF Bump, Slot
  <2> QED  BY <1>2, <1>3, <2>1, <2>2
<1>4. CASE /\ flag = 1
           /\ slots'[i].port = changing
           /\ slots'[i].pn = newPN
           /\ slots'[i].status = verdict
           /\ slots'[i].value =< 1
  <2>1. newPN \in vetted
    BY <1>0, <1>1, <1>4 DEF NormalIsVetted
  <2>2. CASE plugged[changing] = NoPart
    BY <1>4, <2>2
  <2>3. CASE plugged[changing] # NoPart
    <3>1. newPN = plugged[changing] /\ warm[newPN] >= 1
      BY <1>0, <1>1, <1>4, <2>3 DEF Answered, SeenOnce
    <3>2. warm[newPN] \in Nat
      BY <1>0, <2>1, SlotTableAssumption
    <3> QED  BY <1>2, <1>4, <2>1, <3>1, <3>2
  <2> QED  BY <2>2, <2>3
<1> QED  BY <1>0, <1>3, <1>4, UpdateOrigin

LEMMA EarnedStep ==
    ASSUME CarefulOperator, HeatsLonger, EarnedInv, [Next]_vars
    PROVE  Earned'
<1> USE DEF Pending, Settled
<1>0. /\ Earned /\ Shown /\ TInv /\ connected \subseteq Ports /\ vetted \subseteq Parts
      /\ plugged \in [Ports -> Parts \cup {NoPart}]
      /\ warm \in [Parts -> 0 .. ValueCap]
  BY EarnedFacts DEF ShownInv
<1>1. CASE /\ UNCHANGED <<slots, connected, plugged, warm>> /\ vetted \subseteq vetted'
           /\ pc' = "hung" \/ (Settled /\ Settled') \/ (Pending /\ Pending')
           /\ pc = "hung" => pc' = "hung"
  BY <1>0, <1>1 DEF Earned, Proper, Passing, Live, Occupied
<1>2. CASE Scan
  BY <1>2, EarnedScan
<1>3. CASE Update
  BY <1>3, EarnedUpdate
<1>4. CASE Restart
  BY <1>4 DEF Restart, Earned
<1>5. ASSUME NEW q \in Ports, Unplug(q)
      PROVE  Earned'
  <2>1. UNCHANGED <<pc, slots, connected, warm, vetted>>
        /\ \A p \in Ports : plugged[p] = NoPart => plugged'[p] = NoPart
    BY <1>0, <1>5 DEF Unplug, worker, db
  <2> QED  BY <1>0, <2>1 DEF Earned, Proper, Passing, Live, Occupied
<1>6. ASSUME NEW q \in Ports, NEW a \in Parts, Plug(q, a)
      PROVE  Earned'
  <2>1. /\ UNCHANGED <<pc, slots, connected>>
        /\ warm' = [warm EXCEPT ![a] = 0] /\ vetted' = vetted \ {a}
    BY <1>6 DEF Plug, worker
  <2>2. \A p \in connected : plugged[p] # NoPart /\ plugged[p] # a
    BY <1>0, <1>6, PlugIsNew
  <2> SUFFICES ASSUME Online, pc # "hung", NEW i \in Slots, Live(slots, i),
                      slots[i].status = "normal", slots[i].port \in connected
               PROVE  Proper(i)'
    BY <2>1 DEF Earned, Live, Occupied
  <2>3. Proper(i)
    BY <1>0, <2>2 DEF Earned, Passing
  <2>4. slots[i].pn # a
    BY <1>0, <2>2 DEF Shown
  <2>5. slots[i].pn \in vetted' /\ warm'[slots[i].pn] = warm[slots[i].pn]
    BY <1>0, <2>1, <2>3, <2>4 DEF Proper
  <2> QED  BY <2>1, <2>3, <2>5 DEF Proper
<1>7. CASE Start \/ Open \/ ReadSN \/ QueryItem \/ QueryBist \/ Record \/ Finish
  BY <1>1, <1>7 DEF Start, Open, ReadSN, QueryItem, QueryBist, Record, Finish, bench, db
<1>8. CASE LinkDrops \/ LinkReturns \/ UNCHANGED vars
           \/ \E a \in Parts, r \in Results : BistStation(a, r)
  <2>1. UNCHANGED <<pc, slots, connected, plugged, warm, vetted>>
    BY <1>8 DEF LinkDrops, LinkReturns, BistStation, vars, worker, bench, db
  <2> QED  BY <1>0, <2>1 DEF Earned, Proper, Passing, Live, Occupied
<1> QED
  BY <1>2, <1>3, <1>4, <1>5, <1>6, <1>7, <1>8 DEF Next, Poll, Environment

LEMMA RecordIsOnlineStep ==
    ASSUME RecordIsOnline, [Next]_vars PROVE RecordIsOnline'
<1>1. CASE Update
  BY <1>1 DEF Update, RecordIsOnline
<1>2. CASE pc' # "record" \/ pc' = pc
  BY <1>2 DEF RecordIsOnline
<1> QED
  BY <1>1, <1>2 DEF Next, Poll, Environment, Start, Open, Scan, ReadSN, QueryItem,
     QueryBist, Record, Finish, Restart, Plug, Unplug, LinkDrops, LinkReturns,
     BistStation, vars, worker

LEMMA EarnedInit == ASSUME CarefulOperator, Init PROVE EarnedInv
  BY ShownInit DEF Init, EarnedInv, SeenOnce, NormalIsVetted, Earned, RecordIsOnline

LEMMA EarnedNext ==
    ASSUME CarefulOperator, DevicesAnswer, HeatsLonger, EarnedInv, [Next]_vars
    PROVE  EarnedInv'
  BY ShownNext, SeenStep, VettedStep, EarnedStep, RecordIsOnlineStep DEF EarnedInv

\* A slot at 100 shows a device that its scans have seen for Seconds polls and
\* that passed check_bist, all since it was plugged.
LEMMA EarnedRecord ==
    ASSUME HeatsLonger, EarnedInv PROVE RecordIsEarned
<1> SUFFICES ASSUME pc = "record", rec \in Slots, Due(rec)
             PROVE  slots[rec].pn \in vetted /\ warm[slots[rec].pn] >= Seconds
  BY DEF RecordIsEarned
<1> USE SlotTableAssumption
<1>1. /\ Earned /\ Online /\ Settled /\ HeatIsEarned(slots) /\ slots[rec] \in Slot
      /\ warm \in [Parts -> 0 .. ValueCap] /\ vetted \subseteq Parts
      /\ Live(slots, rec) => slots[rec].port \in connected
  BY EarnedFacts DEF RecordIsOnline, Settled, TInv, IInv, TableIsSound
<1>2. slots[rec].value >= Seconds /\ slots[rec].value >= 2 /\ slots[rec].value > 0
  BY <1>1 DEF Due, Full, HeatsLonger, Slot
<1>3. Live(slots, rec) /\ slots[rec].status = "normal"
  BY <1>1, <1>2 DEF HeatIsEarned
<1>4. ~Passing(rec)
  BY <1>1, <1>2 DEF Passing, Slot
<1>5. Proper(rec)
  BY <1>1, <1>3, <1>4 DEF Earned
<1>6. slots[rec].pn \in vetted /\ warm[slots[rec].pn] >= slots[rec].value
  BY <1>1, <1>5 DEF Proper
<1> QED  BY <1>1, <1>2, <1>6 DEF Slot

\* The loop that writes preheat results only comes to a due slot with a device
\* that has been heated for Seconds polls on end.
THEOREM RecordsAreEarned ==
    ASSUME CarefulOperator, DevicesAnswer, HeatsLonger PROVE Spec => []RecordIsEarned
<1>1. Init => EarnedInv
  BY EarnedInit
<1>2. EarnedInv /\ [Next]_vars => EarnedInv'
  BY EarnedNext
<1>3. EarnedInv => RecordIsEarned
  BY EarnedRecord
<1> QED
  BY <1>1, <1>2, <1>3, PTL DEF Spec
=============================================================================
