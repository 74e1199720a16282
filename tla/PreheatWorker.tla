---------------------------- MODULE PreheatWorker ----------------------------
(***************************************************************************)
(* ThreadWorker::run, the polling loop of the preheat station, and what it *)
(* interacts with: an operator who plugs and unplugs devices, a database   *)
(* link that drops and comes back, BIST stations that write the table the  *)
(* worker reads.  One poll is                                              *)
(*                                                                         *)
(*   Open -> Scan -> ReadSN -> QueryItem -> QueryBist -> Update            *)
(*        -> Record (slot by slot) -> Finish                               *)
(*                                                                         *)
(* and each of these is a step of its own because each one looks at        *)
(* something outside of the thread that can have changed since the last.   *)
(***************************************************************************)
EXTENDS SlotTable

CONSTANTS
    Online,         \* ConnectDataBase in Config.ini
    MaxChanges,     \* bound: plugs and unplugs between two scans
    ReadFaults,     \* a plugged device may fail to answer its flash read
    FailedReads     \* what a failed exchange comes to, given the actual_length
                    \* that it leaves unset: "stale" ends the receive loop with
                    \* the bytes of an earlier one, "garbled" with bytes that
                    \* are no SN, "hang" repeats it for ever

ASSUME WorkerAssumption ==
    /\ Online \in BOOLEAN
    /\ MaxChanges \in Nat
    /\ ReadFaults \in BOOLEAN
    /\ FailedReads \subseteq {"stale", "garbled", "hang"}

VARIABLES
    pc,         \* the next step of the thread
    slots,      \* DeviceList queues and ProgressData
    connected,  \* connectedPortID
    changing,   \* theChangingInputID and theChangingUri, kept between polls
    flag,       \* DeviceStatusFlag
    buffer,     \* the SN bytes in cmdDevice::respone_buffer
    newPN,      \* newInputPN
    verdict,    \* DevOnDatabaseFlag 0, 1, 2 as the status it is shown as
    rec,        \* progBarMax
    session,    \* the MYSQL connection of this poll
    count,      \* successCount
    plugged,    \* the device on each port
    changes,    \* plugs and unplugs since the last scan
    link,       \* the database server answers
    bist,       \* the row of each device: none, BIST failed, BIST passed
    preheated,  \* the devices whose row has PreHeat = 1 from this worker
    warm,       \* history: scans of this station since it was started that saw
                \* the device, since it was plugged
    vetted      \* history: devices that passed check_bist since then

worker == <<pc, slots, connected, changing, flag, buffer, newPN, verdict, rec>>
bench  == <<plugged, changes, warm>>
db     == <<session, count, link, bist, preheated, vetted>>
vars   == <<worker, bench, db>>

PCs == {"idle", "open", "scan", "read", "item", "bist", "update", "record",
        "finish", "hung"}
Results == {"none", "failed", "passed"}

TypeOK ==
    /\ pc \in PCs
    /\ slots \in [Slots -> Slot]
    /\ connected \subseteq Ports
    /\ changing \in Ports \cup {NoPort}
    /\ flag \in -1 .. 1
    /\ buffer \in Parts \cup {NoPart}
    /\ newPN \in Parts \cup {NoPart}
    /\ verdict \in Statuses
    /\ rec \in 1 .. NumSlots + 1
    /\ session \in {"closed", "open", "broken"}
    /\ count \in Nat
    /\ plugged \in [Ports -> Parts \cup {NoPart}]
    /\ changes \in 0 .. MaxChanges
    /\ link \in BOOLEAN
    /\ bist \in [Parts -> Results]
    /\ preheated \subseteq Parts
    /\ warm \in [Parts -> 0 .. ValueCap]
    /\ vetted \subseteq Parts

PluggedPorts == {p \in Ports : plugged[p] # NoPart}
OnBench == {plugged[p] : p \in PluggedPorts}

\* A device is on one port at a time; up to MaxChanges are already plugged.
Init ==
    /\ pc = "idle"
    /\ slots = EmptyTable
    /\ connected = {}
    /\ changing = NoPort
    /\ flag = 0
    /\ buffer = NoPart
    /\ newPN = NoPart
    /\ verdict = ""
    /\ rec = 1
    /\ session = "closed"
    /\ count = 0
    /\ plugged \in [Ports -> Parts \cup {NoPart}]
    /\ \A p, q \in PluggedPorts : plugged[p] = plugged[q] => p = q
    /\ changes = Cardinality(PluggedPorts)
    /\ changes =< MaxChanges
    /\ link = TRUE
    /\ bist \in [Parts -> Results]
    /\ ~Online => bist = [a \in Parts |-> "none"]
    /\ preheated = {}
    /\ warm = [a \in Parts |-> 0]
    /\ vetted = {}

-----------------------------------------------------------------------------
\* on_StartBtn_clicked; QThread::start does nothing to a running thread.
Start ==
    /\ pc = "idle"
    /\ pc' = "open"
    /\ UNCHANGED <<slots, connected, changing, flag, buffer, newPN, verdict, rec,
                   bench, db>>

\* init_database and open_database; the poll goes on when they fail.
Open ==
    /\ pc = "open"
    /\ session' = IF Online /\ link THEN "open" ELSE "closed"
    /\ pc' = "scan"
    /\ UNCHANGED <<slots, connected, changing, flag, buffer, newPN, verdict, rec,
                   bench, count, link, bist, preheated, vetted>>

\* UpdataDevicesList and DeviceStatusChange.  Only the sizes of the two lists
\* decide the flag; of several ports that came or went, the last one in the
\* order of the driver is reported, and with equal sizes nothing is.
DiffGrowthMutant(old, new) ==     \* mutant: only a longer list is looked into
    LET came == {p \in new \ old : Cardinality(old) < Cardinality(new)}
    IN  \/ \E p \in came : changing' = p /\ flag' = 1
        \/ came = {} /\ changing' = changing /\ flag' = 0

Diff(old, new) ==
    LET came == {p \in new \ old : Cardinality(old) < Cardinality(new)}
        went == {p \in old \ new : Cardinality(old) > Cardinality(new)}
    IN  \/ \E p \in came : changing' = p /\ flag' = 1
        \/ \E p \in went : changing' = p /\ flag' = -1
        \/ came \cup went = {} /\ changing' = changing /\ flag' = 0

Scan ==
    /\ pc = "scan"
    /\ connected' = PluggedPorts
    /\ Diff(connected, connected')
    /\ changes' = 0
    /\ warm' = [a \in Parts |->
                  IF a \in OnBench
                  THEN IF warm[a] < ValueCap THEN warm[a] + 1 ELSE ValueCap
                  ELSE 0]
    /\ pc' = "read"
    /\ UNCHANGED <<slots, buffer, newPN, verdict, rec, plugged, db>>

\* ReadDeviceSN: in every poll, whatever the flag.  A failed exchange is not
\* noticed: the receive loop repeats, or ends with the bytes of an earlier one or
\* with those of a receive of 0x200 bytes, a full buffer that is no reply.
Answers(port) == port # NoPort /\ plugged[port] # NoPart

FlashPNMutant(port) == port     \* mutant: the port ID is taken for the SN

FlashPN(port) == plugged[port]

ReadSN ==
    /\ pc = "read"
    /\ \/ /\ Answers(changing)
          /\ buffer' = FlashPN(changing)
          /\ newPN' = FlashPN(changing)
          /\ pc' = "item"
       \/ /\ ReadFaults \/ ~Answers(changing)
          /\ "stale" \in FailedReads
          /\ newPN' = buffer
          /\ buffer' = buffer
          /\ pc' = "item"
       \/ /\ ReadFaults \/ ~Answers(changing)
          /\ "garbled" \in FailedReads
          /\ newPN' = NoPart
          /\ buffer' = NoPart
          /\ pc' = "item"
       \/ /\ ReadFaults \/ ~Answers(changing)
          /\ "hang" \in FailedReads
          /\ pc' = "hung"
          /\ UNCHANGED <<buffer, newPN>>
    /\ UNCHANGED <<slots, connected, changing, flag, verdict, rec, bench, db>>

\* get_item_by_pn: illegal PN, no row and a failed query all answer -1.
QueryItem ==
    /\ pc = "item"
    /\ IF ~Online
       THEN verdict' = "normal" /\ pc' = "update"
       ELSE IF changing = NoPort
       THEN verdict' = verdict /\ pc' = "update"
       ELSE IF session = "open" /\ newPN # NoPart /\ bist[newPN] # "none"
       THEN verdict' = verdict /\ pc' = "bist"
       ELSE verdict' = "noinfo" /\ pc' = "update"
    /\ UNCHANGED <<slots, connected, changing, flag, buffer, newPN, rec, bench, db>>

\* check_bist_by_pn: a second query, which can fail where the first did not.
QueryBist ==
    /\ pc = "bist"
    /\ LET passed == session = "open" /\ bist[newPN] = "passed"
       IN  /\ verdict' = IF passed THEN "normal" ELSE "bistfailed"
           /\ vetted' = IF passed THEN vetted \cup {newPN} ELSE vetted
    /\ pc' = "update"
    /\ UNCHANGED <<slots, connected, changing, flag, buffer, newPN, rec, bench,
                   session, count, link, bist, preheated>>

\* pushItemInIDqueue or clearValueInIDqueue, then renewProgressBarValue.
Changed ==
    CASE flag = 1  -> Push(slots, changing, newPN, verdict)
      [] flag = -1 -> Clear(slots, changing)
      [] flag = 0  -> slots

Update ==
    /\ pc = "update"
    /\ slots' = Renew(Changed)
    /\ rec' = 1
    /\ pc' = IF Online THEN "record" ELSE "finish"
    /\ UNCHANGED <<connected, changing, flag, buffer, newPN, verdict, bench, db>>

\* update_preheat_by_pn for a slot at 100: the row must be there, a failure is
\* ignored, and the next poll writes again.
DueMutant(i) == \E j \in Slots : Full(slots[j])     \* mutant: one index for all

Due(i) == Full(slots[i])

Record ==
    /\ pc = "record"
    /\ rec \in Slots
    /\ LET a == slots[rec].pn
       IN  preheated' =
             IF Due(rec) /\ session = "open" /\ a # NoPart /\ bist[a] # "none"
             THEN preheated \cup {a} ELSE preheated
    /\ rec' = rec + 1
    /\ UNCHANGED <<pc, slots, connected, changing, flag, buffer, newPN, verdict,
                   bench, session, count, link, bist, vetted>>

\* count_preheat, close_database, the signals to the window and the sleep.
\* A failed count leaves successCount as the poll before left it.
CountedMutant == count     \* mutant: counted after close_database

Counted == IF session = "open" THEN Cardinality(preheated) ELSE count

Finish ==
    /\ \/ pc = "finish"
       \/ pc = "record" /\ rec = NumSlots + 1
    /\ count' = Counted
    /\ session' = "closed"
    /\ pc' = "open"
    /\ UNCHANGED <<slots, connected, changing, flag, buffer, newPN, verdict, rec,
                   bench, link, bist, preheated, vetted>>

Poll == \/ Open \/ Scan \/ ReadSN \/ QueryItem \/ QueryBist
        \/ Update \/ Record \/ Finish

-----------------------------------------------------------------------------
\* The bench and the other stations.
Plug(p, a) ==
    /\ changes < MaxChanges
    /\ plugged[p] = NoPart
    /\ a \notin OnBench
    /\ plugged' = [plugged EXCEPT ![p] = a]
    /\ changes' = changes + 1
    /\ warm' = [warm EXCEPT ![a] = 0]
    /\ vetted' = vetted \ {a}
    /\ UNCHANGED <<worker, session, count, link, bist, preheated>>

Unplug(p) ==
    /\ changes < MaxChanges
    /\ plugged[p] # NoPart
    /\ plugged' = [plugged EXCEPT ![p] = NoPart]
    /\ changes' = changes + 1
    /\ UNCHANGED <<worker, warm, db>>

\* A session that was open when the link dropped is of no further use.
LinkDrops ==
    /\ Online /\ link
    /\ link' = FALSE
    /\ session' = IF session = "open" THEN "broken" ELSE session
    /\ UNCHANGED <<worker, bench, count, bist, preheated, vetted>>

LinkReturns ==
    /\ ~link
    /\ link' = TRUE
    /\ UNCHANGED <<worker, bench, session, count, bist, preheated, vetted>>

\* A BIST station inserts the row (insert_item) or writes a new result
\* (update_bist_by_pn); no station deletes a row.  The rows are left alone in a
\* bench whose worker does not look at them.
BistStation(a, r) ==
    /\ Online
    /\ r \in {"failed", "passed"} \ {bist[a]}
    /\ bist' = [bist EXCEPT ![a] = r]
    /\ UNCHANGED <<worker, bench, session, count, link, preheated, vetted>>

\* The station ends, at whatever step its thread is, and is started again: all
\* it knew is lost, the table in the database and the bench are as they were.
\* As in Init, no more devices are plugged than one scan may find new.
RestartMutant == slots      \* mutant: the queues outlive the station

Restarted == EmptyTable

Restart ==
    /\ pc # "idle"
    /\ Cardinality(PluggedPorts) =< MaxChanges
    /\ pc' = "idle"
    /\ slots' = Restarted
    /\ connected' = {}
    /\ changing' = NoPort
    /\ flag' = 0
    /\ buffer' = NoPart
    /\ newPN' = NoPart
    /\ verdict' = ""
    /\ rec' = 1
    /\ session' = "closed"
    /\ count' = 0
    /\ changes' = Cardinality(PluggedPorts)
    /\ warm' = [a \in Parts |-> 0]
    /\ vetted' = {}
    /\ UNCHANGED <<plugged, link, bist, preheated>>

Environment ==
    \/ Restart
    \/ \E p \in Ports : \/ Unplug(p)
                        \/ \E a \in Parts : Plug(p, a)
    \/ LinkDrops
    \/ LinkReturns
    \/ \E a \in Parts, r \in Results : BistStation(a, r)

Next == Start \/ Poll \/ Environment

Spec == Init /\ [][Next]_vars

\* The operator presses Start, and the thread is scheduled after each Sleep.
\* Nobody is obliged to plug anything, and the link need not come back.
FairSpec == Spec /\ WF_vars(Start) /\ WF_vars(Poll)
-----------------------------------------------------------------------------
\* The table is sound in every state: a prefix of the slots is occupied, each
\* by a port of its own, vacant slots are blank and heat belongs to live slots
\* with a normal status.  pushItemInIDqueue, clearValueInIDqueue and
\* renewProgressBarValue each rely on it and none of them establishes it alone.
TableIsSound ==
    /\ PrefixFilled(slots)
    /\ OneSlotPerPort(slots)
    /\ HeatIsEarned(slots)
    /\ VacantIsBlank(slots)

\* From the queue update of a poll to the next scan.
Settled == pc \in {"idle", "record", "finish", "open", "scan"}

\* Between the queue update and the next scan the live slots are the ports
\* enumerated last, and a port without a slot found all of them taken.
\* DeviceStatusChange reports one port per poll, so this needs MaxChanges = 1.
SlotsTrackConnected ==
    Settled =>
      /\ \A i \in Slots : Live(slots, i) => slots[i].port \in connected
      /\ \A p \in connected :
            \/ \E i \in Slots : Live(slots, i) /\ slots[i].port = p
            \/ \A i \in Slots : Occupied(slots, i) /\ slots[i].port # p

\* What the window shows on a slot is the device that is on its port: no slot
\* keeps the PN of an earlier device or of an answer meant for another one.
SlotShowsPluggedPart ==
    Settled =>
      \A i \in Slots :
        Live(slots, i) /\ plugged[slots[i].port] # NoPart
          => slots[i].pn = plugged[slots[i].port]

\* When the loop of run is about to write a preheat result, the device it
\* writes it for was seen by Seconds scans in a row and passed check_bist, all
\* since it was plugged and since the station was started; the port, the slot
\* and the answer in the receive buffer must agree over all these polls.
RecordIsEarned ==
    pc = "record" /\ rec \in Slots /\ Due(rec) =>
      /\ slots[rec].pn \in vetted
      /\ warm[slots[rec].pn] >= Seconds

\* A result is only ever written for a device whose slot is at 100, and an
\* update that fails half way leaves no trace: the set of recorded devices
\* never shrinks, and grows by the device of a due slot, in Record, while the
\* connection of the poll is still up.
RecordsOnlyDue ==
    [][preheated' # preheated =>
         \E i \in Slots :
           /\ slots[i].value >= Seconds /\ Live(slots, i) /\ link
           /\ preheated' = preheated \cup {slots[i].pn}]_vars
-----------------------------------------------------------------------------
\* A device that is heated with a normal status is recorded in the end, leaves
\* the bench, or is no longer vetted because the station was restarted: polls
\* whose queries fail are made up for by later ones, since run repeats the
\* update for as long as the slot is at 100.
HeatingEndsInRecord ==
    \A a \in Parts :
      <>[]link =>
        ((\E i \in Slots : /\ Settled
                           /\ Live(slots, i)
                           /\ slots[i].status = "normal"
                           /\ slots[i].pn = a)
           ~> (a \in preheated \/ a \notin OnBench \/ a \notin vetted))

\* The station is not restarted for ever.
RunsOn == <>[][~Restart]_vars

\* A device that stays on its port gets a slot: the one difference a scan
\* reports is never lost, whatever else fails in that poll.
StayingIsServed ==
    \A p \in Ports :
      <>[](plugged[p] # NoPart) /\ RunsOn =>
        <>[](\E i \in Slots : Live(slots, i) /\ slots[i].port = p)

\* The number in the window catches up with the table: a poll in which
\* count_preheat failed leaves it behind, but not for ever.
CountCatchesUp == <>[]link /\ RunsOn => []<>(count = Cardinality(preheated))

-----------------------------------------------------------------------------
\* What a comment of run says of the flags it computes.

\* "Device connection Lost" (preheatstation.cpp:212): after the update of a
\* poll no slot is live for a port that the scan of that poll did not find.
LostIsCleared ==
    pc \in {"record", "finish"} =>
      \A i \in Slots : Live(slots, i) => slots[i].port \in connected
=============================================================================
