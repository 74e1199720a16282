# Verification of the preheat station

The preheat station is a Windows program that heats depth cameras on a bench.
It polls the USB bus once a second, gives each device that is plugged in a slot
of a table of six, switches its laser on, reads its number from its flash, asks
a MySQL table whether the device passed its BIST, counts the seconds it has been
under heat, and writes a preheat result into the table when the time is over. A
window shows the slots. The TLA+ modules here model that program as it is
written, and of the library it carries along (XnLib) the scheduler and the USB
read thread for Linux.

## The system

| Component | State | Operations | Module |
|---|---|---|---|
| Slot table (`deviceInquiry`) | `IDqueue`, `PNqueue`, `DBstatus`, `ProgressData`, six of each | `pushItemInIDqueue`, `clearValueInIDqueue`, `renewProgressBarValue` | `SlotTable` |
| Polling worker (`ThreadWorker::run`) | list of ports, the port that changed last, the flags of the poll, the connection | one poll: connect, enumerate, compare, read the SN, query, update the table, record, count, signal, sleep | `PreheatWorker` |
| USB command client (`cmdDevice`) | device handle, `sequence_num`, request and receive buffer | `GetDevHandle`, `Emitter`, `Read_flash` | `CmdDevice` |
| Part database (`database`) | the MySQL table; `next_pn`, `next_sn`, the counts | allocate PN and SN, insert, update a stage, update the SN, count, check | `PartDatabase`, and the queries of a poll in `PreheatWorker` |
| Window (`PreheatStation`) | labels and bars | the slots of the six signals, Start | `PreheatWindow` |
| Scheduler (`XnScheduler.cpp`) | list of tasks, wake-up event, stop flag | start, shutdown, add, remove, reschedule, the thread | `Scheduler` |
| USB read thread, Linux (`XnLinuxUSB.cpp`) | buffers with `bIsQueued`, `nLastStatus`, an event and a transfer each; the kill flag | start, submit, wait, cancel, hand over, resubmit, `xnTransferCallback`, shutdown and clean-up | `UsbReadThread`, `IsoPackets` |
| Configuration (`INIReader`) | none after the start | read once | constants of the others |
| Rest of the USB library, logs, containers (XnLib), libusb, GL, drivers | | | see *Not modelled* |

How they interact. The window starts the worker; the worker owns a
`deviceInquiry`, which owns a `cmdDevice`, and a `database`. The worker talks to
the window by signals, which Qt queues, and two of the signals carry pointers
into the worker's arrays: these are shared memory without a lock. Several
stations share the MySQL table and nothing else. The devices are shared with an
operator who asks nobody. The read thread shares its buffers, without a lock, with
the thread of libusb that calls `xnTransferCallback`, and with the application
that shuts it down and frees them; the station itself does not use it, its
devices are talked to by control transfers.

What is hard about it, and what correctness means:

- *Slot table.* Slots are found by linear scans that stop at the first empty
  slot; a slot is never emptied, only marked, and reclaimed by its port. Correct
  means: no gap, no two slots of a port, no heat from an earlier device.
- *Worker.* A poll is a dozen looks at a changing world, and only the difference
  of two lengths tells it what changed. Correct means: a device that is recorded
  is the one that was heated, for as long as configured, with a passed BIST.
- *Command client.* No result of a transfer is looked at and no reply is matched
  with its request. Correct means: the SN that comes back is the device's, and
  when it cannot be, it is not a third device's.
- *Database.* Every operation is a handful of statements that other stations run
  between. Correct means: no number is given twice, the counts add up.
- *Window.* It reads what the thread writes. Correct means: what it shows in the
  end is what there is.
- *Scheduler.* A thread, an event, a list that clients change around it. Correct
  means: no task lost, no wake-up missed, nobody starved, a clean stop.
- *Read thread.* A ring of transfers that complete, are cancelled, are refused or
  lose their device while the thread goes round on flags that another thread
  sets. Correct means: the stream is handed over in order and once, out of
  buffers nobody writes to, and what is freed in the end is used by nobody.

The hazards are listed line by line in `PROJECT.json`, each with the properties
that would catch it.

## The modules

### `SlotTable`: the table as a value

One operator for each function of the class, from a table to a table. A slot is
a record `[port, lost, pn, status, value]`: `IDqueue` holds `""`, the port id or
the port id behind an `&`, which is `port = NoPort`, `port`, and `port` with
`lost`; `value` is `progressValue`; `Full` says that `progressPercent` is 100. The
three early exits of the code are kept as such: `StopsAt` and `Target` are the
scan of `pushItemInIDqueue`, which breaks at the slot of the port, at the marked
slot of the port and at the first empty one; `Visited` is the `break` of
`renewProgressBarValue`. A push does not reset the progress of a slot, in the
code and here: that a reclaimed slot starts cold is a consequence
(`HeatIsEarned`), not an assignment.

### `PreheatWorker`: the polling loop

| Action | Code |
|---|---|
| `Start` | `on_StartBtn_clicked` |
| `Open` | `run` 143–167: OpenNI, connection to the database |
| `Scan` | `UpdataDevicesList`, `DeviceStatusChange` (`Diff`) |
| `ReadSN` | `ReadDeviceSN` by its result: the SN, the bytes of an earlier one, bytes that are no SN, or no return |
| `QueryItem`, `QueryBist` | `get_item_by_pn` and `check_bist_by_pn`, two statements |
| `Update` | `pushItemInIDqueue` or `clearValueInIDqueue`, then `renewProgressBarValue` |
| `Record` | one turn of the loop over the slots, `update_preheat_by_pn` |
| `Finish` | `count_preheat`, close, signals, sleep |
| `Plug`, `Unplug` | the operator |
| `LinkDrops`, `LinkReturns` | the server and the network |
| `BistStation` | another station inserts the row or writes a BIST result |
| `Restart` | the station ends at any step of its thread, and `main` starts it again |

The table of the database and the devices on the bench outlive a restart, the
slots, the buffer of `cmdDevice` and the count do not.

Each action is one look at something outside of the thread. Between any two of
them the environment may move. `warm` and `vetted` are history variables: the
scans in a row that saw a device, and the devices that passed `check_bist` since
they were plugged; they exist to say `RecordIsEarned`, and no action reads them.

What a failed exchange yields depends on an uninitialised variable of the code
(`actual_length`) and on what the device sends before its reply, so it is a choice:
`FailedReads` says which of the outcomes `"stale"`, `"garbled"` and `"hang"` a run
considers. `CmdDevice` justifies that there is no fourth: its property `NeverAThirds`
says that a call that returns yields the SN of the device asked for, the bytes that
were in the buffer before or bytes that are no SN, and the poll where the loop does
not end is `"hang"`.

### `PreheatBench`: what it is for

The specification of the worker without a table: a port is a bay, vacant or with
a device in it, and all bays are vacant when the station starts. In a poll at most one bay changes hands, a device enters cold,
every device with a normal status gets one second warmer, and one that is warm
enough may be certified. The refinement mapping (`PreheatRefinement`) takes a bay
as the live slot of its port. The steps of the worker that do not touch the table
are stutters, `Update` is `Second`, `Enter` or `Leave`, `Record` is `Certify`.

### `CmdDevice`: one call of `ReadDeviceSN`

`Open`, then for each of two commands `Send` and a loop of `Poll`s, then `Take`.
`Proceed` is the bottom of the loop of `send`. The device is external: it works
on one command (`inbox`), answers when it likes (`outbox`), and may or may not keep
an answer that nobody fetched. `Faults` lets any open and any transfer fail and
devices be unplugged at any moment. A handle to a device that is gone, or was
never opened, is `NoDevice`. `clean` records the devices for which nothing failed
since they were plugged, `was` the content of the buffer at the start of the call.
A receive that fills all of its 0x200 bytes counts for the loop like an empty one, but
it has overwritten the buffer (`NothingYet`): the bytes where the SN of a flash reply
would be are then `Garbled`, and stay so when the replies that follow are short or do
not come.

### `PartDatabase`: several stations on one table

A PN is a pair of a worker and a sequence number; the date in it, which all
stations share, is left out. A function of the class is a sequence of statements
(`job` says which are left): an allocation is one, an insert one and a read-back,
an update a select, an update and a read-back, a count two. `Asks` and `asked`
are the protocol of the caller (`mysql_test.cpp`), which allocates a PN and an SN
and then inserts, without a look at the results: what it inserts may be `"new"` or,
after an allocation that failed, `"old"`. `given` is a history variable, the rows
whose SN was new. `crashed` is a process that `sprintf_s` has ended.

The worker id that belongs to a station (`WorkerOf`) is that of its allocations. What
an insert or an update writes into the columns of a stage is any worker id and any
result: they are parameters of `update_<stage>_by_pn` and fields of the item of
`insert_item` and `update_item`, which may have been read before other stations
wrote to the row. The counts too take the worker id as a parameter. `QueryFaults`
says which statements may fail: those of an allocation (`"next"`), the update or
insert (`"write"`), the second of a count (`"count"`); a first one that fails changes
nothing. `gained` is a history variable, the rows that came to be passed ones of the
counted worker since the first statement of the count a station is in.

### `PreheatWindow`: two threads and three arrays

A cell of an array holds the number of the poll that wrote it. The thread goes
through the cells it changes one by one, and a cell can be read in the middle of
its assignment (`Torn`). Signals are queued; those that carry a value carry the
number of their poll, those that carry a pointer make the window copy an array,
row by row, whenever it gets to it.

### `Scheduler`: the thread of XnLib

What a critical section holds together is a step, what it does not is another:
`Add` and `Link` are the computation of the time before and the linking within
it, `Signal` the event after it; `Check` is the look at the list without it.
Times are relative to now, so that the state space is finite without a bound on
the clock. `Place` is the insertion as it is, one comparison off.

### `UsbReadThread`: the read thread of the Linux USB library

| Action | Code |
|---|---|
| `InitReadThread` | `xnUSBInitReadThread`, all of whose allocations succeed |
| `SubmitAll` | the first loop of `xnUSBReadThreadMain`, a buffer per step |
| `Check` | top of the round: leave, or begin to wait |
| `Wake`, `TimeOut`, `TimeOutAgain` | `xnOSWaitEvent` returns (`XnLinuxPosixEvent::Wait`) |
| `Cancel` | `libusb_cancel_transfer`: cancelled, not found or another error, no device |
| `Look` | bottom of the round up to the call of the application's callback |
| `Resubmit` | what follows it |
| `Finished`, `KeepStatus`, `Signal` | libusb gives a transfer back, and the statements of `xnTransferCallback` |
| `ShutdownReadThread`, `Join`, `Terminate` | `xnUSBShutdownReadThread`, with `xnCleanupThreadData` |
| `Answer`, `Cancelled`, `Disappears`, `Unplug` | the device and libusb, external |

`inFlight` is what libusb has, in the order of submission; a device answers the
oldest. The thread waits for one buffer after the other whatever comes first, and
a step of the callback may fall between any two of its own. `arrived` is a history
variable, the buffers whose data is still to be handed over. Time is left out: the
first wait may be over at any moment, even after the event was set, the second one
when there is nothing left to wait for. `Faults` says what may go wrong beyond that:
a submission that is refused, a device that is unplugged, a transfer that cannot be
cancelled (`"cancel"`: the code logs it, waits once more and goes on) and one that was
cancelled and is late (`"slow"`). The cancelling of all requests at shutdown is compiled for
Android only and left out.

### `IsoPackets`: one isochronous transfer

The loop that turns the packets of a transfer into calls, as a recursive function
(`Loop`): `Aggregate` is one turn of it on `pBuffer` and `nTotalBytes`. It is checked against the set of
the bytes that were received, for every transfer of up to `MaxPackets` packets
(`HandedWhole`, in the run as `CallsAreTheReceived`).

### `SequenceLemmas`

What `RemoveAt`, `InsertAt`, `Tail`, `Append` and `\o` do to the elements of a sequence and to
their order (`Before`), for the queues that are proved about: the list of the scheduler, the
transfers in flight, the events of the window. And that a set of naturals has a least element,
for the task at which the insertion stops and the packet at which a loop would first go wrong.

## The runs

Expected to pass:

| Run | What it asks | Instance |
|---|---|---|
| `preheat_safety` | is the right device recorded, under one change per scan and restarts | 2 ports, 2 devices, 2 slots, 2 seconds; 3.7 million states |
| `preheat_capacity` | is the table sound, and a bench, under swaps, failed reads and too few slots | 3 ports, 2 devices, 2 slots |
| `preheat_liveness` | is everyone recorded and served in the end, and is it a bench with the database | 2 ports, 1 device, 2 slots |
| `database_serials` | are numbers unique and held numbers free, queries that fail included | 2 stations, 2 numbers each; 3.2 million states |
| `database_tally` | how far off are counts from two statements | 2 stations, BIST and one other stage, 1 number each; 0.8 million states |
| `command` | is the SN the device's own, and never that of a third; does the receive loop end | 2 devices, sequence numbers modulo 2 |
| `window` | does an idle window show the arrays; what does it show when the thread is stuck | 2 rows, 3 polls |
| `scheduler` | lost tasks, missed wake-ups, delay, starvation, stop | 3 tasks, 2 clients, intervals 1 and 2; 0.5 million states |
| `usb_read` | is the stream handed over in order and once, does the thread end, what is in flight then | 3 buffers; transfers of up to 4 packets; refused submissions, unplugging |

Expected to be violated, each a finding in `PROJECT.json`:

| Run | Property | What the code does |
|---|---|---|
| `preheat_lost` | `LostIsCleared` | two changes between two scans: the lists have the same length, a device that is gone stays live |
| `database_overflow` | `ExhaustionIsReported` | "PN Overflow!" is never printed, the process ends before |
| `usb_shutdown` | `AllReturnedAtCleanUp` | the callback says that it is done before it is: buffer and event are freed under it |

Four more departures need no run of their own. `insert_item`
validates the PN twice and the SN never, so after an allocation that failed it
inserts whatever is in the buffer (`Unset` or an old number in the model); what
holds for the numbers that were allocated is `SerialsUnique`. `check_bist_by_pn`
returns -1 for a
query that fails as well as for a failed BIST, so a link that drops between the
two queries leaves a good device with status 2 until it is plugged again; the
model has it (`QueryBist`), and `RecordIsEarned` holds because the error is on the
safe side. After a failed transfer `ReadDeviceSN` returns the SN of an earlier
device, or bytes that are none: `NeverAThirds` is what holds. `xnSchedulerAddTaskInternal` stops
at the first task that is not earlier than the new one and links behind it, so
the list is not in the order of time: `DelayIsBounded` says what remains.

The properties in a sentence each:

- `TableIsSound`: occupied slots are a prefix, one per port, vacant ones blank,
  heat only where it is earned. Three functions rely on it, none establishes it.
- `SlotsTrackConnected`: from the update to the next scan the live slots are the
  ports of the last scan, except ports that found all slots taken.
- `SlotShowsPluggedPart`: a slot shows the device that is on its port.
- `RecordIsEarned`: a device about to be recorded was seen by `Seconds` scans in a
  row and passed `check_bist`, all since it was plugged and since the station was
  started.
- `RecordsOnlyDue`: the set of recorded devices grows only by the device of a full
  slot, over a link that is up, and never shrinks.
- `ImplementsBench`: the refinement of `PreheatBench`.
- `HeatingEndsInRecord`, `StayingIsServed`, `CountCatchesUp`: once the link stays
  up, a heated device is recorded, leaves or is met by a restart, and the count
  catches up; a device that stays is served whatever the link does. The last two
  ask that the station is not restarted for ever.
- `SerialsUnique`: no two rows whose SN was allocated for them share it.
- `AllocatedStaysFree`: a PN or an SN that a station holds is in no row.
- `TallyAddsUp`: a count that succeeds is off by no more than the rows that became
  passed ones of the counted worker between its two statements. Those may be counted
  twice, or make the failed ones of `count_bist` negative, and nothing else does.
- `TakesOwnSerial`: a call that no failure hits returns the SN of its device with
  its laser on, out of the reply to its own request, whatever failed for others.
- `NeverAThirds`: whatever fails, a call returns the SN of its device, what was in the
  buffer before or bytes that are no SN, never the SN of a third device.
- `CallReturns`: a call comes back, unless something fails for its device.
- `QuietWindowIsCurrent`, `CountOfWrittenPoll`, `HungShowsLastPoll`: a window
  without events shows the arrays, unless the thread is writing; the count is
  never ahead of the table; a stuck thread leaves the last complete poll.
- `NoTaskLost`, `WakeUpIsComing`, `DelayIsBounded`, `TaskRuns`, `StopEndsThread`:
  the list holds the tasks that were added and not removed, once; a thread that
  waits waits for its head; disorder delays a task by an interval of each other
  task at most; nobody starves; the thread ends by itself.
- `ExitLeavesNoneInFlight`: a read thread that ended of itself was told to, and
  libusb has none of its transfers. It rests on `bIsQueued` of all buffers, set before a
  submission and cleared after.
- `HandedIsNotInFlight`, `NoneOverwritten`: the buffer the application reads is not
  in flight, none is submitted twice, and none is submitted with data in it that
  was not handed over.
- `HandedInOrder`: data is handed over in the order it arrived, once; given up
  when a submission was refused, since such a buffer stays queued for ever.
- `KillEndsThread`, `ArrivedIsHandedOver`: a thread told to end does, and what
  arrived is handed over, with the same exception for the former.
- `CallsAreTheReceived`: an isochronous transfer is handed over whole, in maximal
  chunks.

### Bounds

- `MaxChanges`: plugs and unplugs between two scans. 1 is the world that the
  comparison of lengths is right in, 2 the first where it is not; what holds with
  1 and fails with 2 is said so (`SlotsTrackConnected`, `LostIsCleared`). One poll
  reports one port, so more than 2 adds no new case.
- `ValueCap`, `Seconds`: 2 seconds tell apart cold, warm and done; beyond full the
  counter matters to nobody and is kept at the cap.
- `NumSlots`: 1 to 3 instead of 6. With 2 there are a slot before and one behind,
  which is what the scans distinguish; `preheat_capacity` has more ports than
  slots.
- `MaxSeq`: the last sequence number, 9999 in the code; 1 leaves each station a first
  number, a next one and the end of the range, and a row whose SN is replaced
  leaves a gap below the largest. The tally needs one row of each station.
- `QueryFaults`: the run about the counts has those of a count, the run about the
  numbers those of an allocation and of a write.
- `BetweenCounts`, the `VIEW` of `database_tally`, leaves out what no step reads of the
  tallies: all but what the first statement of a count in progress has stored.
- `SeqSize`: 2^16 in the code; 2 makes the numbers repeat at once, so nothing can
  rest on their being different.
- `MaxReplies`: 2 replies that nobody fetched, one more than a call that fails
  between its commands leaves.
- `MaxPolls`, `MaxQueue`: a poll that is shown, one that is written, one that
  follows. The queue is long enough for all signals of three polls, so it never
  delays the thread; the count of polls is why these runs may stop.
- `Late`: how late the scheduler thread may be for its head, which also is how
  long a callback may take in the model. The lateness of other tasks is not
  bounded by a guard; that it is finite is `DelayIsBounded`.
- `Clients`: 2 threads that add, remove and reschedule: one may be in the middle of
  its call while another begins and ends one.
- `Intervals`: two that differ, so that a later task can be due earlier. With
  `Late` = 1 a callback may take as long as the shorter of them.
- `Faults` of `usb_read`: without `"cancel"` and `"slow"`. With either the thread gives up
  a transfer that libusb still has, and order, completeness and the end of the thread
  are lost; that it leaves nothing in flight, and hands over no buffer that is, is
  proved for every choice of faults.
- `NumBuffers`: 3, the buffer the thread is at, one before and one behind.
  `usb_shutdown` needs no more than 2.
- `PacketLength`, `MaxPackets`: 2 bytes tell an empty, a partial and a full packet
  apart; 4 packets leave room for a chunk, a gap, a chunk and an end.

Symmetry is used where no definition tells the values apart, and never in a run
with a liveness property. `CHECK_DEADLOCK FALSE` is set where the system may stop:
`preheat_safety` includes the receive loop that never ends, the database runs end
when all stations are out of numbers, the window runs when the polls are used up,
and the model of the read thread ends where memory was released that libusb still
uses, since nothing can be said of what follows: `InitReadThread` asks for
`Released`.

### Fairness

- `PreheatWorker`: the operator presses Start, and the thread is run again after
  each sleep. Nobody has to plug or unplug; the link need not come back, which is
  why two properties begin with `<>[]link`.
- `CmdDevice`: the thread goes on and a device answers what it got; no transfer has
  to fail (`PollFails` is not in the fair part), so a call cannot end thanks to a
  failure.
- `PreheatWindow`: the event loop of the window runs.
- `Scheduler`: the thread runs, callbacks return, time passes, clients end the calls
  they began. That the thread is killed after a second is not assumed.
- `UsbReadThread`: the read thread and the callback run; libusb calls back for what
  was cancelled and for what was in flight to a device that is gone. The device need
  never answer, and nobody need shut down.

## What is proved

Every safety property of the passing runs, invariant or action property, is a theorem that
TLAPS checks, for every value of the constants that meets their assumptions. Eight modules
hold theorems: the seven of the table, and `SequenceLemmas`.

| Module | Theorem | Property, as `Spec => []P`, or `Spec => P` |
|---|---|---|
| `PreheatWorkerProofs` | `TypeCorrect`, `TableAlwaysSound`, `OnlyDueRecorded`, `Refinement` | `TypeOK`, `TableIsSound`, `RecordsOnlyDue`, `ImplementsBench` |
| `PreheatTrackingProofs` | `SlotsAreConnected`, `SlotsShowTheirDevice`, `RecordsAreEarned` | `SlotsTrackConnected`, `SlotShowsPluggedPart`, `RecordIsEarned` |
| `CmdDeviceProofs` | `TypeCorrect`, `SerialIsNoThirds`, `SerialIsOwn` | `TypeOK`, `NeverAThirds`, `TakesOwnSerial` |
| `PartDatabaseProofs` | `TypeCorrect`, `SerialsGivenOnce`, `AllocationHolds`, `CountsAddUp` | `TypeOK`, `SerialsUnique`, `AllocatedStaysFree`, `TallyAddsUp` |
| `PreheatWindowProofs` | `TypeCorrect`, `QuietIsCurrent`, `CountNotAhead` | `TypeOK`, `QuietWindowIsCurrent`, `CountOfWrittenPoll` |
| `SchedulerProofs` | `TypeCorrect`, `ListIsComplete`, `NoWakeUpMissed`, `DelayBounded` | `TypeOK`, `NoTaskLost`, `WakeUpIsComing`, `DelayIsBounded` |
| `UsbReadThreadProofs` | `TypeCorrect`, `ExitSafe`, `HandedSafe`, `DataNotOverwritten`, `OrderOfHandOver`, `TransfersAreHandedWhole` | `TypeOK`, `ExitLeavesNoneInFlight`, `HandedIsNotInFlight`, `NoneOverwritten`, `HandedInOrder`, `CallsAreTheReceived` |

They rest on the assumptions about constants in the modules themselves
(`SlotTableAssumption`, `WorkerAssumption`, `CmdAssumption`, `DatabaseAssumption`,
`WindowAssumption`, `SchedulerAssumption`, `UsbAssumption`, `PacketAssumption`), which TLC
evaluates in each run, and on conditions that a theorem names as its hypotheses. Each module states its inductive
invariant (`IInv`, or the stronger ones below), proves it for `Init` and for each action, and derives the
properties.

**The worker.** For all sets of ports and devices, every number of slots, every time,
with swaps between scans, failed reads, lost links and restarts. `IInv` is
`TypeOK /\ TableIsSound` and two facts about the flags of a poll: a flag that is
not 0 names a port (`FlagNamesPort`), or `Push` might enter `NoPort`, and the
device `check_bist` is asked about is one (`AskedIsPart`), or `bist[newPN]` would
be outside of its domain. The work is in the lemmas about the operators of
`SlotTable`: `Push` and `Clear` of a sound table leave one that is `Ready`, and
`Renew` of a ready table is sound. `HeatIsEarned` does not survive `Clear` alone, which marks
a slot and leaves its progress: it is the `Renew` of the same poll that clears
it, and this is why `Update` is one action in the model, and why the code may
not leave the loop between the two. `OnlyDueRecorded` adds that an open session means
a link that is up.

**The refinement.** For every value of the constants the worker implements
`PreheatBench`. The invariant is `IInv` and that an update of a device that is asked
for comes with a status (`VerdictGiven`). Lemmas on the table say what its live slots
become: a push enters one bay or drops the device, a clear makes one bay vacant, a
renewal warms exactly the normal ones.

**The right device.** Three theorems need that the operator changes one device
between two scans (`CarefulOperator`, `MaxChanges =< 1`), since
`DeviceStatusChange` reports one port. Then the ports of the last scan and the bench differ
in one port at most (`OneDiffers`), and from the scan to the update the table is behind the
scan by the one port of the flag (`SlotsFollow`); these two carry `SlotsTrackConnected`.
That a slot shows the device of its port needs `DevicesAnswer` (`ReadFaults = FALSE`) as
well: a plug while a poll is on is at a port its scan found empty, so the answer, the slot
and the bench agree for as long as the device is there (`Shown`, `Answered`).
`RecordIsEarned` further needs `HeatsLonger`, two seconds at least: a device unplugged between
the scan and the read leaves a slot with an answer of an earlier one, heated for the one
second until the next scan clears it (`Passing`), and with `Seconds = 1` TLC finds it due. All other slots were seen by as many scans as they have seconds (`Proper`).

**The command client.** For any number of devices, all faults, any width of `sequence_num`.
Nothing in the code matches replies with requests; what stands in for it is that a device for
which nothing failed has its queues empty between two calls (`Drained`) and one command or
one reply in them while it is polled (`OneInFlight`). `DataIsNoThirds`, that the bytes in
the buffer are at each step of the call those of the target, of the start of the call or
`Garbled`, gives `NeverAThirds`, which `PreheatWorker` takes for granted, and `LaserFirst` and `Taken` give `TakesOwnSerial`.

**The database.** For any stations, stages, numbers and failures. The two theorems about
numbers have a further hypothesis, `OwnWorkers`: no two stations share a worker id. The code
does not see to it, and 1 is the default of every station; types and counts do without. What
makes the two properties inductive is that a station allocates only numbers of its own
worker (`AllocatesOwn`), so that a statement of another one, between the allocation and the
insert, cannot use the number; that an allocation that succeeded did assign one
(`NewIsAssigned`); and that an update writes a row it has selected (`WritesSelected`).
`NextCodeIsFree` is the lemma about the allocation itself: the successor of the largest number
of a worker is not in the table.

**The scheduler.** For any tasks, intervals and number of clients. `NoTaskLost` is nearly inductive, with
the lemmas that the insertion of `xnSchedulerAddTaskInternal` and the removal keep the other
elements. `WakeUpIsComing` also needs that a task is due within its interval
(`DueWithinInterval`): the wait is computed from the time of the head, the promise is about its
interval.

**The read thread.** For any number of buffers and all faults, the late ones included. `IInv` adds
that what is in flight is queued (`FlyingIsQueued`: the flag is set before a submission and
cleared after the return) and that only what is not queued is submitted
(`SubmitsUnqueued`): the buffers still to come in the first loop, and the one just
handed over.

**What arrives.** `NoneOverwritten` and `HandedInOrder` have the hypothesis
`CancelsInTime` (neither `"cancel"` nor `"slow"` is in `Faults`): a transfer can be
cancelled, and is back before the second wait for it, `nTimeOut` after it was cancelled,
is over. Without it the thread gives up a
transfer that libusb still has, and TLC finds both violated; `usb_read` checks them under
the same condition. `DataInv` follows a buffer from the callback to the thread: data waits only
in a buffer that is not queued and whose last status says so (`ArrivedIsBack`), between
the reset of `bIsQueued` and the look at the buffer nobody submits it
(`BackIsNotQueued`), and what the thread is about to submit is with nobody else
(`SubmitsClean`). The order needs the order of the round: `Rank` counts the buffers from
the one the thread is at, what arrived and behind it what is in flight is ascending in
it (`InRound`), and a buffer that was handed over and not submitted again, because the
thread is to end, is followed by no expected one (`RoundIsWaited`). All this is given up
once a submission was refused, as the property does.

**The packets.** `HandsOverWhole` is about what a loop computes for every input, and it
was this that made `Loop` a recursive function: that the function exists, and that each
of its values is `Sound`, is shown from the least number of packets for which it would
not be, which needs no induction over an operator. `Sound` is the invariant of the loop:
the calls so far and the chunk are the received bytes of the packets so far, the chunk
ends where the next packet begins, and the calls are apart from each other and from the
chunk.

**The counts.** `TallyAddsUp` needs no hypothesis: stations may share worker ids, write
those of others and fail. `TallyInv` says of a station between the two statements of a
count what the second one will make of it with the rows that are passed ones and not
gained (`Old`). It is inductive because these can only become fewer: whatever row is new
among the passed ones is in `gained` (`OtherSteps`). Without `gained` TLC finds the
property violated, for `count_bist` by a negative number of failed ones and for the other
counts by a row that is counted twice.

**The window.** For any number of rows and polls and any length of the queue.
`SettledIsShown`: for each array that the window does not show as it is, there is an
event in the queue that was emitted after the last write, or a slot is copying it and
has the rows that differ still to do. It rests on the signals coming behind the writes
in the code. `CountsFollow`: every poll writes the first percentage before it emits its
count.

**The delay.** `DelayIsBounded` is proved for any finite set of tasks and any intervals
among which there is a longest one (`nInterval` is an `XnUInt64`). The list is not in
the order of time, so neither the place of a task nor its neighbours bound its lateness.
What does: the thread waits for the head, so a task gets as late as the tasks ahead of
it let it (`WillLag`). At most `n - 1 - j` of `n` tasks are late by more than `j`
times the longest interval and the lateness for the head, or will be when everything ahead of them is on time (`FewLag`). A
step that links a task delays nobody else (`LinkedLags`); the one that can get worse is
a late head that the thread links again, behind the next head, only if that one is not
later due, and this new head then is late as well and waits for nobody: one task less
for one interval more. TLC checked `LagInv` on three tasks before it was proved.

Only model-checked are the liveness properties, which need fairness:
`HeatingEndsInRecord`, `StayingIsServed`, `CountCatchesUp`, `CallReturns`,
`HungShowsLastPoll`, `TaskRuns`, `StopEndsThread`, `KillEndsThread`,
`ArrivedIsHandedOver`. Temporal reasoning with `WF_` and `ENABLED` is out of the
provers' reach.

## Plan

Done, in this order: `SlotTable`, `PreheatWorker`, `PreheatBench` and the first
two theorems; `PartDatabase`; `CmdDevice`; `PreheatWindow`; `Scheduler`; the restart of the
station; `UsbReadThread` and `IsoPackets`; the proofs about `Scheduler`, `PartDatabase`,
`UsbReadThread` and `CmdDevice`, of the refinement, and of what the slots of the worker show; the
proofs about `PreheatWindow`, of the counts, of the order and the packets of the read thread, and
of the delay of the scheduler.

What is left, the model:

1. The read thread of `XnUSBWin32.cpp`, with its queue of overlapped buffers, and the
   reference count of `XnUSB.cpp`.
2. `XnEvent.h`: handlers added and removed while it is raised; the thread-safe queue;
   registration of log and dump writers.
3. `PartDatabase`: a day that ends.
4. `UsbReadThread`: what is left of the order of the data after a transfer that came late.

What is left, the proofs:

1. That `NeverAThirds` of `CmdDevice` is what `ReadSN` of `PreheatWorker` assumes, as a
   refinement of one call.
2. Which of the liveness properties have a safety part worth stating, such as a rank that
   a step of the thread lowers.

## Not modelled

- `ini.c`, `INIReader`: the parser is third-party, its result is constants.
- `DevInitial`, `DevGetVersion`, `CheckConncetion`, `deviceCommand`, `displayOperation`,
  `on_StopBtn_clicked`: nothing calls them, and `Stop` is never read. `get_item_by_sn` and
  the four other `check_` functions change no state.
- `uriParsing`: ports are model values, so two uris of one port are one value.
- Dates: the date in a PN, the day of a count.
- The creation of the table by the first station.
- Texts, layout, and the closing of the window, which ends the process.
- Of the Linux USB library the enumeration, the synchronous transfers and the
  failures of allocations in `xnUSBInitReadThread`; the PS3 library, which has another
  interface below it.
- Of XnLib what is neither the scheduler, the read thread, nor a transfer of
  `cmdDevice`: to come, as planned, or wrappers of one system call, formatting,
  floating-point geometry.
- libusb, the GL headers and the drivers, most of the lines of the repository: not
  this program's. What libusb does to the read thread is in `UsbReadThread` as external.
