----------------------------- MODULE PreheatWindow -----------------------------
(***************************************************************************)
(* The window of the preheat station and the polling thread, which share   *)
(* the arrays PNqueue, DBstatus and progressPercent without a lock.  The   *)
(* thread emits signals with pointers to them; Qt queues a signal between  *)
(* threads, and the slot of the window reads the arrays when it runs, while *)
(* the thread may already write the next poll.  A cell holds the number of *)
(* the poll that wrote it, and so do the labels that get their value with  *)
(* the signal.                                                             *)
(***************************************************************************)
EXTENDS Integers, Sequences

CONSTANTS
    NumRows,        \* rows of the window and slots of the table, 6 in the code
    MaxPolls,       \* bound: polls
    MaxQueue        \* bound: events the window has not handled

ASSUME WindowAssumption == {NumRows, MaxPolls, MaxQueue} \subseteq Nat \ {0}

Rows == 1 .. NumRows
Arrays == {"pn", "status", "percent"}
Labels == {"time", "link", "count"}
Polls == 0 .. MaxPolls

\* What a copy of a string yields while the other thread assigns it.
Torn == -1

VARIABLES
    tpc,        \* the thread: off, read, write, sleep, or hung in ReadDeviceSN
    poll,       \* the poll it is in
    todo,       \* the cells it has yet to write in this poll
    writing,    \* the cell it is writing, as <<array, row>>, or << >>
    cells,      \* the arrays
    queue,      \* the event queue of the window
    copying,    \* the array a slot of the window is copying, or "none"
    row,        \* and the row it is at
    shown,      \* what the rows of the window show
    labels      \* what the labels of the window show

thread == <<tpc, poll, todo, writing, cells>>
window == <<copying, row, shown, labels>>
vars   == <<thread, queue, window>>

Event == [kind : Arrays, val : {0}] \cup [kind : Labels, val : Polls]

TypeOK ==
    /\ tpc \in {"off", "read", "write", "sleep", "hung"}
    /\ poll \in Polls
    /\ \A i \in DOMAIN todo : todo[i] \in Arrays \X Rows
    /\ writing = << >> \/ writing \in Arrays \X Rows
    /\ cells \in [Arrays -> [Rows -> Polls]]
    /\ Len(queue) =< MaxQueue /\ \A i \in DOMAIN queue : queue[i] \in Event
    /\ copying \in Arrays \cup {"none"}
    /\ row \in 1 .. NumRows + 1
    /\ shown \in [Arrays -> [Rows -> Polls \cup {Torn}]]
    /\ labels \in [Labels -> Polls]

Init ==
    /\ tpc = "off"
    /\ poll = 0
    /\ todo = << >>
    /\ writing = << >>
    /\ cells = [a \in Arrays |-> [r \in Rows |-> 0]]
    /\ queue = << >>
    /\ copying = "none"
    /\ row = 1
    /\ shown = cells
    /\ labels = [l \in Labels |-> 0]

-----------------------------------------------------------------------------
\* mutant: the value of the poll after this one
ValueMutant(kind) == [kind |-> kind, val |-> poll' + 1]

Value(kind) == [kind |-> kind, val |-> poll']
Pointer(kind) == [kind |-> kind, val |-> 0]

Emit(events) ==
    /\ queue' = queue \o events
    /\ Len(queue') =< MaxQueue

\* The head of a poll, up to its first signal.  configTime is emitted once.
Begin ==
    /\ tpc \in {"off", "sleep"}
    /\ poll < MaxPolls
    /\ poll' = poll + 1
    /\ Emit(IF tpc = "off" THEN <<Value("time"), Value("link")>>
                           ELSE <<Value("link")>>)
    /\ tpc' = "read"
    /\ UNCHANGED <<todo, writing, cells, window>>

\* ReadDeviceSN may not come back.
Hang ==
    /\ tpc = "read"
    /\ tpc' = "hung"
    /\ UNCHANGED <<poll, todo, writing, cells, queue, window>>

\* pushItemInIDqueue or clearValueInIDqueue assigns the strings of a row;
\* renewProgressBarValue then goes through the percentages up to the first slot
\* without a device.
Change ==
    /\ tpc = "read"
    /\ tpc' = "write"
    /\ \E last \in Rows :
          LET percents == [r \in 1 .. last |-> <<"percent", r>>]
          IN  \/ todo' = percents
              \/ \E r \in Rows : todo' = <<<<"pn", r>>, <<"status", r>>>> \o percents
    /\ UNCHANGED <<poll, writing, cells, queue, window>>

WriteBegins ==
    /\ tpc = "write"
    /\ writing = << >> /\ todo # << >>
    /\ writing' = Head(todo)
    /\ todo' = Tail(todo)
    /\ UNCHANGED <<tpc, poll, cells, queue, window>>

WriteEnds ==
    /\ writing # << >>
    /\ cells' = [cells EXCEPT ![writing[1]][writing[2]] = poll]
    /\ writing' = << >>
    /\ UNCHANGED <<tpc, poll, todo, queue, window>>

WrittenMutant == writing = << >>        \* mutant: signals before the last write

Written == writing = << >> /\ todo = << >>

\* mutant: the thread passes the first two arrays only
SignalsMutant == <<Pointer("percent"), Pointer("pn"), Value("count")>>

\* procValueChanged, getAndsendSN, TotalDevCount, reportDBstatus.
Signals == <<Pointer("percent"), Pointer("pn"), Value("count"), Pointer("status")>>

Finish ==
    /\ tpc = "write"
    /\ Written
    /\ poll' = poll
    /\ Emit(Signals)
    /\ tpc' = "sleep"
    /\ todo' = << >>
    /\ UNCHANGED <<writing, cells, window>>

-----------------------------------------------------------------------------
\* ShowConfigTime, ShowDBconnectStatus and ShowTotalDevs set a label; the other
\* slots copy an array row by row.
Deliver ==
    /\ copying = "none"
    /\ queue # << >>
    /\ queue' = Tail(queue)
    /\ LET e == Head(queue)
       IN  IF e.kind \in Labels
           THEN /\ labels' = [labels EXCEPT ![e.kind] = e.val]
                /\ UNCHANGED <<copying, row>>
           ELSE /\ copying' = e.kind
                /\ row' = 1
                /\ UNCHANGED labels
    /\ UNCHANGED <<thread, shown>>

NextRowMutant == NumRows + 1        \* mutant: the first row only

NextRow == row + 1

\* progValueChanged, ShowSNinLable, ShowDBlabel.
CopyRow ==
    /\ copying # "none"
    /\ row \in Rows
    /\ \E v \in IF writing = <<copying, row>> THEN {Torn, cells[copying][row], poll}
                                              ELSE {cells[copying][row]} :
          shown' = [shown EXCEPT ![copying][row] = v]
    /\ row' = NextRow
    /\ UNCHANGED <<thread, queue, copying, labels>>

Return ==
    /\ copying # "none"
    /\ row \notin Rows
    /\ copying' = "none"
    /\ row' = 1
    /\ UNCHANGED <<thread, queue, shown, labels>>

Window == Deliver \/ CopyRow \/ Return

Next == Begin \/ Hang \/ Change \/ WriteBegins \/ WriteEnds \/ Finish \/ Window

Spec == Init /\ [][Next]_vars

\* The event loop of the window runs.
FairSpec == Spec /\ WF_vars(Window)

-----------------------------------------------------------------------------
\* The arrays have not been touched since the signals of the last poll.
Settled == tpc # "write"

\* A window that has handled all of its events shows the arrays as they are,
\* unless the thread is writing the next poll right then: whatever mixture of
\* two polls, or torn string, it showed on the way is gone.
QuietWindowIsCurrent ==
    Settled /\ queue = << >> /\ copying = "none" => shown = cells

\* The count in the window is never ahead of the table: by the time it shows that
\* of a poll, the thread has written the table of that poll or of a later one (at
\* least the first slot, which every poll visits).
CountOfWrittenPoll ==
    labels["count"] =< cells["percent"][1]

\* When the thread is stuck with a device the window still gets to show the
\* table of the last complete poll.
HungShowsLastPoll == (tpc = "hung") ~> (shown = cells)
=============================================================================
