-------------------------- MODULE PreheatWindowProofs --------------------------
(***************************************************************************)
(* The window and the polling thread, which share the arrays without a     *)
(* lock: a window that has handled its events shows what is there, and its *)
(* count is never ahead of the table, for any number of rows and polls.    *)
(***************************************************************************)
EXTENDS PreheatWindow, SequenceLemmas

Cells == Arrays \X Rows

TypeInv ==
    /\ TypeOK
    /\ todo \in Seq(Cells)
    /\ queue \in Seq(Event)

\* The thread writes in the middle of a poll, and no cell is ahead of it.
WritesInPoll ==
    /\ writing # << >> => tpc = "write"
    /\ \A a \in Arrays, r \in Rows : cells[a][r] =< poll

\* An array that the window does not show as it is has a signal in the queue
\* that was emitted after the last write, or a slot of the window is copying it
\* and has the rows from `row' on still to do.
WillShow(a) ==
    \/ \E e \in ToSet(queue) : e.kind = a
    \/ \A r \in Rows : (copying = a => r < row) => shown[a][r] = cells[a][r]

SettledIsShown == Settled => \A a \in Arrays : WillShow(a)

\* The first percentage, which every poll writes, is still to be written or has
\* the number of the poll; the counts on their way are those of finished polls.
First == <<"percent", 1>>

CountsFollow ==
    /\ tpc = "write" =>
          First \in ToSet(todo) \/ writing = First \/ cells["percent"][1] = poll
    /\ \A e \in ToSet(queue) : e.kind = "count" => e.val =< cells["percent"][1]
    /\ CountOfWrittenPoll

WInv == TypeInv /\ WritesInPoll /\ SettledIsShown /\ CountsFollow

-----------------------------------------------------------------------------
LEMMA ConstantFacts ==
    /\ NumRows \in Nat \ {0} /\ MaxPolls \in Nat \ {0} /\ MaxQueue \in Nat \ {0}
    /\ 1 \in Rows /\ "percent" \in Arrays /\ "count" \in Labels
    /\ Arrays \cap Labels = {} /\ "none" \notin Arrays
    /\ 0 \in Polls /\ Polls \subseteq Nat
  BY WindowAssumption DEF Rows, Polls, Arrays, Labels

THEOREM Initial == Init => WInv
<1> SUFFICES ASSUME Init PROVE WInv
  OBVIOUS
<1>1. << >> \in Seq(Cells) /\ << >> \in Seq(Event) /\ Len(<< >>) = 0
      /\ DOMAIN << >> = {} /\ ToSet(<< >>) = {}
  BY EmptySeq DEF ToSet
<1>2. TypeInv
  BY <1>1, ConstantFacts DEF Init, TypeInv, TypeOK
<1>3. WritesInPoll
  BY ConstantFacts DEF Init, WritesInPoll
<1>4. SettledIsShown
  BY DEF Init, SettledIsShown, WillShow
<1>5. CountsFollow
  BY <1>1, ConstantFacts DEF Init, CountsFollow, CountOfWrittenPoll
<1> QED  BY <1>2, <1>3, <1>4, <1>5 DEF WInv

\* Signals are put behind those that are there.
LEMMA EmitStep ==
    ASSUME TypeInv, NEW events \in Seq(Event), Emit(events)
    PROVE  /\ queue' \in Seq(Event)
           /\ Len(queue') =< MaxQueue /\ \A i \in DOMAIN queue' : queue'[i] \in Event
           /\ ToSet(queue') = ToSet(queue) \cup ToSet(events)
<1>1. queue' \in Seq(Event) /\ ToSet(queue') = ToSet(queue) \cup ToSet(events)
  BY ConcatSet DEF TypeInv, Emit
<1>2. \A i \in DOMAIN queue' : queue'[i] \in Event
  BY <1>1, LenProperties, ElementOfSeq
<1> QED  BY <1>1, <1>2 DEF Emit

\* Cells and labels hold the numbers of polls.
LEMMA CellsAreNumbers ==
    ASSUME TypeInv
    PROVE  /\ \A a \in Arrays, r \in Rows : cells[a][r] \in Nat
           /\ labels["count"] \in Nat
<1>1. cells \in [Arrays -> [Rows -> Polls]] /\ labels \in [Labels -> Polls]
  BY DEF TypeInv, TypeOK
<1>2. \A a \in Arrays : cells[a] \in [Rows -> Polls]
  BY <1>1
<1>3. \A a \in Arrays, r \in Rows : cells[a][r] \in Polls
  BY <1>2
<1>4. labels["count"] \in Polls
  BY <1>1, ConstantFacts
<1> QED  BY <1>3, <1>4, ConstantFacts

LEMMA BeginStep == ASSUME WInv, Begin PROVE WInv'
<1>0. TypeInv /\ WritesInPoll /\ SettledIsShown /\ CountsFollow
  BY DEF WInv
<1>1. /\ poll \in Nat /\ poll' = poll + 1 /\ poll' \in Polls
      /\ tpc' = "read" /\ Settled /\ writing = << >>
      /\ UNCHANGED <<todo, writing, cells, copying, row, shown, labels>>
  BY <1>0, ConstantFacts
     DEF Begin, TypeInv, TypeOK, Polls, window, Settled, WritesInPoll
<1> DEFINE events == IF tpc = "off" THEN <<Value("time"), Value("link")>>
                                    ELSE <<Value("link")>>
<1>2. /\ events \in Seq(Event) /\ \A e \in ToSet(events) : e.kind # "count"
  <2>1. Value("time") \in Event /\ Value("link") \in Event
    BY <1>1 DEF Value, Event, Labels
  <2>2. Value("time").kind # "count" /\ Value("link").kind # "count"
    BY DEF Value
  <2>3. ToSet(events) \subseteq {Value("time"), Value("link")}
    BY DEF ToSet
  <2> QED  BY <2>1, <2>2, <2>3
<1>3. Emit(events)
  BY DEF Begin
<1> HIDE DEF events
<1>4. /\ queue' \in Seq(Event)
      /\ Len(queue') =< MaxQueue /\ \A i \in DOMAIN queue' : queue'[i] \in Event
      /\ ToSet(queue') = ToSet(queue) \cup ToSet(events)
  BY <1>0, <1>2, <1>3, EmitStep
<1>5. TypeInv'
  BY <1>0, <1>1, <1>4 DEF TypeInv, TypeOK
<1>6. WritesInPoll'
  <2>1. \A a \in Arrays, r \in Rows : cells[a][r] \in Nat
    BY <1>0, CellsAreNumbers
  <2> QED  BY <1>0, <1>1, <2>1 DEF WritesInPoll
<1>7. SettledIsShown'
  BY <1>0, <1>1, <1>4 DEF SettledIsShown, WillShow
<1>8. CountsFollow'
  BY <1>0, <1>1, <1>2, <1>4 DEF CountsFollow, CountOfWrittenPoll
<1> QED  BY <1>5, <1>6, <1>7, <1>8 DEF WInv

LEMMA HangStep == ASSUME WInv, Hang PROVE WInv'
<1>1. /\ tpc = "read" /\ tpc' = "hung"
      /\ UNCHANGED <<poll, todo, writing, cells, queue, copying, row, shown, labels>>
  BY DEF Hang, window
<1>2. TypeInv' /\ WritesInPoll'
  BY <1>1 DEF WInv, TypeInv, TypeOK, WritesInPoll
<1>3. SettledIsShown' /\ CountsFollow'
  BY <1>1 DEF WInv, SettledIsShown, Settled, WillShow, CountsFollow, CountOfWrittenPoll
<1> QED  BY <1>2, <1>3 DEF WInv

\* The writes of a poll are decided, and the first percentage is among them.
LEMMA ChangeStep == ASSUME WInv, Change PROVE WInv'
<1>1. /\ tpc = "read" /\ tpc' = "write"
      /\ UNCHANGED <<poll, writing, cells, queue, copying, row, shown, labels>>
  BY DEF Change, window
<1>2. todo' \in Seq(Cells) /\ First \in ToSet(todo')
  <2>1. PICK last \in Rows :
            LET percents == [r \in 1 .. last |-> <<"percent", r>>]
            IN  \/ todo' = percents
                \/ \E r \in Rows : todo' = <<<<"pn", r>>, <<"status", r>>>> \o percents
    BY DEF Change
  <2> DEFINE percents == [r \in 1 .. last |-> <<"percent", r>>]
  <2>2. last \in Nat \ {0} /\ \A r \in 1 .. last : r \in Rows
    BY ConstantFacts DEF Rows
  <2>3. percents \in Seq(Cells)
    BY <2>2, ConstantFacts, IsASeq DEF Cells
  <2>4. First \in ToSet(percents)
    <3>1. 1 \in DOMAIN percents /\ percents[1] = First
      BY <2>2 DEF First
    <3> QED  BY <3>1 DEF ToSet
  <2>5. CASE todo' = percents
    BY <2>3, <2>4, <2>5
  <2>6. ASSUME NEW r \in Rows, todo' = <<<<"pn", r>>, <<"status", r>>>> \o percents
        PROVE  todo' \in Seq(Cells) /\ First \in ToSet(todo')
    <3>1. <<<<"pn", r>>, <<"status", r>>>> \in Seq(Cells)
      BY DEF Cells, Arrays
    <3> DEFINE pair == <<<<"pn", r>>, <<"status", r>>>>
    <3>2. pair \in Seq(Cells) /\ todo' = pair \o percents
      BY <2>6, <3>1
    <3> HIDE DEF percents, pair
    <3>3. pair \o percents \in Seq(Cells)
          /\ ToSet(pair \o percents) = ToSet(pair) \cup ToSet(percents)
      BY <2>3, <3>2, ConcatSet
    <3> QED  BY <2>4, <3>2, <3>3
  <2> QED  BY <2>1, <2>5, <2>6
<1>3. \A i \in DOMAIN todo' : todo'[i] \in Cells
  BY <1>2, LenProperties, ElementOfSeq
<1>4. TypeInv'
  BY <1>1, <1>2, <1>3 DEF WInv, TypeInv, TypeOK, Cells
<1>5. WritesInPoll' /\ SettledIsShown'
  BY <1>1 DEF WInv, WritesInPoll, SettledIsShown, Settled
<1>6. CountsFollow'
  BY <1>1, <1>2 DEF WInv, CountsFollow, CountOfWrittenPoll
<1> QED  BY <1>4, <1>5, <1>6 DEF WInv

LEMMA WriteStep == ASSUME WInv, WriteBegins \/ WriteEnds PROVE WInv'
<1>0. TypeInv /\ WritesInPoll /\ CountsFollow
  BY DEF WInv
<1>1. CASE WriteBegins
  <2>1. /\ tpc = "write" /\ writing = << >> /\ todo # << >>
        /\ writing' = Head(todo) /\ todo' = Tail(todo)
        /\ UNCHANGED <<tpc, poll, cells, queue, copying, row, shown, labels>>
    BY <1>1 DEF WriteBegins, window
  <2>2. /\ Head(todo) \in Cells /\ Tail(todo) \in Seq(Cells)
        /\ ToSet(todo) = {Head(todo)} \cup ToSet(Tail(todo))
    BY <1>0, <2>1, HeadAndTail DEF TypeInv
  <2>3. \A i \in DOMAIN todo' : todo'[i] \in Cells
    BY <2>1, <2>2, LenProperties, ElementOfSeq
  <2>4. TypeInv'
    BY <1>0, <2>1, <2>2, <2>3 DEF TypeInv, TypeOK, Cells
  <2>5. WritesInPoll' /\ SettledIsShown'
    BY <1>0, <2>1 DEF WritesInPoll, SettledIsShown, Settled
  <2>6. CountsFollow'
    BY <1>0, <2>1, <2>2 DEF CountsFollow, CountOfWrittenPoll, First
  <2> QED  BY <2>4, <2>5, <2>6 DEF WInv
<1>2. CASE WriteEnds
  <2>1. /\ writing # << >> /\ tpc = "write" /\ writing' = << >>
        /\ cells' = [cells EXCEPT ![writing[1]][writing[2]] = poll]
        /\ UNCHANGED <<tpc, poll, todo, queue, copying, row, shown, labels>>
    BY <1>0, <1>2 DEF WriteEnds, window, WritesInPoll
  <2>2. /\ writing \in Arrays \X Rows /\ poll \in Nat
        /\ cells \in [Arrays -> [Rows -> Polls]] /\ poll \in Polls
    BY <1>0, <2>1, ConstantFacts DEF TypeInv, TypeOK
  <2>3. /\ cells' \in [Arrays -> [Rows -> Polls]]
        /\ \A a \in Arrays, r \in Rows :
              cells'[a][r] = IF writing = <<a, r>> THEN poll ELSE cells[a][r]
    BY <2>1, <2>2
  <2>4. TypeInv'
    BY <1>0, <2>1, <2>3 DEF TypeInv, TypeOK
  <2>5. WritesInPoll' /\ SettledIsShown'
    BY <1>0, <2>1, <2>2, <2>3 DEF WritesInPoll, SettledIsShown, Settled
  <2>6. cells["percent"][1] =< cells'["percent"][1] /\ cells'["percent"][1] \in Nat
        /\ cells["percent"][1] \in Nat
        /\ (writing = First => cells'["percent"][1] = poll)
        /\ (cells["percent"][1] = poll => cells'["percent"][1] = poll)
    <3>1. /\ "percent" \in Arrays /\ 1 \in Rows /\ poll \in Nat
          /\ cells["percent"][1] \in Nat /\ cells["percent"][1] =< poll
      BY <1>0, <2>2, ConstantFacts, CellsAreNumbers DEF WritesInPoll
    <3>2. cells'["percent"][1] = IF writing = First THEN poll ELSE cells["percent"][1]
      BY <2>3, <3>1 DEF First
    <3> HIDE DEF First
    <3>3. CASE writing = First
      BY <3>1, <3>2, <3>3
    <3>4. CASE writing # First
      BY <3>1, <3>2, <3>4
    <3> QED  BY <3>3, <3>4
  <2>7. /\ labels["count"] \in Nat
        /\ \A e \in ToSet(queue) : e.val \in Nat
    <3>1. labels["count"] \in Nat
      BY <1>0, CellsAreNumbers
    <3>2. \A e \in ToSet(queue) : e \in Event
      BY <1>0, ElementOfSeq, LenProperties DEF TypeInv, ToSet
    <3>3. \A e \in Event : e.val \in Nat
      BY ConstantFacts DEF Event
    <3> QED  BY <3>1, <3>2, <3>3
  <2>8. CountsFollow'
    BY <1>0, <2>1, <2>6, <2>7 DEF CountsFollow, CountOfWrittenPoll, First
  <2> QED  BY <2>4, <2>5, <2>8 DEF WInv
<1> QED  BY <1>1, <1>2

\* The signals of a poll are emitted when its last cell is written.
LEMMA FinishStep == ASSUME WInv, Finish PROVE WInv'
<1>0. TypeInv /\ WritesInPoll /\ CountsFollow
  BY DEF WInv
<1>1. /\ tpc = "write" /\ tpc' = "sleep" /\ todo' = << >> /\ writing = << >> /\ todo = << >>
      /\ poll' = poll /\ poll \in Polls /\ Emit(Signals)
      /\ UNCHANGED <<writing, cells, copying, row, shown, labels>>
  BY <1>0 DEF Finish, window, Written, TypeInv, TypeOK
<1>2. /\ Signals \in Seq(Event)
      /\ \A a \in Arrays : Pointer(a) \in ToSet(Signals)
      /\ \A e \in ToSet(Signals) : e.kind = "count" => e.val = poll
  <2> DEFINE four == {Pointer("percent"), Pointer("pn"), Value("count"), Pointer("status")}
  <2>1. /\ Pointer("percent") \in Event /\ Pointer("pn") \in Event
        /\ Value("count") \in Event /\ Pointer("status") \in Event
    BY <1>1 DEF Value, Pointer, Event, Labels, Arrays
  <2>2. Signals \in Seq(Event)
    BY <2>1 DEF Signals
  <2>3. ToSet(Signals) = four
    <3>1. /\ DOMAIN Signals = 1 .. 4
          /\ Signals[1] = Pointer("percent") /\ Signals[2] = Pointer("pn")
          /\ Signals[3] = Value("count") /\ Signals[4] = Pointer("status")
      BY DEF Signals
    <3>2. \A i \in 1 .. 4 : i = 1 \/ i = 2 \/ i = 3 \/ i = 4
      OBVIOUS
    <3>3. 1 \in 1 .. 4 /\ 2 \in 1 .. 4 /\ 3 \in 1 .. 4 /\ 4 \in 1 .. 4
      OBVIOUS
    <3> QED  BY <3>1, <3>2, <3>3 DEF ToSet
  <2>4. \A a \in Arrays : Pointer(a) \in four
    BY DEF Arrays
  <2>5. \A e \in four : e.kind = "count" => e.val = poll
    BY <1>1 DEF Pointer, Value
  <2> QED  BY <2>2, <2>3, <2>4, <2>5
<1>3. /\ queue' \in Seq(Event)
      /\ Len(queue') =< MaxQueue /\ \A i \in DOMAIN queue' : queue'[i] \in Event
      /\ ToSet(queue') = ToSet(queue) \cup ToSet(Signals)
  BY <1>0, <1>1, <1>2, EmitStep
<1>4. << >> \in Seq(Cells) /\ DOMAIN << >> = {} /\ ToSet(<< >>) = {}
  BY EmptySeq DEF ToSet
<1>5. TypeInv'
  BY <1>0, <1>1, <1>3, <1>4 DEF TypeInv, TypeOK
<1>6. WritesInPoll'
  BY <1>0, <1>1 DEF WritesInPoll
<1>7. SettledIsShown'
  <2>1. \A a \in Arrays : Pointer(a) \in ToSet(queue') /\ Pointer(a).kind = a
    BY <1>2, <1>3 DEF Pointer
  <2> QED  BY <2>1 DEF SettledIsShown, WillShow
<1>8. cells["percent"][1] = poll
  <2>1. First # << >>
    BY DEF First
  <2> QED  BY <1>0, <1>1, <1>4, <2>1 DEF CountsFollow
<1>9. CountsFollow'
  <2>1. poll \in Nat
    BY <1>1, ConstantFacts
  <2>2. \A e \in ToSet(queue') : e.kind = "count" => e.val =< cells["percent"][1]
    <3> SUFFICES ASSUME NEW e \in ToSet(queue'), e.kind = "count"
                 PROVE  e.val =< cells["percent"][1]
      OBVIOUS
    <3>1. CASE e \in ToSet(queue)
      BY <1>0, <3>1 DEF CountsFollow
    <3>2. CASE e \in ToSet(Signals)
      BY <1>2, <1>8, <2>1, <3>2
    <3> QED  BY <1>3, <3>1, <3>2
  <2> QED  BY <1>0, <1>1, <2>2 DEF CountsFollow, CountOfWrittenPoll
<1> QED  BY <1>5, <1>6, <1>7, <1>9 DEF WInv

-----------------------------------------------------------------------------
\* The window handles an event.
LEMMA DeliverStep == ASSUME WInv, Deliver PROVE WInv'
<1>0. TypeInv /\ WritesInPoll /\ SettledIsShown /\ CountsFollow
  BY DEF WInv
<1> DEFINE e == Head(queue)
<1>1. /\ copying = "none" /\ queue # << >> /\ queue' = Tail(queue)
      /\ UNCHANGED <<tpc, poll, todo, writing, cells, shown>>
      /\ IF e.kind \in Labels
         THEN labels' = [labels EXCEPT ![e.kind] = e.val] /\ UNCHANGED <<copying, row>>
         ELSE copying' = e.kind /\ row' = 1 /\ UNCHANGED labels
  BY DEF Deliver, thread
<1>2. /\ e \in Event /\ queue' \in Seq(Event) /\ Len(queue') = Len(queue) - 1
      /\ ToSet(queue) = {e} \cup ToSet(queue')
  BY <1>0, <1>1, HeadAndTail DEF TypeInv
<1>3. Len(queue) \in Nat /\ \A i \in DOMAIN queue' : queue'[i] \in Event
  BY <1>0, <1>2, LenProperties, ElementOfSeq DEF TypeInv
<1>4. \/ e.kind \in Labels /\ e.val \in Polls
      \/ e.kind \in Arrays /\ e.kind \notin Labels
  BY <1>2, ConstantFacts DEF Event
<1> HIDE DEF e
<1>5. TypeInv'
  <2>1. labels' \in [Labels -> Polls] /\ copying' \in Arrays \cup {"none"}
        /\ row' \in 1 .. NumRows + 1
    <3>1. /\ labels \in [Labels -> Polls] /\ row \in 1 .. NumRows + 1
          /\ 1 \in 1 .. NumRows + 1
      BY <1>0, ConstantFacts DEF TypeInv, TypeOK
    <3>2. CASE e.kind \in Labels /\ e.val \in Polls
      BY <1>1, <3>1, <3>2
    <3>3. CASE e.kind \in Arrays /\ e.kind \notin Labels
      BY <1>1, <3>1, <3>3
    <3> QED  BY <1>4, <3>2, <3>3
  <2>2. Len(queue') =< MaxQueue
    BY <1>0, <1>2, <1>3, ConstantFacts DEF TypeInv, TypeOK
  <2> QED  BY <1>0, <1>1, <1>2, <1>3, <2>1, <2>2 DEF TypeInv, TypeOK
<1>6. WritesInPoll'
  BY <1>0, <1>1 DEF WritesInPoll
<1>7. SettledIsShown'
  <2> SUFFICES ASSUME Settled, NEW a \in Arrays PROVE WillShow(a)'
    BY <1>1 DEF SettledIsShown, Settled
  <2>1. WillShow(a) /\ copying # a
    BY <1>0, <1>1, ConstantFacts DEF SettledIsShown
  <2>2. CASE e.kind = a
    <3>1. copying' = a /\ row' = 1 /\ \A r \in Rows : ~(r < 1)
      BY <1>1, <2>2, ConstantFacts DEF Rows
    <3> QED  BY <3>1 DEF WillShow
  <2>3. CASE e.kind # a
    <3>1. copying' # a
      BY <1>1, <2>1, <2>3
    <3> QED  BY <1>1, <1>2, <2>1, <2>3, <3>1 DEF WillShow
  <2> QED  BY <2>2, <2>3
<1>8. CountsFollow'
  <2>1. labels'["count"] =< cells["percent"][1]
    BY <1>0, <1>1, <1>2, <1>4, ConstantFacts
       DEF CountsFollow, CountOfWrittenPoll, TypeInv, TypeOK
  <2> QED  BY <1>0, <1>1, <1>2, <2>1 DEF CountsFollow, CountOfWrittenPoll
<1> QED  BY <1>5, <1>6, <1>7, <1>8 DEF WInv

\* A slot of the window copies a row, or is done with the last.
LEMMA CopyStep == ASSUME WInv, CopyRow \/ Return PROVE WInv'
<1>0. TypeInv /\ WritesInPoll /\ SettledIsShown /\ CountsFollow
      /\ NumRows \in Nat /\ row \in 1 .. NumRows + 1
  BY ConstantFacts DEF WInv, TypeInv, TypeOK
<1>1. CASE CopyRow
  <2>1. PICK v \in IF writing = <<copying, row>> THEN {Torn, cells[copying][row], poll}
                                                 ELSE {cells[copying][row]} :
            shown' = [shown EXCEPT ![copying][row] = v]
    BY <1>1 DEF CopyRow
  <2>2. /\ copying \in Arrays /\ row \in Rows /\ row' = row + 1
        /\ UNCHANGED <<tpc, poll, todo, writing, cells, queue, copying, labels>>
    BY <1>0, <1>1 DEF CopyRow, NextRow, thread, TypeInv, TypeOK
  <2>3. v \in Polls \cup {Torn}
    BY <1>0, <2>1, <2>2 DEF TypeInv, TypeOK
  <2>4. /\ shown' \in [Arrays -> [Rows -> Polls \cup {Torn}]]
        /\ \A a \in Arrays, r \in Rows :
              shown'[a][r] = IF a = copying /\ r = row THEN v ELSE shown[a][r]
    BY <1>0, <2>1, <2>2, <2>3 DEF TypeInv, TypeOK
  <2>5. row' \in 1 .. NumRows + 1
    BY <1>0, <2>2 DEF Rows
  <2>6. TypeInv'
    BY <1>0, <2>2, <2>4, <2>5 DEF TypeInv, TypeOK
  <2>7. SettledIsShown'
    <3> SUFFICES ASSUME Settled, NEW a \in Arrays PROVE WillShow(a)'
      BY <2>2 DEF SettledIsShown, Settled
    <3>1. writing = << >> /\ WillShow(a)
      BY <1>0 DEF WritesInPoll, Settled, SettledIsShown
    <3>2. v = cells[copying][row]
      BY <2>1, <3>1
    <3>3. \A r \in Rows : r < row + 1 => r < row \/ r = row
      BY <1>0 DEF Rows
    <3> QED  BY <2>2, <2>4, <3>1, <3>2, <3>3 DEF WillShow
  <2>8. WritesInPoll' /\ CountsFollow'
    BY <1>0, <2>2 DEF WritesInPoll, CountsFollow, CountOfWrittenPoll
  <2> QED  BY <2>6, <2>7, <2>8 DEF WInv
<1>2. CASE Return
  <2>1. /\ row \notin Rows /\ copying' = "none" /\ row' = 1
        /\ UNCHANGED <<tpc, poll, todo, writing, cells, queue, shown, labels>>
    BY <1>2 DEF Return, thread
  <2>2. TypeInv'
    BY <1>0, <2>1, ConstantFacts DEF TypeInv, TypeOK
  <2>3. SettledIsShown'
    <3>1. \A r \in Rows : r < row
      BY <1>0, <2>1 DEF Rows
    <3> QED  BY <1>0, <2>1, <3>1 DEF SettledIsShown, Settled, WillShow
  <2>4. WritesInPoll' /\ CountsFollow'
    BY <1>0, <2>1 DEF WritesInPoll, CountsFollow, CountOfWrittenPoll
  <2> QED  BY <2>2, <2>3, <2>4 DEF WInv
<1> QED  BY <1>1, <1>2

THEOREM Invariance == Spec => []WInv
<1>1. ASSUME WInv, [Next]_vars PROVE WInv'
  <2>1. CASE Next
    BY <1>1, <2>1, BeginStep, HangStep, ChangeStep, WriteStep, FinishStep, DeliverStep,
       CopyStep DEF Next, Window
  <2>2. CASE UNCHANGED vars
    BY <1>1, <2>2
       DEF vars, thread, window, WInv, TypeInv, TypeOK, WritesInPoll, SettledIsShown,
           Settled, WillShow, CountsFollow, CountOfWrittenPoll
  <2> QED  BY <1>1, <2>1, <2>2
<1> QED  BY Initial, <1>1, PTL DEF Spec

\* No slot of the window indexes an array past its last row, and a label never
\* shows what was not emitted for it.
THEOREM TypeCorrect == Spec => []TypeOK
<1>1. WInv => TypeOK
  BY DEF WInv, TypeInv
<1> QED  BY Invariance, <1>1, PTL

\* A window that has handled its events shows the arrays as they are, unless the
\* thread is in the middle of a poll.
THEOREM QuietIsCurrent == Spec => []QuietWindowIsCurrent
<1>1. WInv => QuietWindowIsCurrent
  <2> SUFFICES ASSUME WInv, Settled, queue = << >>, copying = "none" PROVE shown = cells
    BY DEF QuietWindowIsCurrent
  <2>1. ToSet(queue) = {}
    BY DEF ToSet
  <2>2. \A a \in Arrays, r \in Rows : shown[a][r] = cells[a][r]
    BY <2>1, ConstantFacts DEF WInv, SettledIsShown, WillShow
  <2>3. /\ shown \in [Arrays -> [Rows -> Polls \cup {Torn}]]
        /\ cells \in [Arrays -> [Rows -> Polls]]
    BY DEF WInv, TypeInv, TypeOK
  <2>4. \A a \in Arrays : shown[a] = cells[a]
    BY <2>2, <2>3
  <2> QED  BY <2>3, <2>4
<1> QED  BY Invariance, <1>1, PTL

\* The count that the window shows is never ahead of the table.
THEOREM CountNotAhead == Spec => []CountOfWrittenPoll
<1>1. WInv => CountOfWrittenPoll
  BY DEF WInv, CountsFollow
<1> QED  BY Invariance, <1>1, PTL
=============================================================================
