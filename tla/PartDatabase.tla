----------------------------- MODULE PartDatabase -----------------------------
(***************************************************************************)
(* The class `database' as several stations use it on one MySQL table: the *)
(* allocation of the next PN and SN of a worker, insert_item, the updates, *)
(* the counts and the checks.  A statement is atomic and committed at once;*)
(* a function is a sequence of statements, and those of other stations run *)
(* in between.  A PN is a worker and a sequence number (the date, common   *)
(* to all of them, is left out), and so is an SN.                          *)
(***************************************************************************)
EXTENDS Integers, FiniteSets

CONSTANTS
    Stations,       \* the processes with a `database' object
    Workers,        \* the worker ids of their Config.ini
    WorkerOf,       \* the worker id of each station
    Stages,         \* "bist", "preheat", "depth_calib", "d2c_calib", ...
    MaxSeq,         \* the last sequence number of a day: 9999 in the code
    QueryFaults,    \* which statements may fail: of an allocation, that write,
                    \* the second of a count
    Unset           \* next_pn and next_sn before they are first assigned

ASSUME DatabaseAssumption ==
    /\ IsFiniteSet(Workers)
    /\ IsFiniteSet(Stages) /\ Stages \cap {"sn", "item"} = {}
    /\ WorkerOf \in [Stations -> Workers]
    /\ MaxSeq \in Nat
    /\ QueryFaults \subseteq {"next", "write", "count"}
    /\ Unset \notin Workers \X (0 .. MaxSeq)

Codes == Workers \X (0 .. MaxSeq)

\* The result columns: -1 (init_item), 0 failed, 1 passed, and who wrote them.
StageRow == [by : Workers, res : -1 .. 1]
Row == [sn : Codes \cup {Unset}, stage : [Stages -> StageRow]]

VARIABLES
    rows,       \* the table, a function on the PNs that have a row
    job,        \* what is left to do of the function a station is in
    nextPN,     \* next_pn and
    nextSN,     \* next_sn of each database object
    asked,      \* whether the caller has asked for each of the two since it
                \* used it, and if so whether it got a new one
    given,      \* history: the PNs whose row has an SN that was new
    tally,      \* the *success and *failed of the last count
    gained,     \* history: the rows that came to be passed ones of the worker
                \* that a station counts, since its first statement
    crashed     \* the stations whose process was aborted

vars == <<rows, job, nextPN, nextSN, asked, given, tally, gained, crashed>>

Idle == [step |-> "idle"]

\* `what' is a stage, "sn" for update_sn_by_pn or "item" for update_item, which
\* writes the columns of all stages, if there are any.
Targets == {"sn"} \cup (IF Stages = {} THEN {} ELSE Stages \cup {"item"})

Jobs == {Idle}
        \cup [step : {"write"}, pn : Codes, what : Targets]
        \cup [step : {"readback"}]
        \cup [step : {"count"}, by : Workers, what : Stages, all : Nat]

TypeOK ==
    /\ DOMAIN rows \subseteq Codes
    /\ \A pn \in DOMAIN rows : rows[pn] \in Row
    /\ job \in [Stations -> Jobs]
    /\ nextPN \in [Stations -> Codes \cup {Unset}]
    /\ nextSN \in [Stations -> Codes \cup {Unset}]
    /\ asked \in [Stations -> [{"pn", "sn"} -> {"no", "new", "old"}]]
    /\ given \subseteq DOMAIN rows
    /\ tally \in [Stations -> [success : Nat, failed : Int]]
    /\ gained \in [Stations -> SUBSET DOMAIN rows]
    /\ crashed \subseteq Stations

Init ==
    /\ rows = [pn \in {} |-> Unset]
    /\ job = [s \in Stations |-> Idle]
    /\ nextPN = [s \in Stations |-> Unset]
    /\ nextSN = [s \in Stations |-> Unset]
    /\ asked = [s \in Stations |-> [what \in {"pn", "sn"} |-> "no"]]
    /\ given = {}
    /\ tally = [s \in Stations |-> [success |-> 0, failed |-> 0]]
    /\ gained = [s \in Stations |-> {}]
    /\ crashed = {}

-----------------------------------------------------------------------------
At(s, step) == s \notin crashed /\ job[s].step = step

Return(s) == job' = [job EXCEPT ![s] = Idle]
Then(s, next) == job' = [job EXCEPT ![s] = next]

\* The sequence numbers of a worker among a set of codes, and the next one.
SeqsOf(w, codes) == {c[2] : c \in {d \in codes \ {Unset} : d[1] = w}}

NextCodeMutant(w, codes) ==     \* mutant: counts instead of taking the maximum
    <<w, Cardinality(SeqsOf(w, codes))>>

NextCodeStaleMutant(w, codes) ==    \* mutant: the largest number, not the next
    LET seqs == SeqsOf(w, codes)
    IN  IF seqs = {} THEN <<w, 0>>
        ELSE <<w, CHOOSE n \in seqs : \A m \in seqs : m =< n>>

NextCode(w, codes) ==
    LET seqs == SeqsOf(w, codes)
    IN  IF seqs = {} THEN <<w, 0>>
        ELSE <<w, 1 + CHOOSE n \in seqs : \A m \in seqs : m =< n>>

SerialsIn == {rows[pn].sn : pn \in DOMAIN rows}

ExhaustedMutant(s, codes) == FALSE     \* mutant: no limit at 9999

\* After the last number of a worker the function prints a code one digit too
\* long into its buffer of 12, and sprintf_s ends the process: the number that
\* it compares with 9999 is the one that exists, not the next.
Exhausted(s, codes) == NextCode(WorkerOf[s], codes) \notin Codes

Asks(s, what, got) ==
    /\ At(s, "idle")
    /\ asked' = [asked EXCEPT ![s][what] = got]
    /\ UNCHANGED <<rows, job, given, tally, gained>>

\* get_next_valid_pn_by_worker.
NextPN(s) ==
    /\ Asks(s, "pn", "new")
    /\ IF Exhausted(s, DOMAIN rows)
       THEN crashed' = crashed \cup {s} /\ UNCHANGED nextPN
       ELSE /\ nextPN' = [nextPN EXCEPT ![s] = NextCode(WorkerOf[s], DOMAIN rows)]
            /\ UNCHANGED crashed
    /\ UNCHANGED nextSN

\* get_next_valid_sn_by_worker, the same on the SN column.
NextSN(s) ==
    /\ Asks(s, "sn", "new")
    /\ IF Exhausted(s, SerialsIn)
       THEN crashed' = crashed \cup {s} /\ UNCHANGED nextSN
       ELSE /\ nextSN' = [nextSN EXCEPT ![s] = NextCode(WorkerOf[s], SerialsIn)]
            /\ UNCHANGED crashed
    /\ UNCHANGED nextPN

\* When their query fails next_pn and next_sn stay as they are, and the callers
\* do not look at the result.
NextFails(s, what) ==
    /\ "next" \in QueryFaults
    /\ Asks(s, what, IF asked[s][what] = "new" THEN "new" ELSE "old")
    /\ UNCHANGED <<nextPN, nextSN, crashed>>

-----------------------------------------------------------------------------
\* The rows of a worker with given results in a stage.
RowsBy(w, stage, results) ==
    {pn \in DOMAIN rows : /\ rows[pn].stage[stage].by = w
                          /\ rows[pn].stage[stage].res \in results}

Passed(s) == RowsBy(job[s].by, job[s].what, {1})

\* What a change of the table adds to the passed rows of those who are counting.
Gains ==
    gained' = [s \in Stations |->
                  IF At(s, "count") THEN gained[s] \cup (Passed(s)' \ Passed(s))
                  ELSE gained[s]]

\* The row of an item that has the numbers last allocated: the PN is validated,
\* the SN is not, so that whatever digits the buffer next_sn holds go into it.
NewRow(s, columns) == [sn |-> nextSN[s], stage |-> columns]

\* insert_item: worker ids and results are those that the caller has put into the
\* item.  The primary key refuses a second row for a PN.
Insert(s) ==
    /\ At(s, "idle")
    /\ "no" \notin {asked[s].pn, asked[s].sn}
    /\ nextPN[s] # Unset
    /\ asked' = [asked EXCEPT ![s] = [what \in {"pn", "sn"} |-> "no"]]
    /\ \/ /\ nextPN[s] \notin DOMAIN rows
          /\ \E columns \in [Stages -> StageRow] :
                rows' = [pn \in DOMAIN rows \cup {nextPN[s]} |->
                          IF pn = nextPN[s] THEN NewRow(s, columns) ELSE rows[pn]]
          /\ given' = IF asked[s].sn = "new" THEN given \cup {nextPN[s]} ELSE given
          /\ Then(s, [step |-> "readback"])
          /\ Gains
       \/ /\ nextPN[s] \in DOMAIN rows \/ "write" \in QueryFaults
          /\ UNCHANGED <<rows, job, given, gained>>
    /\ UNCHANGED <<nextPN, nextSN, tally, crashed>>

\* The select at the head of update_item, update_sn_by_pn and update_<stage>.
SelectForUpdate(s, pn, what) ==
    /\ At(s, "idle")
    /\ pn \in DOMAIN rows
    /\ Then(s, [step |-> "write", pn |-> pn, what |-> what])
    /\ what = "sn" => asked[s].sn # "no" /\ nextSN[s] # Unset
    /\ UNCHANGED <<rows, nextPN, nextSN, asked, given, tally, gained, crashed>>

\* The stages whose columns an update assigns: one, all of them or none.
Updated(what) == IF what = "item" THEN Stages ELSE {what} \cap Stages

\* A stage gets the worker id and the result that the caller passes, and
\* update_sn_by_pn assigns the SN.
Written(s, row, what, columns) ==
    IF what = "sn" THEN [row EXCEPT !.sn = nextSN[s]]
    ELSE [row EXCEPT !.stage =
            [g \in Stages |-> IF g \in Updated(what) THEN columns[g] ELSE @[g]]]

\* The worker ids and results are any at all: the updates of a stage take the id
\* as a parameter, and nothing in update_item tells an item the caller has made
\* from one it read a while ago, with what others had written into the row.
Write(s) ==
    /\ At(s, "write")
    /\ LET j          == job[s]
           renumbered == IF j.what = "sn" THEN {j.pn} ELSE {}
       IN  /\ asked' = IF j.what = "sn" THEN [asked EXCEPT ![s].sn = "no"] ELSE asked
           /\ \/ /\ \E columns \in [Updated(j.what) -> StageRow] :
                      rows' = [rows EXCEPT ![j.pn] = Written(s, @, j.what, columns)]
                 /\ given' = IF asked[s].sn = "new" THEN given \cup renumbered
                             ELSE given \ renumbered
                 /\ Then(s, [step |-> "readback"])
                 /\ Gains
              \/ /\ "write" \in QueryFaults
                 /\ Return(s)
                 /\ UNCHANGED <<rows, given, gained>>
    /\ UNCHANGED <<nextPN, nextSN, tally, crashed>>

\* get_item_by_pn, the check at the end of every write.
ReadBack(s) ==
    /\ At(s, "readback")
    /\ Return(s)
    /\ UNCHANGED <<rows, nextPN, nextSN, asked, given, tally, gained, crashed>>

-----------------------------------------------------------------------------
FirstAskedMutant(stage) ==      \* mutant: both statements ask for passed rows
    IF stage = "bist" THEN -1 .. 1 ELSE {1}

\* What the first statement of a count asks for: in count_bist all rows of the
\* worker, in the others the failed ones.
FirstAsked(stage) == IF stage = "bist" THEN -1 .. 1 ELSE {0}

\* count_<stage> of any worker, first statement.  count_bist returns when there
\* is no row, the others store the failed ones.
CountFirst(s, w, stage) ==
    /\ At(s, "idle")
    /\ LET first == Cardinality(RowsBy(w, stage, FirstAsked(stage)))
           next  == [step |-> "count", by |-> w, what |-> stage, all |-> first]
       IN  IF stage = "bist"
           THEN \/ /\ first = 0
                   /\ tally' = [tally EXCEPT ![s] = [success |-> 0, failed |-> 0]]
                   /\ UNCHANGED job
                \/ first # 0 /\ Then(s, next) /\ UNCHANGED tally
           ELSE /\ tally' = [tally EXCEPT ![s].failed = first]
                /\ Then(s, [next EXCEPT !.all = 0])
    /\ UNCHANGED <<rows, nextPN, nextSN, asked, given, gained, crashed>>

\* Second statement: the passed rows, seen later than the others.
CountSecond(s) ==
    /\ At(s, "count")
    /\ LET passed == Cardinality(Passed(s))
       IN  tally' = [tally EXCEPT
              ![s] = [success |-> passed,
                      failed  |-> IF job[s].what = "bist" THEN job[s].all - passed
                                  ELSE @.failed]]

\* It fails: -1, with what the first statement has stored.
CountFails(s) == At(s, "count") /\ "count" \in QueryFaults /\ UNCHANGED tally

CountReturns(s) ==
    /\ CountSecond(s) \/ CountFails(s)
    /\ Return(s)
    /\ gained' = [gained EXCEPT ![s] = {}]
    /\ UNCHANGED <<rows, nextPN, nextSN, asked, given, crashed>>

Step(s) ==
    \/ NextPN(s) \/ NextSN(s)
    \/ \E what \in {"pn", "sn"} : NextFails(s, what)
    \/ Insert(s) \/ Write(s) \/ ReadBack(s)
    \/ CountReturns(s)
    \/ \E w \in Workers, stage \in Stages : CountFirst(s, w, stage)
    \/ \E pn \in Codes, what \in Targets : SelectForUpdate(s, pn, what)

Next == \E s \in Stations : Step(s)

Spec == Init /\ [][Next]_vars

-----------------------------------------------------------------------------
\* No two devices get the same SN from an allocation, although no key of the
\* table forbids it: the allocation reads the largest SN, and inserts, SN updates
\* and allocations of the other stations run before the row with the new one is
\* written.  Needs a worker id of its own for each station.  A row that got an
\* old SN, after an allocation that failed, may share it.
SerialsUnique ==
    \A pn, qn \in given : rows[pn].sn = rows[qn].sn => pn = qn

\* What a successful allocation returned stays free until it is used: the PN, so
\* that insert_item is not refused by the primary key, and the SN, whatever
\* failed before and since.
AllocatedStaysFree ==
    \A s \in Stations \ crashed :
        /\ asked[s].pn = "new" => nextPN[s] \notin DOMAIN rows
        /\ asked[s].sn = "new" => nextSN[s] \notin SerialsIn

\* A count that succeeds is off by no more than the rows that came to be passed
\* ones of the counted worker between its two statements: but for those no row is
\* counted twice, and with none of them no number of failed ones is negative.
\* It is what is left of one table, as any station may write any row meanwhile.
TallyAddsUp ==
    [][ \A s \in Stations : CountSecond(s) =>
          /\ tally'[s].failed >= -Cardinality(gained[s])
          /\ tally'[s].success + tally'[s].failed
                =< Cardinality(DOMAIN rows) + Cardinality(gained[s]) ]_vars

-----------------------------------------------------------------------------
\* "PN Overflow!" (database.cpp:351): when the numbers of a day are used up the
\* allocation says so and returns -1.
ExhaustionIsReported == crashed = {}
=============================================================================
