-------------------------- MODULE PartDatabaseProofs --------------------------
(***************************************************************************)
(* Serial numbers are given once, for any number of stations that have     *)
(* worker ids of their own, any range of numbers and any failing queries;  *)
(* and a count is off by no more than what was written while it ran.       *)
(***************************************************************************)
EXTENDS PartDatabase, SequenceLemmas, FiniteSetTheorems

\* No two stations have the worker id of the Config.ini in common.
OwnWorkers == \A s, t \in Stations : WorkerOf[s] = WorkerOf[t] => s = t

\* The table is a function, and an update has selected the row it writes.
RowsAreFunction == rows = [pn \in DOMAIN rows |-> rows[pn]]

WritesSelected ==
    \A s \in Stations :
        job[s].step = "write" =>
            /\ job[s].pn \in DOMAIN rows
            /\ job[s].what = "sn" => asked[s].sn # "no"

\* A station allocates only numbers of its worker, so that what the others write
\* cannot be the number it holds.
AllocatesOwn ==
    \A s \in Stations :
        /\ nextPN[s] # Unset => nextPN[s][1] = WorkerOf[s]
        /\ nextSN[s] # Unset => nextSN[s][1] = WorkerOf[s]

\* An allocation that succeeded did assign a number.
NewIsAssigned ==
    \A s \in Stations \ crashed :
        /\ asked[s].pn = "new" => nextPN[s] # Unset
        /\ asked[s].sn = "new" => nextSN[s] # Unset

TypeInv == TypeOK /\ RowsAreFunction

IInv ==
    /\ TypeInv
    /\ WritesSelected
    /\ AllocatesOwn
    /\ NewIsAssigned
    /\ OwnWorkers => AllocatedStaysFree /\ SerialsUnique

-----------------------------------------------------------------------------
LEMMA UnsetIsNoCode == Unset \notin Codes
  BY DatabaseAssumption DEF Codes

\* The allocation returns a number of the worker that is not there.
LEMMA NextCodeIsFree ==
    ASSUME NEW w \in Workers, NEW codes \in SUBSET (Codes \cup {Unset})
    PROVE  /\ NextCode(w, codes) \notin codes \ {Unset}
           /\ NextCode(w, codes)[1] = w
<1> DEFINE seqs == SeqsOf(w, codes)
<1>0. MaxSeq \in Nat
  BY DatabaseAssumption
<1>1. seqs \subseteq 0 .. MaxSeq
  BY DEF SeqsOf, Codes
<1>2. \A k : <<w, k>> \in codes \ {Unset} => k \in seqs
  BY DEF SeqsOf
<1>3. CASE seqs = {}
  <2>1. NextCode(w, codes) = <<w, 0>>
    BY <1>3 DEF NextCode
  <2> QED  BY <1>2, <1>3, <2>1
<1>4. CASE seqs # {}
  <2> DEFINE down == {MaxSeq - n : n \in seqs}
             isMax(n) == \A m \in seqs : m =< n
  <2>1. down \subseteq Nat /\ down # {}
    BY <1>0, <1>1, <1>4
  <2>2. PICK d \in down : \A e \in down : d =< e
    BY <2>1, HasLeast
  <2>3. PICK n \in seqs : d = MaxSeq - n
    OBVIOUS
  <2>4. isMax(n)
    <3> TAKE m \in seqs
    <3>1. MaxSeq - n =< MaxSeq - m
      BY <2>2, <2>3
    <3> QED  BY <1>0, <1>1, <3>1
  <2> DEFINE top == CHOOSE k \in seqs : isMax(k)
  <2>5. top \in seqs /\ isMax(top)
    BY <2>4
  <2>6. NextCode(w, codes) = <<w, 1 + top>>
    BY <1>4 DEF NextCode
  <2> HIDE DEF top, seqs
  <2>7. 1 + top \notin seqs
    BY <1>1, <2>5
  <2> QED  BY <1>2, <2>6, <2>7
<1> QED  BY <1>3, <1>4

\* The table is finite, so its rows can be counted.
LEMMA CodesFinite == IsFiniteSet(Codes)
<1>1. IsFiniteSet(Workers) /\ IsFiniteSet(0 .. MaxSeq)
  BY DatabaseAssumption, FS_Interval
<1> QED  BY <1>1, FS_Product DEF Codes

LEMMA CountIsNat ==
    ASSUME TypeOK, NEW w, NEW stage, NEW results
    PROVE  Cardinality(RowsBy(w, stage, results)) \in Nat
<1>1. RowsBy(w, stage, results) \subseteq Codes
  BY DEF RowsBy, TypeOK
<1> QED  BY <1>1, CodesFinite, FS_Subset, FS_CardinalityType

LEMMA WriteJob ==
    ASSUME TypeOK, NEW s \in Stations, job[s].step = "write"
    PROVE  job[s].pn \in Codes /\ job[s].what \in Targets
<1>1. job[s] \in Jobs
  BY DEF TypeOK
<1> QED  BY <1>1 DEF Jobs, Idle

LEMMA CountJob ==
    ASSUME TypeOK, NEW s \in Stations, job[s].step = "count"
    PROVE  job[s].by \in Workers /\ job[s].what \in Stages /\ job[s].all \in Nat
<1>1. job[s] \in Jobs
  BY DEF TypeOK
<1> QED  BY <1>1 DEF Jobs, Idle

LEMMA GainsAreRows ==
    ASSUME TypeOK, Gains, DOMAIN rows \subseteq DOMAIN rows'
    PROVE  gained' \in [Stations -> SUBSET DOMAIN rows']
<1>1. ASSUME NEW s \in Stations PROVE Passed(s)' \subseteq DOMAIN rows'
  BY DEF Passed, RowsBy
<1>2. ASSUME NEW s \in Stations PROVE gained[s] \subseteq DOMAIN rows'
  BY DEF TypeOK
<1> QED  BY <1>1, <1>2 DEF Gains

-----------------------------------------------------------------------------
THEOREM Initial == Init => IInv
<1> SUFFICES ASSUME Init PROVE IInv
  OBVIOUS
<1>1. DOMAIN rows = {}
  BY DEF Init
<1>2. TypeOK
  <2>1. Idle \in Jobs
    BY DEF Jobs
  <2> QED  BY <1>1, <2>1 DEF Init, TypeOK
<1>3. RowsAreFunction /\ SerialsUnique
  BY <1>1 DEF Init, RowsAreFunction, SerialsUnique
<1>4. WritesSelected /\ AllocatesOwn /\ NewIsAssigned /\ AllocatedStaysFree
  BY DEF Init, WritesSelected, AllocatesOwn, NewIsAssigned, AllocatedStaysFree, Idle
<1> QED  BY <1>2, <1>3, <1>4 DEF IInv, TypeInv

\* An allocation, of a PN or an SN, that succeeds, ends the process or fails.
LEMMA AllocationStep ==
    ASSUME IInv, NEW s \in Stations,
           NextPN(s) \/ NextSN(s) \/ \E what \in {"pn", "sn"} : NextFails(s, what)
    PROVE  IInv'
<1>0. /\ TypeOK /\ RowsAreFunction /\ WritesSelected /\ AllocatesOwn /\ NewIsAssigned
      /\ OwnWorkers => AllocatedStaysFree /\ SerialsUnique
  BY DEF IInv, TypeInv
<1>1. /\ UNCHANGED <<rows, job, given, tally, gained>>
      /\ s \notin crashed /\ job[s].step # "write"
  BY DEF NextPN, NextSN, NextFails, Asks, At
<1>2. DOMAIN rows \in SUBSET (Codes \cup {Unset}) /\ SerialsIn \in SUBSET (Codes \cup {Unset})
  BY <1>0 DEF TypeOK, SerialsIn, Row
<1>3. RowsAreFunction' /\ (OwnWorkers => SerialsUnique') /\ UNCHANGED SerialsIn
  BY <1>0, <1>1 DEF RowsAreFunction, SerialsUnique, SerialsIn
<1>4. WorkerOf[s] \in Workers
  BY DatabaseAssumption
<1>5. CASE NextPN(s)
  <2> DEFINE code == NextCode(WorkerOf[s], DOMAIN rows)
  <2>1. code \notin DOMAIN rows /\ code[1] = WorkerOf[s]
    BY <1>0, <1>2, <1>4, NextCodeIsFree, UnsetIsNoCode DEF TypeOK
  <2> HIDE DEF code
  <2>2. asked' = [asked EXCEPT ![s]["pn"] = "new"] /\ UNCHANGED nextSN
    BY <1>5 DEF NextPN, Asks
  <2>3. \/ crashed' = crashed \cup {s} /\ UNCHANGED nextPN
        \/ /\ code \in Codes /\ UNCHANGED crashed
           /\ nextPN' = [nextPN EXCEPT ![s] = code]
    BY <1>5 DEF NextPN, Exhausted, code
  <2>4. \A t \in Stations : asked'[t].sn = asked[t].sn
                              /\ (t # s => asked'[t] = asked[t])
    BY <1>0, <2>2 DEF TypeOK
  <2>5. TypeOK'
    BY <1>0, <1>1, <2>2, <2>3 DEF TypeOK
  <2>6. WritesSelected'
    BY <1>0, <1>1, <2>4 DEF WritesSelected
  <2>7. AllocatesOwn'
    BY <1>0, <2>1, <2>2, <2>3 DEF AllocatesOwn, TypeOK
  <2>8. NewIsAssigned' /\ (OwnWorkers => AllocatedStaysFree')
    BY <1>0, <1>1, <1>3, <2>1, <2>2, <2>3, <2>4, UnsetIsNoCode
       DEF NewIsAssigned, AllocatedStaysFree, TypeOK
  <2> QED  BY <1>3, <2>5, <2>6, <2>7, <2>8 DEF IInv, TypeInv
<1>6. CASE NextSN(s)
  <2> DEFINE code == NextCode(WorkerOf[s], SerialsIn)
  <2>1. (code \in Codes => code \notin SerialsIn) /\ code[1] = WorkerOf[s]
    BY <1>2, <1>4, NextCodeIsFree, UnsetIsNoCode
  <2> HIDE DEF code
  <2>2. asked' = [asked EXCEPT ![s]["sn"] = "new"] /\ UNCHANGED nextPN
    BY <1>6 DEF NextSN, Asks
  <2>3. \/ crashed' = crashed \cup {s} /\ UNCHANGED nextSN
        \/ /\ code \in Codes /\ UNCHANGED crashed
           /\ nextSN' = [nextSN EXCEPT ![s] = code]
    BY <1>6 DEF NextSN, Exhausted, code
  <2>4. \A t \in Stations : asked'[t].pn = asked[t].pn
                              /\ (t # s => asked'[t] = asked[t])
    BY <1>0, <2>2 DEF TypeOK
  <2>5. TypeOK'
    BY <1>0, <1>1, <2>2, <2>3 DEF TypeOK
  <2>6. WritesSelected'
    BY <1>0, <1>1, <2>4 DEF WritesSelected
  <2>7. AllocatesOwn'
    BY <1>0, <2>1, <2>2, <2>3 DEF AllocatesOwn, TypeOK
  <2>8. NewIsAssigned' /\ (OwnWorkers => AllocatedStaysFree')
    BY <1>0, <1>1, <1>3, <2>1, <2>2, <2>3, <2>4, UnsetIsNoCode
       DEF NewIsAssigned, AllocatedStaysFree, TypeOK
  <2> QED  BY <1>3, <2>5, <2>6, <2>7, <2>8 DEF IInv, TypeInv
<1>7. ASSUME NEW what \in {"pn", "sn"}, NextFails(s, what) PROVE IInv'
  <2>1. /\ asked' = [asked EXCEPT ![s][what] =
                        IF asked[s][what] = "new" THEN "new" ELSE "old"]
        /\ UNCHANGED <<nextPN, nextSN, crashed>>
    BY <1>7 DEF NextFails, Asks
  <2>2. TypeOK'
    BY <1>0, <1>1, <2>1 DEF TypeOK
  <2>3. \A t \in Stations :
            /\ asked'[t].sn = "new" <=> asked[t].sn = "new"
            /\ asked'[t].pn = "new" <=> asked[t].pn = "new"
            /\ t # s => asked'[t] = asked[t]
    BY <1>0, <2>1 DEF TypeOK
  <2>4. WritesSelected'
    BY <1>0, <1>1, <2>3 DEF WritesSelected
  <2>5. AllocatesOwn' /\ NewIsAssigned' /\ (OwnWorkers => AllocatedStaysFree')
    BY <1>0, <1>1, <1>3, <2>1, <2>3 DEF AllocatesOwn, NewIsAssigned, AllocatedStaysFree
  <2> QED  BY <1>3, <2>2, <2>4, <2>5 DEF IInv, TypeInv
<1> QED  BY <1>5, <1>6, <1>7

\* A row is written under a PN that had none; its SN, if it is new, is in no
\* other row, and is not the one another station holds.
LEMMA InsertStep == ASSUME IInv, NEW s \in Stations, Insert(s) PROVE IInv'
<1> DEFINE pn == nextPN[s]
           row(columns) == NewRow(s, columns)
<1>0. /\ TypeOK /\ RowsAreFunction /\ WritesSelected /\ AllocatesOwn /\ NewIsAssigned
      /\ OwnWorkers => AllocatedStaysFree /\ SerialsUnique
  BY DEF IInv, TypeInv
<1>1. /\ asked' = [asked EXCEPT ![s] = [what \in {"pn", "sn"} |-> "no"]]
      /\ UNCHANGED <<nextPN, nextSN, tally, crashed>>
      /\ s \notin crashed /\ job[s].step # "write" /\ pn \in Codes
  BY <1>0 DEF Insert, At, TypeOK
<1>2. \A t \in Stations : IF t = s THEN asked'[t].pn = "no" /\ asked'[t].sn = "no"
                                   ELSE asked'[t] = asked[t]
  BY <1>0, <1>1 DEF TypeOK
<1>3. asked' \in [Stations -> [{"pn", "sn"} -> {"no", "new", "old"}]]
  BY <1>0, <1>1 DEF TypeOK
<1>4. AllocatesOwn' /\ NewIsAssigned'
  BY <1>0, <1>1, <1>2 DEF AllocatesOwn, NewIsAssigned
<1>5. CASE UNCHANGED <<rows, job, given, gained>>
  <2>1. TypeOK' /\ RowsAreFunction' /\ (OwnWorkers => SerialsUnique') /\ UNCHANGED SerialsIn
    BY <1>0, <1>1, <1>3, <1>5 DEF TypeOK, RowsAreFunction, SerialsUnique, SerialsIn
  <2>2. WritesSelected'
    BY <1>0, <1>1, <1>2, <1>5 DEF WritesSelected
  <2>3. OwnWorkers => AllocatedStaysFree'
    BY <1>0, <1>1, <1>2, <1>5, <2>1 DEF AllocatedStaysFree
  <2> QED  BY <1>4, <2>1, <2>2, <2>3 DEF IInv, TypeInv
<1>6. ASSUME NEW columns \in [Stages -> StageRow],
             /\ pn \notin DOMAIN rows
             /\ rows' = [qn \in DOMAIN rows \cup {pn} |->
                            IF qn = pn THEN row(columns) ELSE rows[qn]]
             /\ given' = IF asked[s].sn = "new" THEN given \cup {pn} ELSE given
             /\ job' = [job EXCEPT ![s] = [step |-> "readback"]]
             /\ Gains
      PROVE  IInv'
  <2>1. row(columns).sn = nextSN[s] /\ row(columns) \in Row
    BY <1>0 DEF NewRow, Row, TypeOK
  <2> HIDE DEF row, pn
  <2>2. /\ DOMAIN rows' = DOMAIN rows \cup {pn} /\ rows'[pn] = row(columns)
        /\ \A qn \in DOMAIN rows : rows'[qn] = rows[qn]
    BY <1>6
  <2>3. SerialsIn' = SerialsIn \cup {nextSN[s]}
    BY <2>1, <2>2 DEF SerialsIn
  <2>4. TypeOK'
    <3>1. [step |-> "readback"] \in Jobs
      BY DEF Jobs
    <3>2. gained' \in [Stations -> SUBSET DOMAIN rows']
      BY <1>0, <1>6, <2>2, GainsAreRows
    <3> QED  BY <1>0, <1>1, <1>3, <1>6, <2>1, <2>2, <3>1, <3>2 DEF TypeOK
  <2>5. RowsAreFunction'
    BY <1>6, <2>2 DEF RowsAreFunction
  <2>6. WritesSelected'
    BY <1>0, <1>2, <1>6, <2>2 DEF WritesSelected, TypeOK
  <2>7. ASSUME OwnWorkers PROVE AllocatedStaysFree'
    <3> USE <2>7
    <3> SUFFICES ASSUME NEW t \in Stations \ crashed, t # s
                 PROVE  /\ asked[t].pn = "new" => nextPN[t] \notin DOMAIN rows \cup {pn}
                        /\ asked[t].sn = "new" => nextSN[t] \notin SerialsIn \cup {nextSN[s]}
      BY <1>1, <1>2, <2>2, <2>3 DEF AllocatedStaysFree
    <3>1. WorkerOf[t] # WorkerOf[s]
      BY DEF OwnWorkers
    <3>2. asked[t].pn = "new" => nextPN[t] # pn
      BY <1>0, <1>1, <3>1, UnsetIsNoCode DEF AllocatesOwn, NewIsAssigned, pn
    <3>3. asked[t].sn = "new" => nextSN[t] # nextSN[s]
      BY <1>0, <3>1 DEF AllocatesOwn, NewIsAssigned
    <3> QED  BY <1>0, <3>2, <3>3 DEF AllocatedStaysFree
  <2>8. ASSUME OwnWorkers PROVE SerialsUnique'
    <3> USE <2>8
    <3>1. CASE asked[s].sn = "new"
      <4>1. nextSN[s] \notin SerialsIn
        BY <1>0, <1>1, <3>1 DEF AllocatedStaysFree
      <4>2. given' = given \cup {pn} /\ given \subseteq DOMAIN rows
        BY <1>0, <1>6, <3>1 DEF TypeOK
      <4>3. \A qn \in given : rows'[qn] = rows[qn] /\ rows[qn].sn # rows'[pn].sn
        BY <2>1, <2>2, <4>1, <4>2 DEF SerialsIn
      <4> QED  BY <1>0, <4>2, <4>3 DEF SerialsUnique
    <3>2. CASE asked[s].sn # "new"
      BY <1>0, <1>6, <2>2, <3>2 DEF SerialsUnique, TypeOK
    <3> QED  BY <3>1, <3>2
  <2> QED  BY <1>4, <2>4, <2>5, <2>6, <2>7, <2>8 DEF IInv, TypeInv
<1> QED  BY <1>5, <1>6 DEF Insert, Then

\* An update that writes: what it writes into the SN column is the number the
\* station holds.
LEMMA WriteStep == ASSUME IInv, NEW s \in Stations, Write(s) PROVE IInv'
<1> DEFINE j == job[s]
           row(columns) == Written(s, rows[j.pn], j.what, columns)
<1>0. /\ TypeOK /\ RowsAreFunction /\ WritesSelected /\ AllocatesOwn /\ NewIsAssigned
      /\ OwnWorkers => AllocatedStaysFree /\ SerialsUnique
  BY DEF IInv, TypeInv
<1>1. /\ s \notin crashed /\ j.step = "write"
      /\ asked' = IF j.what = "sn" THEN [asked EXCEPT ![s].sn = "no"] ELSE asked
      /\ UNCHANGED <<nextPN, nextSN, tally, crashed>>
  BY DEF Write, At
<1>2. /\ j.pn \in Codes /\ j.what \in Targets
      /\ j.pn \in DOMAIN rows
  BY <1>0, <1>1, WriteJob DEF WritesSelected
<1>3. /\ asked' \in [Stations -> [{"pn", "sn"} -> {"no", "new", "old"}]]
      /\ \A t \in Stations :
            /\ t # s => asked'[t] = asked[t]
            /\ asked'[t].pn = asked[t].pn
            /\ asked'[t].sn = "new" => asked[t].sn = "new"
      /\ j.what = "sn" => asked'[s].sn = "no"
  BY <1>0, <1>1 DEF TypeOK
<1>4. AllocatesOwn' /\ NewIsAssigned'
  BY <1>0, <1>1, <1>3 DEF AllocatesOwn, NewIsAssigned
<1>5. CASE job' = [job EXCEPT ![s] = Idle] /\ UNCHANGED <<rows, given, gained>>
  <2>1. TypeOK' /\ RowsAreFunction' /\ (OwnWorkers => SerialsUnique') /\ UNCHANGED SerialsIn
    <3>1. Idle \in Jobs
      BY DEF Jobs
    <3> QED
      BY <1>0, <1>1, <1>3, <1>5, <3>1 DEF TypeOK, RowsAreFunction, SerialsUnique, SerialsIn
  <2>2. WritesSelected'
    BY <1>0, <1>3, <1>5 DEF WritesSelected, Idle, TypeOK
  <2>3. OwnWorkers => AllocatedStaysFree'
    BY <1>0, <1>1, <1>3, <1>5, <2>1 DEF AllocatedStaysFree
  <2> QED  BY <1>4, <2>1, <2>2, <2>3 DEF IInv, TypeInv
<1>6. ASSUME NEW columns \in [Updated(j.what) -> StageRow],
             /\ rows' = [rows EXCEPT ![j.pn] = row(columns)]
             /\ given' = IF asked[s].sn = "new"
                         THEN given \cup (IF j.what = "sn" THEN {j.pn} ELSE {})
                         ELSE given \ (IF j.what = "sn" THEN {j.pn} ELSE {})
             /\ job' = [job EXCEPT ![s] = [step |-> "readback"]]
             /\ Gains
      PROVE  IInv'
  <2>0. rows[j.pn] \in Row /\ nextSN[s] \in Codes \cup {Unset}
    BY <1>0, <1>2 DEF TypeOK
  <2>1. /\ row(columns) \in Row
        /\ row(columns).sn = IF j.what = "sn" THEN nextSN[s] ELSE rows[j.pn].sn
    <3>1. CASE j.what = "sn"
      BY <2>0, <3>1 DEF Written, Row
    <3>2. CASE j.what # "sn"
      <4> DEFINE stage == [g \in Stages |-> IF g \in Updated(j.what) THEN columns[g]
                                            ELSE rows[j.pn].stage[g]]
      <4>1. row(columns) = [rows[j.pn] EXCEPT !.stage = stage]
        BY <3>2 DEF Written
      <4>2. stage \in [Stages -> StageRow]
        BY <2>0 DEF Row
      <4> HIDE DEF stage
      <4> QED  BY <2>0, <3>2, <4>1, <4>2 DEF Row
    <3> QED  BY <3>1, <3>2
  <2> HIDE DEF row, j
  <2>2. /\ DOMAIN rows' = DOMAIN rows /\ rows'[j.pn] = row(columns)
        /\ \A qn \in DOMAIN rows : qn # j.pn => rows'[qn] = rows[qn]
        /\ RowsAreFunction'
    BY <1>0, <1>2, <1>6 DEF RowsAreFunction
  <2>3. given' \subseteq DOMAIN rows'
    BY <1>0, <1>2, <1>6, <2>2 DEF TypeOK
  <2>4. TypeOK'
    <3>1. [step |-> "readback"] \in Jobs
      BY DEF Jobs
    <3>2. gained' \in [Stations -> SUBSET DOMAIN rows']
      BY <1>0, <1>6, <2>2, GainsAreRows
    <3> QED  BY <1>0, <1>1, <1>3, <1>6, <2>1, <2>2, <2>3, <3>1, <3>2 DEF TypeOK
  <2>5. WritesSelected'
    BY <1>0, <1>3, <1>6, <2>2 DEF WritesSelected, TypeOK
  <2>6. SerialsIn' \subseteq SerialsIn \cup (IF j.what = "sn" THEN {nextSN[s]} ELSE {})
    BY <1>2, <2>1, <2>2 DEF SerialsIn
  <2>7. ASSUME OwnWorkers PROVE AllocatedStaysFree'
    <3> USE <2>7
    <3> SUFFICES ASSUME NEW t \in Stations \ crashed, asked'[t].sn = "new"
                 PROVE  nextSN[t] \notin SerialsIn'
      BY <1>0, <1>1, <1>3, <2>2 DEF AllocatedStaysFree
    <3>1. asked[t].sn = "new" /\ nextSN[t] \notin SerialsIn /\ nextSN[t] # Unset
      BY <1>0, <1>3 DEF AllocatedStaysFree, NewIsAssigned
    <3>2. j.what = "sn" => nextSN[t] # nextSN[s]
      <4> HAVE j.what = "sn"
      <4>1. t # s
        BY <1>3
      <4>2. WorkerOf[t] # WorkerOf[s]
        BY <4>1 DEF OwnWorkers
      <4> QED  BY <1>0, <3>1, <4>2 DEF AllocatesOwn
    <3> QED  BY <2>6, <3>1, <3>2
  <2>8. ASSUME OwnWorkers PROVE SerialsUnique'
    <3> USE <2>8
    <3>1. CASE j.what # "sn"
      <4>1. \A qn \in DOMAIN rows : rows'[qn].sn = rows[qn].sn
        BY <2>1, <2>2, <3>1
      <4>2. given' = given /\ given \subseteq DOMAIN rows
        BY <1>0, <1>6, <3>1 DEF TypeOK
      <4> QED  BY <1>0, <4>1, <4>2 DEF SerialsUnique
    <3>2. CASE j.what = "sn" /\ asked[s].sn = "new"
      <4>1. nextSN[s] \notin SerialsIn /\ rows'[j.pn].sn = nextSN[s]
        BY <1>0, <1>1, <2>1, <2>2, <3>2 DEF AllocatedStaysFree
      <4>2. \A qn \in given \ {j.pn} :
                rows'[qn] = rows[qn] /\ rows[qn].sn # rows'[j.pn].sn
        BY <1>0, <2>2, <4>1 DEF SerialsIn, TypeOK
      <4>3. given' = given \cup {j.pn}
        BY <1>6, <3>2
      <4> QED  BY <1>0, <4>2, <4>3 DEF SerialsUnique
    <3>3. CASE j.what = "sn" /\ asked[s].sn # "new"
      <4>1. given' = given \ {j.pn}
        BY <1>6, <3>3
      <4> QED  BY <1>0, <2>2, <4>1 DEF SerialsUnique, TypeOK
    <3> QED  BY <3>1, <3>2, <3>3
  <2> QED  BY <1>4, <2>2, <2>4, <2>5, <2>7, <2>8 DEF IInv, TypeInv
<1> QED  BY <1>5, <1>6 DEF Write, Then, Return

\* What the two statements of a count do to the results and to what is left to do.
LEMMA CountBegun ==
    ASSUME NEW s \in Stations, NEW w, NEW stage, CountFirst(s, w, stage)
    PROVE  LET first   == Cardinality(RowsBy(w, stage, FirstAsked(stage)))
               next(n) == [step |-> "count", by |-> w, what |-> stage, all |-> n]
           IN  /\ UNCHANGED <<rows, crashed, gained>> /\ s \notin crashed
               /\ job[s].step = "idle"
               /\ \/ /\ tally' = [tally EXCEPT ![s] = [success |-> 0, failed |-> 0]]
                     /\ UNCHANGED job
                  \/ /\ stage = "bist" /\ UNCHANGED tally
                     /\ job' = [job EXCEPT ![s] = next(first)]
                  \/ /\ stage # "bist" /\ tally' = [tally EXCEPT ![s].failed = first]
                     /\ job' = [job EXCEPT ![s] = next(0)]
  BY DEF CountFirst, Then, At

LEMMA CountReturned ==
    ASSUME TypeOK, NEW s \in Stations, CountSecond(s)
    PROVE  /\ tally' \in [Stations -> [success : Nat, failed : Int]]
           /\ tally'[s].success = Cardinality(Passed(s))
           /\ tally'[s].failed = IF job[s].what = "bist"
                                 THEN job[s].all - Cardinality(Passed(s))
                                 ELSE tally[s].failed
<1> DEFINE passed == Cardinality(Passed(s))
           failed == IF job[s].what = "bist" THEN job[s].all - passed ELSE tally[s].failed
<1>1. tally' = [tally EXCEPT ![s] = [success |-> passed, failed |-> failed]]
  BY DEF CountSecond
<1>2. passed \in Nat
  BY CountIsNat DEF Passed
<1>3. failed \in Int
  <2>1. job[s].all \in Nat
    BY CountJob DEF CountSecond, At
  <2>2. tally[s].failed \in Int
    BY DEF TypeOK
  <2> HIDE DEF passed
  <2> QED  BY <1>2, <2>1, <2>2
<1> HIDE DEF passed, failed
<1>4. /\ tally' \in [Stations -> [success : Nat, failed : Int]]
      /\ tally'[s].success = passed /\ tally'[s].failed = failed
  BY <1>1, <1>2, <1>3 DEF TypeOK
<1> QED  BY <1>4 DEF passed, failed

\* The steps of a function that only read: the select before an update, the
\* read-back after a write, the counts.
LEMMA ReadingStep ==
    ASSUME IInv, NEW s \in Stations,
           \/ \E pn \in Codes, what \in Targets : SelectForUpdate(s, pn, what)
           \/ ReadBack(s) \/ CountReturns(s)
           \/ \E w \in Workers, stage \in Stages : CountFirst(s, w, stage)
    PROVE  IInv'
<1>0. /\ TypeOK /\ RowsAreFunction /\ WritesSelected /\ AllocatesOwn /\ NewIsAssigned
      /\ OwnWorkers => AllocatedStaysFree /\ SerialsUnique
  BY DEF IInv, TypeInv
<1>1. UNCHANGED <<rows, nextPN, nextSN, asked, given, crashed>>
  BY DEF SelectForUpdate, ReadBack, CountReturns, CountFirst
<1>2. /\ RowsAreFunction' /\ AllocatesOwn' /\ NewIsAssigned'
      /\ OwnWorkers => AllocatedStaysFree' /\ SerialsUnique'
  BY <1>0, <1>1 DEF RowsAreFunction, AllocatesOwn, NewIsAssigned, AllocatedStaysFree,
     SerialsUnique, SerialsIn
<1>3. ASSUME NEW next \in Jobs, job' = [job EXCEPT ![s] = next] \/ UNCHANGED job,
             tally' \in [Stations -> [success : Nat, failed : Int]],
             UNCHANGED gained \/ gained' = [gained EXCEPT ![s] = {}],
             next.step = "write" => /\ next.pn \in DOMAIN rows
                                    /\ next.what = "sn" => asked[s].sn # "no"
      PROVE  IInv'
  <2>1. job \in [Stations -> Jobs] /\ gained \in [Stations -> SUBSET DOMAIN rows]
    BY <1>0 DEF TypeOK
  <2>2. job' \in [Stations -> Jobs] /\ (\A t \in Stations \ {s} : job'[t] = job[t])
    BY <1>3, <2>1
  <2>3. gained' \in [Stations -> SUBSET DOMAIN rows']
    BY <1>1, <1>3, <2>1
  <2>4. TypeOK'
    BY <1>0, <1>1, <1>3, <2>2, <2>3 DEF TypeOK
  <2>5. WritesSelected'
    BY <1>0, <1>1, <1>3, <2>1, <2>2 DEF WritesSelected
  <2> QED  BY <1>2, <2>4, <2>5 DEF IInv, TypeInv
<1>4. Idle \in Jobs /\ Idle.step # "write"
  BY DEF Jobs, Idle
<1>5. ASSUME NEW pn \in Codes, NEW what \in Targets, SelectForUpdate(s, pn, what)
      PROVE  IInv'
  <2> DEFINE next == [step |-> "write", pn |-> pn, what |-> what]
  <2>1. /\ job' = [job EXCEPT ![s] = next] /\ UNCHANGED <<tally, gained>>
        /\ pn \in DOMAIN rows /\ (what = "sn" => asked[s].sn # "no")
    BY <1>5 DEF SelectForUpdate, Then
  <2>2. next \in Jobs /\ next.pn = pn /\ next.what = what
    BY DEF Jobs
  <2>3. tally' \in [Stations -> [success : Nat, failed : Int]]
    BY <1>0, <2>1 DEF TypeOK
  <2> HIDE DEF next
  <2> QED  BY <1>3, <2>1, <2>2, <2>3
<1>6. CASE ReadBack(s)
  <2>1. job' = [job EXCEPT ![s] = Idle] /\ UNCHANGED <<tally, gained>>
    BY <1>6 DEF ReadBack, Return
  <2>2. tally' \in [Stations -> [success : Nat, failed : Int]]
    BY <1>0, <2>1 DEF TypeOK
  <2> QED  BY <1>3, <1>4, <2>1, <2>2
<1>7. CASE CountReturns(s)
  <2>1. job' = [job EXCEPT ![s] = Idle] /\ gained' = [gained EXCEPT ![s] = {}]
    BY <1>7 DEF CountReturns, Return
  <2>2. job[s].step = "count"
    BY <1>7 DEF CountReturns, CountSecond, CountFails, At
  <2>3. tally' \in [Stations -> [success : Nat, failed : Int]]
    BY <1>0, <1>7, <2>2, CountReturned DEF TypeOK, CountReturns, CountFails
  <2> QED  BY <1>3, <1>4, <2>1, <2>3
<1>8. ASSUME NEW w \in Workers, NEW stage \in Stages, CountFirst(s, w, stage) PROVE IInv'
  <2> DEFINE first   == Cardinality(RowsBy(w, stage, FirstAsked(stage)))
             next(n) == [step |-> "count", by |-> w, what |-> stage, all |-> n]
  <2>1. first \in Nat
    BY <1>0, CountIsNat
  <2>2. /\ \/ UNCHANGED tally
           \/ tally' = [tally EXCEPT ![s] = [success |-> 0, failed |-> 0]]
           \/ tally' = [tally EXCEPT ![s].failed = first]
        /\ UNCHANGED job \/ job' = [job EXCEPT ![s] = next(first)]
                         \/ job' = [job EXCEPT ![s] = next(0)]
        /\ UNCHANGED gained
    BY <1>8, CountBegun
  <2>3. \A n \in Nat : next(n) \in Jobs /\ next(n).step # "write"
    BY DEF Jobs
  <2> HIDE DEF first, next
  <2>4. tally' \in [Stations -> [success : Nat, failed : Int]]
    <3>1. tally \in [Stations -> [success : Nat, failed : Int]]
      BY <1>0 DEF TypeOK
    <3>2. CASE UNCHANGED tally
      BY <3>1, <3>2
    <3>3. CASE tally' = [tally EXCEPT ![s] = [success |-> 0, failed |-> 0]]
      BY <3>1, <3>3
    <3>4. CASE tally' = [tally EXCEPT ![s].failed = first]
      <4>1. tally[s] \in [success : Nat, failed : Int]
        BY <3>1
      <4>2. [tally[s] EXCEPT !.failed = first] \in [success : Nat, failed : Int]
        BY <4>1, <2>1
      <4>3. tally' = [tally EXCEPT ![s] = [tally[s] EXCEPT !.failed = first]]
        BY <3>4
      <4> QED  BY <3>1, <4>2, <4>3
    <3> QED  BY <2>2, <3>2, <3>3, <3>4
  <2> QED  BY <1>3, <1>4, <2>1, <2>2, <2>3, <2>4
<1> QED  BY <1>5, <1>6, <1>7, <1>8

-----------------------------------------------------------------------------
LEMMA Invariance == Spec => []IInv
<1>1. ASSUME IInv, [Next]_vars PROVE IInv'
  <2>1. ASSUME NEW s \in Stations, Step(s) PROVE IInv'
    <3>1. CASE NextPN(s) \/ NextSN(s) \/ \E what \in {"pn", "sn"} : NextFails(s, what)
      BY <1>1, <3>1, AllocationStep
    <3>2. CASE Insert(s)
      BY <1>1, <3>2, InsertStep
    <3>3. CASE Write(s)
      BY <1>1, <3>3, WriteStep
    <3>4. CASE \/ ReadBack(s) \/ CountReturns(s)
               \/ \E w \in Workers, stage \in Stages : CountFirst(s, w, stage)
               \/ \E pn \in Codes, what \in Targets : SelectForUpdate(s, pn, what)
      BY <1>1, <3>4, ReadingStep
    <3> QED  BY <2>1, <3>1, <3>2, <3>3, <3>4 DEF Step
  <2>2. CASE UNCHANGED vars
    BY <1>1, <2>2
       DEF vars, IInv, TypeInv, TypeOK, RowsAreFunction, WritesSelected, AllocatesOwn,
           NewIsAssigned, AllocatedStaysFree, SerialsUnique, SerialsIn
  <2> QED  BY <1>1, <2>1, <2>2 DEF Next
<1> QED  BY Initial, <1>1, PTL DEF Spec

\* Every row is one, every count a number, and nobody updates a row that is not
\* there.
THEOREM TypeCorrect == Spec => []TypeOK
<1>1. IInv => TypeOK
  BY DEF IInv, TypeInv
<1> QED  BY Invariance, <1>1, PTL

\* No two rows whose SN came out of an allocation that succeeded share it.
THEOREM SerialsGivenOnce == ASSUME OwnWorkers PROVE Spec => []SerialsUnique
<1>1. IInv => SerialsUnique
  BY DEF IInv
<1> QED  BY Invariance, <1>1, PTL

\* The numbers that a station has allocated and not used are in no row.
THEOREM AllocationHolds == ASSUME OwnWorkers PROVE Spec => []AllocatedStaysFree
<1>1. IInv => AllocatedStaysFree
  BY DEF IInv
<1> QED  BY Invariance, <1>1, PTL

-----------------------------------------------------------------------------
\* The passed rows that a count will see were passed ones at its first statement
\* or came to be so since.
Old(s) == Passed(s) \ gained[s]

\* What a station has counted is right with those that were.
Counting(s) ==
    IF job[s].what = "bist"
    THEN Cardinality(Old(s)) =< job[s].all /\ job[s].all =< Cardinality(DOMAIN rows)
    ELSE /\ tally[s].failed >= 0
         /\ tally[s].failed + Cardinality(Old(s)) =< Cardinality(DOMAIN rows)

TallyInv ==
    \A s \in Stations : job[s].step = "count" => s \notin crashed /\ Counting(s)

LEMMA RowsCounted ==
    ASSUME TypeOK
    PROVE  /\ IsFiniteSet(DOMAIN rows) /\ Cardinality(DOMAIN rows) \in Nat
           /\ \A part \in SUBSET DOMAIN rows :
                 /\ IsFiniteSet(part) /\ Cardinality(part) \in Nat
                 /\ Cardinality(part) =< Cardinality(DOMAIN rows)
<1>1. IsFiniteSet(DOMAIN rows)
  BY CodesFinite, FS_Subset DEF TypeOK
<1> QED  BY <1>1, FS_Subset, FS_CardinalityType

\* The rows of a worker are among those of the table, and no row failed and
\* passed.
LEMMA RowsAdded ==
    ASSUME TypeOK, NEW w, NEW stage, NEW old \in SUBSET RowsBy(w, stage, {1})
    PROVE  LET all    == RowsBy(w, stage, -1 .. 1)
               failed == RowsBy(w, stage, {0})
           IN  /\ Cardinality(old) =< Cardinality(all)
               /\ Cardinality(all) =< Cardinality(DOMAIN rows)
               /\ Cardinality(failed) + Cardinality(old) =< Cardinality(DOMAIN rows)
<1> DEFINE all    == RowsBy(w, stage, -1 .. 1)
           failed == RowsBy(w, stage, {0})
<1>1. /\ old \subseteq all /\ all \subseteq DOMAIN rows
      /\ failed \cup old \subseteq DOMAIN rows /\ failed \cap old = {}
  BY DEF RowsBy
<1> HIDE DEF all, failed
<1>2. IsFiniteSet(all) /\ IsFiniteSet(failed) /\ IsFiniteSet(old)
  BY <1>1, RowsCounted, FS_Subset
<1>3. /\ Cardinality(old) =< Cardinality(all)
      /\ Cardinality(all) =< Cardinality(DOMAIN rows)
      /\ Cardinality(failed \cup old) =< Cardinality(DOMAIN rows)
  BY <1>1, <1>2, RowsCounted, FS_Subset
<1>4. Cardinality(failed \cup old) = Cardinality(failed) + Cardinality(old)
  <2>1. /\ Cardinality(failed) \in Nat /\ Cardinality(old) \in Nat
        /\ Cardinality(failed \cap old) = 0
    BY <1>1, <1>2, FS_CardinalityType, FS_EmptySet
  <2>2. Cardinality(failed \cup old)
            = Cardinality(failed) + Cardinality(old) - Cardinality(failed \cap old)
    BY <1>2, FS_Union
  <2> QED  BY <2>1, <2>2
<1> QED  BY <1>3, <1>4 DEF all, failed

\* What the second statement sees is no more than the old rows and the gained.
LEMMA PassedBound ==
    ASSUME TypeOK, NEW s \in Stations
    PROVE  /\ Cardinality(Passed(s)) \in Nat /\ Cardinality(Old(s)) \in Nat
           /\ Cardinality(gained[s]) \in Nat
           /\ Cardinality(Passed(s)) =< Cardinality(Old(s)) + Cardinality(gained[s])
<1> DEFINE passed == Passed(s)
           old    == Old(s)
           new    == gained[s]
<1>1. /\ passed \subseteq DOMAIN rows /\ new \subseteq DOMAIN rows
      /\ old \subseteq passed /\ passed \subseteq old \cup new /\ old \cap new = {}
  BY DEF Passed, RowsBy, Old, TypeOK
<1> HIDE DEF passed, old, new
<1>2. IsFiniteSet(passed) /\ IsFiniteSet(old) /\ IsFiniteSet(new)
  BY <1>1, RowsCounted, FS_Subset
<1>3. /\ IsFiniteSet(old \cup new)
      /\ Cardinality(old \cup new)
            = Cardinality(old) + Cardinality(new) - Cardinality(old \cap new)
  BY <1>2, FS_Union
<1>4. Cardinality(passed) =< Cardinality(old \cup new)
  BY <1>1, <1>3, FS_Subset
<1>5. /\ Cardinality(passed) \in Nat /\ Cardinality(old) \in Nat
      /\ Cardinality(new) \in Nat /\ Cardinality(old \cap new) = 0
  BY <1>1, <1>2, FS_CardinalityType, FS_EmptySet
<1> QED  BY <1>3, <1>4, <1>5 DEF passed, old, new

\* The table changes under a count: a row that is passed only now is gained.
LEMMA CountsKept ==
    ASSUME TypeOK, TypeOK', TallyInv,
           NEW s \in Stations, job'[s].step # "count",
           \A t \in Stations \ {s} : job'[t] = job[t] /\ tally'[t] = tally[t],
           crashed' \subseteq crashed \cup {s}, DOMAIN rows \subseteq DOMAIN rows',
           \A t \in Stations \ {s} : At(t, "count") => Old(t)' \subseteq Old(t)
    PROVE  TallyInv'
<1>1. SUFFICES ASSUME NEW t \in Stations, job'[t].step = "count"
               PROVE  t \notin crashed' /\ Counting(t)'
  BY DEF TallyInv
<1>2. /\ t # s /\ job'[t] = job[t] /\ tally'[t] = tally[t]
      /\ t \notin crashed' /\ t \notin crashed /\ Counting(t)
      /\ Old(t)' \subseteq Old(t)
  BY <1>1 DEF TallyInv, At
<1>3. job[t].all \in Nat /\ tally[t].failed \in Int
  BY <1>1, <1>2, CountJob DEF TypeOK
<1>4. /\ Cardinality(DOMAIN rows) \in Nat /\ Cardinality(DOMAIN rows') \in Nat
      /\ Cardinality(DOMAIN rows) =< Cardinality(DOMAIN rows')
  <2>1. IsFiniteSet(DOMAIN rows) /\ IsFiniteSet(DOMAIN rows')
    BY CodesFinite, FS_Subset DEF TypeOK
  <2> QED  BY <2>1, FS_Subset, FS_CardinalityType
<1>5. /\ Cardinality(Old(t)) \in Nat /\ Cardinality(Old(t)') \in Nat
      /\ Cardinality(Old(t)') =< Cardinality(Old(t))
  <2>1. Old(t) \in SUBSET DOMAIN rows
    BY DEF Old, Passed, RowsBy
  <2>2. IsFiniteSet(Old(t))
    BY <2>1, RowsCounted
  <2>3. IsFiniteSet(Old(t)') /\ Cardinality(Old(t)') =< Cardinality(Old(t))
    BY <1>2, <2>2, FS_Subset
  <2> QED  BY <2>2, <2>3, FS_CardinalityType
<1>6. Cardinality(Old(t))' = Cardinality(Old(t)')
  OBVIOUS
<1> QED  BY <1>2, <1>3, <1>4, <1>5, <1>6 DEF Counting

LEMMA CountFirstStep ==
    ASSUME TypeOK, TypeOK', TallyInv, NEW s \in Stations, NEW w \in Workers,
           NEW stage \in Stages, CountFirst(s, w, stage)
    PROVE  TallyInv'
<1> DEFINE first   == Cardinality(RowsBy(w, stage, FirstAsked(stage)))
           next(n) == [step |-> "count", by |-> w, what |-> stage, all |-> n]
<1>1. /\ UNCHANGED <<rows, crashed, gained>> /\ s \notin crashed
      /\ job[s].step = "idle"
      /\ \/ /\ tally' = [tally EXCEPT ![s] = [success |-> 0, failed |-> 0]]
            /\ UNCHANGED job
         \/ /\ stage = "bist" /\ UNCHANGED tally
            /\ job' = [job EXCEPT ![s] = next(first)]
         \/ /\ stage # "bist" /\ tally' = [tally EXCEPT ![s].failed = first]
            /\ job' = [job EXCEPT ![s] = next(0)]
  BY CountBegun
<1>2. \A n : next(n).step = "count" /\ next(n).by = w /\ next(n).what = stage /\ next(n).all = n
  OBVIOUS
<1> HIDE DEF next
<1>3. \A t \in Stations \ {s} : job'[t] = job[t] /\ tally'[t] = tally[t]
  BY <1>1 DEF TypeOK
<1>4. ASSUME NEW t \in Stations, t # s, job'[t].step = "count"
      PROVE  t \notin crashed' /\ Counting(t)'
  <2>1. job[t].step = "count" /\ t \notin crashed /\ Counting(t)
    BY <1>3, <1>4 DEF TallyInv
  <2> QED  BY <1>1, <1>3, <1>4, <2>1 DEF Counting, Old, Passed, RowsBy
<1>5. CASE job'[s].step # "count"
  BY <1>4, <1>5 DEF TallyInv
<1>6. CASE job'[s].step = "count"
  <2>1. /\ job'[s].by = w /\ job'[s].what = stage
        /\ \/ stage = "bist" /\ job'[s].all = first
           \/ stage # "bist" /\ tally'[s].failed = first
    BY <1>1, <1>2, <1>6 DEF TypeOK
  <2>2. /\ RowsBy(w, stage, {1})' = RowsBy(w, stage, {1})
        /\ Passed(s)' = RowsBy(w, stage, {1})'
    BY <1>1, <2>1 DEF Passed, RowsBy
  <2> DEFINE old == Old(s)'
  <2>3. old \in SUBSET RowsBy(w, stage, {1})
    BY <2>2 DEF Old
  <2> HIDE DEF old
  <2>4. /\ Cardinality(old) =< Cardinality(RowsBy(w, stage, -1 .. 1))
        /\ Cardinality(RowsBy(w, stage, -1 .. 1)) =< Cardinality(DOMAIN rows)
        /\ Cardinality(RowsBy(w, stage, {0})) + Cardinality(old) =< Cardinality(DOMAIN rows)
    BY <2>3, RowsAdded
  <2>5. first \in Nat
    BY CountIsNat
  <2>6. Counting(s)'
    <3>1. CASE stage = "bist"
      BY <1>1, <2>1, <2>4, <3>1 DEF Counting, FirstAsked, old
    <3>2. CASE stage # "bist"
      <4>1. first = Cardinality(RowsBy(w, stage, {0}))
        BY <3>2 DEF FirstAsked
      <4> QED  BY <1>1, <2>1, <2>4, <2>5, <3>2, <4>1 DEF Counting, old
    <3> QED  BY <3>1, <3>2
  <2> QED  BY <1>1, <1>4, <2>6 DEF TallyInv
<1> QED  BY <1>5, <1>6

\* A step of a station that is not counting afterwards.
LEMMA OtherSteps ==
    ASSUME IInv, IInv', TallyInv, NEW s \in Stations,
           \/ NextPN(s) \/ NextSN(s) \/ \E what \in {"pn", "sn"} : NextFails(s, what)
           \/ Insert(s) \/ Write(s) \/ ReadBack(s) \/ CountReturns(s)
           \/ \E pn \in Codes, what \in Targets : SelectForUpdate(s, pn, what)
    PROVE  TallyInv'
<1>0. TypeOK /\ TypeOK'
  BY DEF IInv, TypeInv
<1>1. /\ UNCHANGED tally \/ CountReturns(s)
      /\ crashed' \subseteq crashed \cup {s}
      /\ \/ UNCHANGED job /\ job[s].step # "count"
         \/ \E next : next.step # "count" /\ job' = [job EXCEPT ![s] = next]
  <2>1. CASE NextPN(s) \/ NextSN(s) \/ \E what \in {"pn", "sn"} : NextFails(s, what)
    BY <2>1 DEF NextPN, NextSN, NextFails, Asks, At
  <2>2. CASE Insert(s)
    BY <2>2 DEF Insert, At, Then
  <2>3. CASE Write(s)
    BY <2>3 DEF Write, Then, Return, Idle
  <2>4. CASE ReadBack(s) \/ CountReturns(s)
    BY <2>4 DEF ReadBack, CountReturns, Return, Idle
  <2>5. ASSUME NEW pn \in Codes, NEW what \in Targets, SelectForUpdate(s, pn, what)
        PROVE  <1>1!:
    BY <2>5 DEF SelectForUpdate, Then
  <2> QED  BY <2>1, <2>2, <2>3, <2>4, <2>5
<1>2. job'[s].step # "count" /\ \A t \in Stations \ {s} : job'[t] = job[t]
  BY <1>0, <1>1 DEF TypeOK
<1>3. \A t \in Stations \ {s} : tally'[t] = tally[t]
  BY <1>0, <1>1 DEF CountReturns, CountSecond, CountFails, TypeOK
<1>4. \/ DOMAIN rows \subseteq DOMAIN rows' /\ Gains
      \/ UNCHANGED <<rows, gained>>
      \/ UNCHANGED rows /\ gained' = [gained EXCEPT ![s] = {}]
  BY DEF NextPN, NextSN, NextFails, Asks, Insert, Write, ReadBack, CountReturns,
     SelectForUpdate
<1>5. ASSUME NEW t \in Stations \ {s}, At(t, "count") PROVE Old(t)' \subseteq Old(t)
  <2>1. CASE Gains
    <3>1. gained'[t] = gained[t] \cup (Passed(t)' \ Passed(t))
      BY <1>5, <2>1 DEF Gains
    <3> QED  BY <3>1 DEF Old
  <2>2. CASE UNCHANGED rows /\ gained'[t] = gained[t]
    <3>1. Passed(t)' = Passed(t)
      BY <1>2, <2>2 DEF Passed, RowsBy
    <3> QED  BY <2>2, <3>1 DEF Old
  <2> QED  BY <1>0, <1>4, <2>1, <2>2 DEF TypeOK
<1> QED  BY <1>0, <1>1, <1>2, <1>3, <1>4, <1>5, CountsKept

LEMMA TallyInvariance == Spec => []TallyInv
<1>1. Init => TallyInv
  BY DEF Init, TallyInv, Idle
<1>2. ASSUME IInv, IInv', TallyInv, [Next]_vars PROVE TallyInv'
  <2>1. ASSUME NEW s \in Stations, Step(s) PROVE TallyInv'
    <3>1. ASSUME NEW w \in Workers, NEW stage \in Stages, CountFirst(s, w, stage)
          PROVE  TallyInv'
      BY <1>2, <3>1, CountFirstStep DEF IInv, TypeInv
    <3>2. CASE \/ NextPN(s) \/ NextSN(s) \/ \E what \in {"pn", "sn"} : NextFails(s, what)
               \/ Insert(s) \/ Write(s) \/ ReadBack(s) \/ CountReturns(s)
               \/ \E pn \in Codes, what \in Targets : SelectForUpdate(s, pn, what)
      BY <1>2, <3>2, OtherSteps
    <3> QED  BY <2>1, <3>1, <3>2 DEF Step
  <2>2. CASE UNCHANGED vars
    BY <1>2, <2>2 DEF vars, TallyInv, Counting, Old, Passed, RowsBy
  <2> QED  BY <1>2, <2>1, <2>2 DEF Next
<1> QED  BY Invariance, <1>1, <1>2, PTL DEF Spec

\* Whatever rows the other stations insert or overwrite between the statements of
\* a count, with whatever worker ids and results, it is off by no more than the
\* rows that came to be passed ones of the counted worker in between.
THEOREM CountsAddUp == Spec => TallyAddsUp
<1>1. ASSUME IInv, TallyInv, NEW s \in Stations, CountSecond(s)
      PROVE  /\ tally'[s].failed >= -Cardinality(gained[s])
             /\ tally'[s].success + tally'[s].failed
                   =< Cardinality(DOMAIN rows) + Cardinality(gained[s])
  <2> DEFINE passed == Cardinality(Passed(s))
             old    == Cardinality(Old(s))
             new    == Cardinality(gained[s])
             total  == Cardinality(DOMAIN rows)
  <2>0. TypeOK /\ job[s].step = "count"
    BY <1>1 DEF IInv, TypeInv, CountSecond, At
  <2>1. /\ passed \in Nat /\ old \in Nat /\ new \in Nat /\ total \in Nat
        /\ passed =< old + new
    BY <2>0, PassedBound, RowsCounted
  <2>2. /\ tally'[s].success = passed
        /\ tally'[s].failed = IF job[s].what = "bist" THEN job[s].all - passed
                              ELSE tally[s].failed
    BY <1>1, <2>0, CountReturned
  <2>3. IF job[s].what = "bist" THEN old =< job[s].all /\ job[s].all =< total
        ELSE tally[s].failed >= 0 /\ tally[s].failed + old =< total
    BY <1>1, <2>0 DEF TallyInv, Counting
  <2>4. job[s].all \in Nat /\ tally[s].failed \in Int
    BY <2>0, CountJob DEF TypeOK
  <2> HIDE DEF passed, old, new, total
  <2>5. tally'[s].failed >= -new /\ tally'[s].success + tally'[s].failed =< total + new
    BY <2>1, <2>2, <2>3, <2>4
  <2> QED  BY <2>5 DEF new, total
<1>2. IInv /\ TallyInv =>
        [ \A s \in Stations : CountSecond(s) =>
            /\ tally'[s].failed >= -Cardinality(gained[s])
            /\ tally'[s].success + tally'[s].failed
                  =< Cardinality(DOMAIN rows) + Cardinality(gained[s]) ]_vars
  BY <1>1
<1> QED  BY Invariance, TallyInvariance, <1>2, PTL DEF TallyAddsUp
=============================================================================
