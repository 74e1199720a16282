---------------------------- MODULE MCPartDatabase ----------------------------
(***************************************************************************)
(* Small instances of PartDatabase for TLC: two stations, each with a      *)
(* worker id of its own.                                                   *)
(***************************************************************************)
EXTENDS PartDatabase, TLC

OwnWorker == [s \in Stations |-> s]

\* No definition of PartDatabase tells one station from another.
Symmetric == Permutations(Stations)

\* All that a step reads of a tally is what the first statement of a count has
\* stored in it, and count_bist stores nothing: the states that differ in no more
\* than the rest of the tallies are one state.
Stored(s) == At(s, "count") /\ job[s].what # "bist"

BetweenCounts ==
    <<rows, job, nextPN, nextSN, asked, given, gained, crashed,
      [s \in Stations |-> IF Stored(s) THEN tally[s].failed ELSE 0]>>
=============================================================================
