-------------------------- MODULE PreheatRefinement --------------------------
(***************************************************************************)
(* The polling worker as an implementation of PreheatBench.                *)
(***************************************************************************)
EXTENDS PreheatWorker

LiveSlots(tab, p) == {i \in Slots : Live(tab, i) /\ tab[i].port = p}

BayOf(s) == [pn |-> s.pn, status |-> s.status, heat |-> s.value]

VacantBay == [pn |-> NoPart, status |-> "", heat |-> 0]

BayIn(tab, p) ==
    IF LiveSlots(tab, p) = {} THEN VacantBay
    ELSE BayOf(tab[CHOOSE i \in LiveSlots(tab, p) : TRUE])

ServedBy(tab) == {p \in Ports : \E i \in Slots : tab[i].port = p}

\* A bay of the bench is the live slot of its port, and a port is served for as
\* long as a slot is bound to it, live or marked.
bay == [p \in Ports |-> BayIn(slots, p)]

served == ServedBy(slots)

Bench == INSTANCE PreheatBench WITH Capacity <- NumSlots, recorded <- preheated

\* The slot table with its marks, reclaims and early exits, polled by the
\* worker however devices come and go, behaves as the bench of bays does.
ImplementsBench == Bench!Spec
=============================================================================
