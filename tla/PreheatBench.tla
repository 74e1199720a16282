----------------------------- MODULE PreheatBench -----------------------------
(***************************************************************************)
(* What the slot table promises, said without a table: each port is a bay  *)
(* that is vacant or holds one device under preheat.  In a poll at most    *)
(* one bay changes hands, a device that enters a bay starts cold, and then *)
(* every device with a normal status is one second warmer.  A device is    *)
(* recorded from the bay it became warm in.  The station serves Capacity   *)
(* ports: a port once served is served for ever, a later one is turned     *)
(* away.                                                                   *)
(***************************************************************************)
EXTENDS Integers, FiniteSets

CONSTANTS Ports, Parts, NoPart, Capacity, Seconds, ValueCap

VARIABLES bay, served, recorded

vars == <<bay, served, recorded>>

Status == {"normal", "noinfo", "bistfailed"}

Vacant == [pn |-> NoPart, status |-> "", heat |-> 0]

Bay == [pn : Parts \cup {NoPart}, status : Status \cup {""}, heat : 0 .. ValueCap]

TypeOK ==
    /\ bay \in [Ports -> Bay]
    /\ served \subseteq Ports
    /\ recorded \subseteq Parts

Init ==
    /\ bay = [p \in Ports |-> Vacant]
    /\ served = {}
    /\ recorded = {}

Warmer(b) ==
    IF b.status = "normal" /\ b.heat < ValueCap THEN [b EXCEPT !.heat = @ + 1] ELSE b

Warmed(bays) == [p \in Ports |-> Warmer(bays[p])]

\* A poll in which no bay changes hands.
Second == bay' = Warmed(bay) /\ UNCHANGED <<served, recorded>>

Enter(p, pn, status) ==
    /\ bay[p] = Vacant
    /\ p \in served \/ Cardinality(served) < Capacity
    /\ served' = served \cup {p}
    /\ bay' = Warmed([bay EXCEPT ![p] = [pn |-> pn, status |-> status, heat |-> 0]])
    /\ UNCHANGED recorded

Leave(p) ==
    /\ bay[p] # Vacant
    /\ bay' = Warmed([bay EXCEPT ![p] = Vacant])
    /\ UNCHANGED <<served, recorded>>

WarmedThrough(b) == Seconds > 0 /\ b.heat >= Seconds

\* The station is started again: what was heated in the bays is forgotten, what
\* was recorded is not, and other ports may be served.
StartAgain ==
    /\ bay' = [p \in Ports |-> Vacant]
    /\ served' = {}
    /\ UNCHANGED recorded

Certify(p) ==
    /\ WarmedThrough(bay[p])
    /\ bay[p].pn # NoPart
    /\ recorded' = recorded \cup {bay[p].pn}
    /\ UNCHANGED <<bay, served>>

Next ==
    \/ Second
    \/ StartAgain
    \/ \E p \in Ports : \/ \E pn \in Parts \cup {NoPart}, s \in Status : Enter(p, pn, s)
                        \/ Leave(p)
                        \/ Certify(p)

Spec == Init /\ [][Next]_vars
=============================================================================
