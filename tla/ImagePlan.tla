------------------------------ MODULE ImagePlan ------------------------------
(***************************************************************************)
(* build_execution_order: the order in which the shots of an image job are *)
(* drawn.  A shot is known by its position in the job; parent[s] is the    *)
(* shot its continuity_from names, 0 when there is none.                   *)
(***************************************************************************)
EXTENDS Naturals, FiniteSetsExt, SequencesExt

None == 0

Positions(parent) == DOMAIN parent

\* The heap of shots whose parent is ordered already.
Ready(parent, ordered) ==
    {s \in Positions(parent) \ ordered : parent[s] = None \/ parent[s] \in ordered}

\* Each turn takes the ready shot of the least position, until none is left.
Take(parent, before) ==
    LET ready == Ready(parent, ToSet(before))
    IN IF ready = {} THEN before ELSE Append(before, Min(ready))

Turns(parent) ==
    LET turn[n \in 0..Cardinality(Positions(parent))] ==
            IF n = 0 THEN <<>> ELSE Take(parent, turn[n - 1])
    IN turn

Order(parent) == Turns(parent)[Cardinality(Positions(parent))]

\* build_plan refuses an unknown parent and a cycle.
Buildable(parent) ==
    /\ \A s \in Positions(parent) : parent[s] \in Positions(parent) \cup {None}
    /\ Len(Order(parent)) = Cardinality(Positions(parent))
=============================================================================
