--------------------------- MODULE WindowPlanning ---------------------------
(***************************************************************************)
(* plan_analysis_windows and the batches around it: which chunks of a      *)
(* document each window of a new run shows, which of them it owns, and how *)
(* many provider requests the run may spend.  A chunk is its position,     *)
(* counted from 0; a window is known by its first chunk.                   *)
(***************************************************************************)
EXTENDS Naturals, FiniteSetsExt

Least(one, other) == IF one < other THEN one ELSE other

\* The chunks the window shows that begins here.
Shows(start, chunks, size) == start..(Least(start + size, chunks) - 1)

\* Every stride a window, as far as whole windows fit, and one at the end.
Starts0(chunks, size, stride) ==
    {start \in 0..(chunks - 1) : start % stride = 0 /\ (start + size <= chunks \/ start = 0)}
    \cup {IF chunks > size THEN chunks - size ELSE 0}

\* Strides longer than windows leave gaps, which get windows of their own.
WindowStarts(chunks, size, stride) ==
    LET planned == Starts0(chunks, size, stride)
        covered == UNION {Shows(start, chunks, size) : start \in planned}
    IN planned \cup {Least(position, chunks - size) : position \in (0..(chunks - 1)) \ covered}

\* A chunk belongs to the first window that shows it.
Owns(start, starts, chunks, size) ==
    Shows(start, chunks, size) \ UNION {Shows(s, chunks, size) : s \in {o \in starts : o < start}}

\* The document is cut into batches, and each batch planned by itself.
BatchFirst(chunks, batch) == {first \in 0..(chunks - 1) : first % batch = 0}
BatchSize(first, chunks, batch) == Least(batch, chunks - first)

\* A window keeps its batch in its index: 100,000 places per batch.
Window(first, start, starts, size, chunks, batch) ==
    [batch |-> first \div batch,
     index |-> Cardinality({s \in starts : s < start}),
     shows |-> {first + c : c \in Shows(start, BatchSize(first, chunks, batch), size)},
     owns |-> {first + c : c \in Owns(start, starts, BatchSize(first, chunks, batch), size)}]

PlannedWindows(chunks, size, stride, batch) ==
    UNION {LET starts == WindowStarts(BatchSize(first, chunks, batch), size, stride)
           IN {Window(first, start, starts, size, chunks, batch) : start \in starts} :
                first \in BatchFirst(chunks, batch)}

\* The scopes of a full tree of halves: the sum of 2**depth over its depths.
TreeScopes(deepest) ==
    LET level[depth \in 0..deepest] == IF depth = 0 THEN 1 ELSE 2 * level[depth - 1]
        upTo[depth \in 0..deepest] == IF depth = 0 THEN 1 ELSE upTo[depth - 1] + level[depth]
    IN upTo[deepest]

\* Slip: the repair of a schema has no call of its own.
RequestCap_NoRepair(windows, attempts, depth) == windows * TreeScopes(depth) * attempts

\* Every scope below every window has its calls and one repair.
RequestCap(windows, attempts, depth) == windows * TreeScopes(depth) * (attempts + 1)

(***************************************************************************)
(* What a run may come to call, as the worker splits what fails: a window  *)
(* of several chunks into one child for each chunk it owns, and a single   *)
(* chunk whose replies stay unreadable into two slices, again and again.   *)
(***************************************************************************)
Children(window) == IF Cardinality(window.shows) = 1 THEN 1..2 ELSE window.owns

FirstChildren(plan) == UNION {{window} \X Children(window) : window \in plan}

\* A single chunk, or a slice of one, with every slice cut out of it.
SliceTree(deepest) ==
    LET scopes[depth \in 0..deepest] == 1 + (IF depth = 0 THEN 0 ELSE 2 * scopes[depth - 1])
    IN scopes[deepest]

\* Every scope uses its attempts and its repair and is split while it may.
WorstCalls(plan, attempts, depth) ==
    (attempts + 1) * (Cardinality(plan) + (IF depth = 0 THEN 0
                                           ELSE Cardinality(FirstChildren(plan)) * SliceTree(depth - 1)))
=============================================================================
