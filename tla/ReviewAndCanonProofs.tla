----------------------- MODULE ReviewAndCanonProofs -------------------------
(***************************************************************************)
(* The rules from the proposals to the canon, for inputs of every size:    *)
(* what aggregation, Gate 2 and the Timeline's input make of a batch;      *)
(* which pairs of a story are asked about, when relations between events   *)
(* leave one order, and what Gate 3 makes of them; what is decided of a    *)
(* plan, committed and frozen, and what the normaliser makes of a draft,   *)
(* however the Curator words it.                                           *)
(***************************************************************************)
EXTENDS MCRules, FiniteSetTheorems, SequenceTheorems, TLAPS

\* The least of some numbers.
LEMMA LeastOf ==
  ASSUME NEW S \in SUBSET Nat, S # {}
  PROVE  \E x \in S : \A y \in S : x <= y
<1>1. PICK x \in S : \A y \in S : <<y, x>> \notin OpToRel(<, Nat)
  BY NatLessThanWellFounded, WFMin
<1>2. ASSUME NEW y \in S PROVE x <= y
  <2>1. y < x => <<y, x>> \in OpToRel(<, Nat)
    BY DEF OpToRel
  <2>2. x \in Nat /\ y \in Nat
    OBVIOUS
  <2>3. ~(y < x)
    BY <1>1, <2>1
  <2> QED
    BY <2>2, <2>3
<1> QED
  BY <1>2

\* A set of numbers that holds 0 and every successor holds all numbers.
LEMMA InductiveSet ==
  ASSUME NEW S, 0 \in S, \A n \in Nat : n \in S => n + 1 \in S
  PROVE  Nat \subseteq S
<1> DEFINE T == Nat \ S
<1> SUFFICES ASSUME T # {} PROVE FALSE
  OBVIOUS
<1>1. T \in SUBSET Nat
  OBVIOUS
<1>2. PICK x \in T : \A y \in T : x <= y
  <2> HIDE DEF T
  <2> QED
    BY <1>1, LeastOf
<1>3. x # 0 /\ x - 1 \in Nat /\ ~(x <= x - 1) /\ (x - 1) + 1 = x
  OBVIOUS
<1>4. x - 1 \in S
  BY <1>2, <1>3
<1> QED
  BY <1>3, <1>4

LEMMA MaxIn ==
  ASSUME NEW n \in Nat, NEW S \in SUBSET (0..n), S # {}
  PROVE  Max(S) \in S /\ \A y \in S : Max(S) >= y
<1> DEFINE T == {n - x : x \in S}
<1>1. T \in SUBSET Nat /\ T # {}
  <2>1. \A x \in S : n - x \in Nat /\ n - x \in T
    OBVIOUS
  <2>2. T \in SUBSET Nat
    BY <2>1
  <2>3. PICK x \in S : TRUE
    OBVIOUS
  <2> QED
    BY <2>1, <2>2, <2>3
<1>2. PICK t \in T : \A u \in T : t <= u
  <2> HIDE DEF T
  <2> QED
    BY <1>1, LeastOf
<1>3. PICK x \in S : t = n - x
  OBVIOUS
<1>4. \A y \in S : x >= y
  <2> SUFFICES ASSUME NEW y \in S PROVE x >= y
    OBVIOUS
  <2>1. n - y \in T /\ y \in 0..n /\ x \in 0..n
    OBVIOUS
  <2>2. t <= n - y
    BY <1>2, <2>1
  <2> QED
    BY <1>3, <2>1, <2>2
<1>5. \E m \in S : \A y \in S : m >= y
  BY <1>4
<1> QED
  BY <1>5 DEF Max

\* An order of some events goes along the edges between them.
Along(order, edges) == \A edge \in edges : order[edge[1]] < order[edge[2]]

OneByOne(order) == \A one, other \in DOMAIN order : order[one] = order[other] => one = other

\* Edges without a cycle have an order that gives each event a number of its own.
LEMMA OrderOf ==
  ASSUME NEW T, IsFiniteSet(T), NEW edges \in SUBSET (T \X T), ~HasCycle(edges, T)
  PROVE  \E order \in [T -> 1..Cardinality(T)] : Along(order, edges) /\ OneByOne(order)
<1> DEFINE Within(U) == {e \in edges : e[1] \in U /\ e[2] \in U}
           Fits(U, n) == \E order \in [U -> 1..n] : Along(order, Within(U)) /\ OneByOne(order)
           S == {n \in Nat : \A U \in SUBSET T : Cardinality(U) = n => Fits(U, n)}
<1>1. \A U \in SUBSET T : IsFiniteSet(U)
  BY FS_Subset
<1>2. 0 \in S
  <2> SUFFICES ASSUME NEW U \in SUBSET T, Cardinality(U) = 0 PROVE Fits(U, 0)
    OBVIOUS
  <2>1. U = {}
    BY <1>1, FS_EmptySet
  <2> DEFINE order == [u \in U |-> 1]
  <2>2. order \in [U -> 1..0]
    BY <2>1
  <2>3. Along(order, Within(U)) /\ OneByOne(order)
    BY <2>1 DEF Along, OneByOne
  <2> QED
    BY <2>2, <2>3
<1>3. ASSUME NEW n \in Nat, n \in S
      PROVE  n + 1 \in S
  <2> HIDE DEF Fits
  <2> SUFFICES ASSUME NEW U \in SUBSET T, Cardinality(U) = n + 1 PROVE Fits(U, n + 1)
    OBVIOUS
  <2> USE DEF Fits
  <2>1. U # {} /\ IsFiniteSet(U)
    <3>1. IsFiniteSet(U)
      BY <1>1
    <3>2. U = {} => Cardinality(U) = 0
      BY FS_EmptySet
    <3> QED
      BY <3>1, <3>2
  <2>2. PICK a \in U : \A one \in U : <<one, a>> \notin edges
    BY <2>1 DEF HasCycle
  <2> DEFINE V == U \ {a}
  <2>3. V \in SUBSET T /\ Cardinality(V) = n
    <3>1. Cardinality(V) = Cardinality(U) - 1
      BY <2>1, FS_RemoveElement
    <3> QED
      BY <3>1
  <2>4. PICK less \in [V -> 1..n] : Along(less, Within(V)) /\ OneByOne(less)
    BY <1>3, <2>3
  <2> DEFINE order == [u \in U |-> IF u = a THEN 1 ELSE less[u] + 1]
  <2>5. order \in [U -> 1..(n + 1)]
    <3>1. ASSUME NEW u \in U PROVE order[u] \in 1..(n + 1)
      <4>1. u # a => less[u] \in 1..n
        BY <2>4
      <4> QED
        BY <4>1
    <3> QED
      BY <3>1
  <2>6. ASSUME NEW e \in Within(U) PROVE order[e[1]] < order[e[2]]
    <3>1. e[1] \in U /\ e[2] \in U /\ e = <<e[1], e[2]>> /\ e \in edges
      OBVIOUS
    <3>2. e[2] # a
      BY <2>2, <3>1
    <3>3. less[e[2]] \in 1..n
      BY <2>4, <3>1, <3>2
    <3>4. CASE e[1] = a
      BY <3>1, <3>2, <3>3, <3>4
    <3>5. CASE e[1] # a
      <4>1. e \in Within(V) /\ less[e[1]] \in 1..n
        BY <2>4, <3>1, <3>2, <3>5
      <4>2. less[e[1]] < less[e[2]]
        BY <2>4, <4>1 DEF Along
      <4> QED
        BY <3>1, <3>2, <3>3, <3>5, <4>1, <4>2
    <3> QED
      BY <3>4, <3>5
  <2>7. Along(order, Within(U))
    BY <2>6 DEF Along
  <2>8. OneByOne(order)
    <3> SUFFICES ASSUME NEW one \in U, NEW other \in U, order[one] = order[other] PROVE one = other
      BY DEF OneByOne
    <3>1. \A u \in V : less[u] \in 1..n
      BY <2>4
    <3>2. CASE one = a \/ other = a
      BY <3>1, <3>2
    <3>3. CASE one # a /\ other # a
      <4>1. one \in V /\ other \in V /\ less[one] = less[other]
        BY <3>1, <3>3
      <4> QED
        BY <2>4, <4>1 DEF OneByOne
    <3> QED
      BY <3>2, <3>3
  <2> QED
    BY <2>5, <2>7, <2>8
<1>4. Nat \subseteq S
  <2> HIDE DEF S
  <2> QED
    BY <1>2, <1>3, InductiveSet
<1>5. Cardinality(T) \in Nat
  BY FS_CardinalityType
<1>6. Fits(T, Cardinality(T))
  <2>1. T \in SUBSET T
    OBVIOUS
  <2> QED
    BY <1>4, <1>5, <2>1
<1>7. Within(T) = edges
  OBVIOUS
<1> QED
  BY <1>6, <1>7

\* An order leaves no cycle: the least event of one has none before it.
LEMMA OrderRefutes ==
  ASSUME NEW T, NEW edges, NEW order \in [T -> Nat], Along(order, edges)
  PROVE  ~HasCycle(edges, T)
<1> SUFFICES ASSUME NEW some \in SUBSET T, some # {},
                    \A event \in some : \E one \in some : <<one, event>> \in edges
             PROVE  FALSE
  BY DEF HasCycle
<1> DEFINE ranks == {order[x] : x \in some}
<1>1. ranks \in SUBSET Nat /\ ranks # {}
  OBVIOUS
<1>2. PICK least \in ranks : \A r \in ranks : least <= r
  <2> HIDE DEF ranks
  <2> QED
    BY <1>1, LeastOf
<1>3. PICK x \in some : least = order[x]
  BY <1>2
<1>4. PICK y \in some : <<y, x>> \in edges
  OBVIOUS
<1>5. order[y] < order[x]
  <2>1. order[<<y, x>>[1]] < order[<<y, x>>[2]]
    BY <1>4 DEF Along
  <2> QED
    BY <2>1
<1>6. order[y] \in ranks /\ order[y] \in Nat /\ order[x] \in Nat
  OBVIOUS
<1> QED
  BY <1>2, <1>3, <1>5, <1>6

\* A function on numbers may build each value, in any set, on the one before.
Buildable(X, N, x0, F) ==
    \E g \in [0..N -> X] : \A n \in 0..N : g[n] = IF n = 0 THEN x0 ELSE F[<<n, g[n - 1]>>]

LEMMA Recursing ==
  ASSUME NEW X, NEW N \in Nat, NEW x0 \in X, NEW F \in [Nat \X X -> X]
  PROVE  Buildable(X, N, x0, F)
<1> DEFINE Builds(g, m) == /\ g \in [0..m -> X]
                           /\ \A n \in 0..m : g[n] = IF n = 0 THEN x0 ELSE F[<<n, g[n - 1]>>]
           S == {m \in Nat : \E g : Builds(g, m)}
<1>1. 0 \in S
  <2>1. Builds([n \in 0..0 |-> x0], 0)
    OBVIOUS
  <2> QED
    BY <2>1
<1>2. ASSUME NEW m \in Nat, m \in S
      PROVE  m + 1 \in S
  <2>1. PICK g : Builds(g, m)
    BY <1>2
  <2> DEFINE h == [n \in 0..(m + 1) |-> IF n <= m THEN g[n] ELSE F[<<m + 1, g[m]>>]]
  <2>2. /\ \A n \in 0..m : h[n] = g[n] /\ g[n] \in X
        /\ \A n \in 0..m : g[n] = IF n = 0 THEN x0 ELSE F[<<n, g[n - 1]>>]
        /\ h[m + 1] = F[<<m + 1, g[m]>>] /\ DOMAIN h = 0..(m + 1)
        /\ h = [n \in 0..(m + 1) |-> h[n]]
    BY <2>1
  <2> HIDE DEF h, Builds
  <2>3. ASSUME NEW n \in 0..(m + 1)
        PROVE  h[n] \in X /\ h[n] = IF n = 0 THEN x0 ELSE F[<<n, h[n - 1]>>]
    <3>1. CASE n \in 0..m
      <4>1. n # 0 => n - 1 \in 0..m
        BY <3>1
      <4> QED
        BY <2>2, <3>1, <4>1
    <3>2. CASE n = m + 1
      <4>1. m \in 0..m /\ n # 0 /\ n - 1 = m /\ n \in Nat
        BY <3>2
      <4>2. g[m] \in X /\ h[m] = g[m]
        BY <2>2, <4>1
      <4>3. <<n, g[m]>> \in Nat \X X
        BY <4>1, <4>2
      <4>4. F[<<n, g[m]>>] \in X
        BY <4>3
      <4> QED
        BY <2>2, <3>2, <4>1, <4>2, <4>4
    <3> QED
      BY <3>1, <3>2
  <2>4. h \in [0..(m + 1) -> X]
    BY <2>2, <2>3
  <2>5. Builds(h, m + 1)
    BY <2>3, <2>4 DEF Builds
  <2> QED
    BY <2>5
<1>3. Nat \subseteq S
  <2> HIDE DEF S
  <2> QED
    BY <1>1, <1>2, InductiveSet
<1>4. PICK g : Builds(g, N)
  BY <1>3
<1> QED
  BY <1>4 DEF Buildable

\* One step of the closure: what comes before an event, or before that.
Farther(events, before) ==
    [event \in events |-> before[event] \cup UNION {before[one] : one \in before[event]}]

LEMMA FartherIs ==
  ASSUME NEW events, NEW before \in [events -> SUBSET events]
  PROVE  /\ Farther(events, before) \in [events -> SUBSET events]
         /\ \A event \in events : Farther(events, before)[event]
                = before[event] \cup UNION {before[one] : one \in before[event]}
BY DEF Farther

\* The predecessors are the relations, closed as often as there are events.
LEMMA PredecessorsAre ==
  ASSUME NEW events, IsFiniteSet(events), NEW relations,
         Preceding(events, relations) \in [events -> SUBSET events]
  PROVE  \E step \in [0..Cardinality(events) -> [events -> SUBSET events]] :
            /\ step[0] = Preceding(events, relations)
            /\ \A k \in 1..Cardinality(events) : step[k] = Farther(events, step[k - 1])
            /\ Predecessors(events, relations) = step[Cardinality(events)]
<1> DEFINE N == Cardinality(events)
           X == [events -> SUBSET events]
           base == Preceding(events, relations)
           Closes(g) == g = [k \in 0..N |-> IF k = 0 THEN base
                              ELSE [event \in events |-> g[k - 1][event] \cup UNION {g[k - 1][one] : one \in g[k - 1][event]}]]
           step == CHOOSE g : Closes(g)
           F == [p \in Nat \X X |-> Farther(events, p[2])]
<1>1. Predecessors(events, relations) = step[N]
  BY DEF Predecessors
<1>2. N \in Nat /\ base \in X
  BY FS_CardinalityType
<1>3. F \in [Nat \X X -> X] /\ \A n \in Nat, x \in X : F[<<n, x>>] = Farther(events, x)
  <2>1. \A p \in Nat \X X : Farther(events, p[2]) \in X
    BY FartherIs
  <2> QED
    BY <2>1
<1> HIDE DEF F, N, X, base
<1>4. PICK g \in [0..N -> X] : \A n \in 0..N : g[n] = IF n = 0 THEN base ELSE F[<<n, g[n - 1]>>]
  <2> HIDE DEF Closes, step
  <2>1. N \in Nat /\ base \in X /\ F \in [Nat \X X -> X]
    BY <1>2, <1>3
  <2>2. Buildable(X, N, base, F)
    BY <2>1, Recursing
  <2> QED
    BY <2>2 DEF Buildable
<1>5. ASSUME NEW n \in 0..N
      PROVE  g[n] = IF n = 0 THEN base ELSE Farther(events, g[n - 1])
  <2>1. n # 0 => g[n - 1] \in X /\ n \in Nat
    BY <1>2, <1>4
  <2> QED
    BY <1>3, <1>4, <2>1
<1>6. Closes(g)
  BY <1>4, <1>5 DEF Farther
<1>7. Closes(step)
  <2> HIDE DEF Closes
  <2> QED
    BY <1>6
<1> HIDE DEF step
<1>8. step = [k \in 0..N |-> step[k]] /\ DOMAIN step = 0..N
  BY <1>7
<1>9. ASSUME NEW k \in 0..N
      PROVE  step[k] = IF k = 0 THEN base ELSE Farther(events, step[k - 1])
  BY <1>7 DEF Farther
<1> HIDE DEF Closes
<1>10. \A k \in 0..N : step[k] \in X
  <2> DEFINE S == {k \in Nat : k <= N => step[k] \in X}
  <2>1. 0 \in S
    BY <1>2, <1>9
  <2>2. ASSUME NEW k \in Nat, k \in S PROVE k + 1 \in S
    <3> SUFFICES ASSUME k + 1 <= N PROVE step[k + 1] \in X
      OBVIOUS
    <3>1. k + 1 \in 0..N /\ k + 1 # 0 /\ (k + 1) - 1 = k /\ k <= N
      BY <1>2
    <3>2. step[k + 1] = Farther(events, step[k])
      BY <1>9, <3>1
    <3>3. step[k] \in X
      BY <2>2, <3>1
    <3>4. Farther(events, step[k]) \in X
      BY <3>3, FartherIs DEF X
    <3> QED
      BY <3>2, <3>4
  <2>3. Nat \subseteq S
    <3> HIDE DEF S
    <3> QED
      BY <2>1, <2>2, InductiveSet
  <2> QED
    BY <2>3
<1>11. step \in [0..N -> X]
  BY <1>8, <1>10
<1>12. step[0] = base /\ \A k \in 1..N : step[k] = Farther(events, step[k - 1])
  <2>1. 0 \in 0..N /\ \A k \in 1..N : k \in 0..N /\ k # 0
    BY <1>2
  <2> QED
    BY <1>9, <2>1
<1> QED
  BY <1>1, <1>11, <1>12 DEF N, X, base

\* Relations between known events put events before events.
LEMMA PrecedingIs ==
  ASSUME NEW events, NEW relations, \A r \in relations : r.source \in events /\ r.target \in events
  PROVE  /\ Preceding(events, relations) \in [events -> SUBSET events]
         /\ \A event \in events : \A one :
              one \in Preceding(events, relations)[event] <=>
                \E r \in relations : \/ r.kind = "BEFORE" /\ r.target = event /\ r.source = one
                                     \/ r.kind = "AFTER" /\ r.source = event /\ r.target = one
<1> DEFINE first(event) == {r.source : r \in {r \in relations : r.kind = "BEFORE" /\ r.target = event}}
           second(event) == {r.target : r \in {r \in relations : r.kind = "AFTER" /\ r.source = event}}
<1>1. Preceding(events, relations) = [event \in events |-> first(event) \cup second(event)]
  BY DEF Preceding
<1>2. \A event : first(event) \subseteq events /\ second(event) \subseteq events
  OBVIOUS
<1> QED
  BY <1>1, <1>2

\* An order that the relations allow goes along their closure as well, so that no event comes
\* before itself.
LEMMA PredecessorsRise ==
  ASSUME NEW events, IsFiniteSet(events), NEW relations,
         \A r \in relations : r.source \in events /\ r.target \in events,
         NEW order \in [events -> Nat],
         \A r \in relations : /\ r.kind = "BEFORE" => order[r.source] < order[r.target]
                              /\ r.kind = "AFTER" => order[r.target] < order[r.source]
  PROVE  /\ Predecessors(events, relations) \in [events -> SUBSET events]
         /\ \A event \in events : \A one \in Predecessors(events, relations)[event] : order[one] < order[event]
         /\ ~Cyclic(Predecessors(events, relations))
<1> DEFINE N == Cardinality(events)
           X == [events -> SUBSET events]
           Rises(before) == \A event \in events : \A one \in before[event] : order[one] < order[event]
<1>1. N \in Nat
  BY FS_CardinalityType
<1>2. PICK step \in [0..N -> X] :
        /\ step[0] = Preceding(events, relations)
        /\ \A k \in 1..N : step[k] = Farther(events, step[k - 1])
        /\ Predecessors(events, relations) = step[N]
  BY PrecedingIs, PredecessorsAre
<1>3. Rises(step[0])
  BY <1>2, PrecedingIs
<1>4. ASSUME NEW k \in 1..N, Rises(step[k - 1]) PROVE Rises(step[k])
  <2>1. step[k - 1] \in X
    BY <1>1, <1>2
  <2>2. \A event \in events :
          step[k][event] = step[k - 1][event] \cup UNION {step[k - 1][one] : one \in step[k - 1][event]}
    BY <1>2, <2>1, FartherIs
  <2> SUFFICES ASSUME NEW event \in events, NEW one \in step[k][event] PROVE order[one] < order[event]
    OBVIOUS
  <2>3. CASE one \in step[k - 1][event]
    BY <1>4, <2>3
  <2>4. CASE \E mid \in step[k - 1][event] : one \in step[k - 1][mid]
    <3>1. PICK mid \in step[k - 1][event] : one \in step[k - 1][mid]
      BY <2>4
    <3>2. mid \in events /\ one \in events
      BY <2>1, <3>1
    <3>3. order[one] < order[mid] /\ order[mid] < order[event]
      BY <1>4, <3>1, <3>2
    <3> QED
      BY <3>2, <3>3
  <2> QED
    BY <2>2, <2>3, <2>4
<1> HIDE DEF Rises
<1>5. \A k \in 0..N : Rises(step[k])
  <2> DEFINE S == {k \in Nat : k <= N => Rises(step[k])}
  <2>1. 0 \in S
    BY <1>3
  <2>2. ASSUME NEW k \in Nat, k \in S PROVE k + 1 \in S
    <3> SUFFICES ASSUME k + 1 <= N PROVE Rises(step[k + 1])
      OBVIOUS
    <3>1. k + 1 \in 1..N /\ (k + 1) - 1 = k /\ k <= N
      BY <1>1
    <3> QED
      BY <1>4, <2>2, <3>1
  <2>3. Nat \subseteq S
    <3> HIDE DEF S
    <3> QED
      BY <2>1, <2>2, InductiveSet
  <2> QED
    BY <2>3
<1>6. Rises(Predecessors(events, relations)) /\ Predecessors(events, relations) \in X
  BY <1>1, <1>2, <1>5
<1> HIDE DEF N
<1>7. ~Cyclic(Predecessors(events, relations))
  <2> SUFFICES ASSUME NEW event \in events, event \in Predecessors(events, relations)[event] PROVE FALSE
    BY <1>6 DEF Cyclic
  <2>1. order[event] < order[event] /\ order[event] \in Nat
    BY <1>6 DEF Rises
  <2> QED
    BY <2>1
<1> QED
  BY <1>6, <1>7 DEF Rises

\* Nothing before an event of a closed set is outside of it.
ClosedUnder(C, before) == \A event \in C : before[event] \subseteq C

\* The closure is complete: what is right before an event that is before another, however far, is
\* before the other, and so is all that is before it.
LEMMA PredecessorsClosed ==
  ASSUME NEW events, IsFiniteSet(events), NEW relations,
         \A r \in relations : r.source \in events /\ r.target \in events
  PROVE  LET before == Predecessors(events, relations) IN
           /\ before \in [events -> SUBSET events]
           /\ \A event \in events :
                /\ Preceding(events, relations)[event] \subseteq before[event]
                /\ \A one \in before[event] : before[one] \subseteq before[event]
<1> DEFINE N == Cardinality(events)
           X == [events -> SUBSET events]
           base == Preceding(events, relations)
<1>1. N \in Nat
  BY FS_CardinalityType
<1>2. base \in X
  BY PrecedingIs
<1>3. PICK step \in [0..N -> X] :
        /\ step[0] = base
        /\ \A k \in 1..N : step[k] = Farther(events, step[k - 1])
        /\ Predecessors(events, relations) = step[N]
  BY <1>2, PredecessorsAre
<1> HIDE DEF N, base
<1>4. \A k \in 0..N : step[k] \in X /\ \A event \in events : step[k][event] \subseteq events
  BY <1>3
<1>5. ASSUME NEW k \in 1..N, NEW event \in events
      PROVE  step[k][event] = step[k - 1][event] \cup UNION {step[k - 1][one] : one \in step[k - 1][event]}
  <2>1. step[k - 1] \in X /\ step[k] = Farther(events, step[k - 1])
    BY <1>1, <1>3, <1>4
  <2> QED
    BY <2>1, FartherIs
\* Every step keeps the one before, and leads nowhere out of a closed set.
<1>6. \A k \in 0..N : \A event \in events : base[event] \subseteq step[k][event]
  <2> DEFINE S == {k \in Nat : k <= N => \A event \in events : base[event] \subseteq step[k][event]}
  <2>1. 0 \in S
    BY <1>3
  <2>2. ASSUME NEW k \in Nat, k \in S PROVE k + 1 \in S
    <3> SUFFICES ASSUME k + 1 <= N, NEW event \in events PROVE base[event] \subseteq step[k + 1][event]
      OBVIOUS
    <3>1. k + 1 \in 1..N /\ (k + 1) - 1 = k /\ k <= N
      BY <1>1
    <3>2. step[k][event] \subseteq step[k + 1][event]
      BY <1>5, <3>1
    <3> QED
      BY <2>2, <3>1, <3>2
  <2>3. Nat \subseteq S
    <3> HIDE DEF S
    <3> QED
      BY <2>1, <2>2, InductiveSet
  <2> QED
    BY <2>3
<1>7. ASSUME NEW C \in SUBSET events, ClosedUnder(C, base)
      PROVE  \A k \in 0..N : ClosedUnder(C, step[k])
  <2> DEFINE S == {k \in Nat : k <= N => ClosedUnder(C, step[k])}
  <2>1. 0 \in S
    BY <1>3, <1>7
  <2>2. ASSUME NEW k \in Nat, k \in S PROVE k + 1 \in S
    <3> SUFFICES ASSUME k + 1 <= N, NEW event \in C PROVE step[k + 1][event] \subseteq C
      BY DEF ClosedUnder
    <3>1. k + 1 \in 1..N /\ (k + 1) - 1 = k /\ k <= N
      BY <1>1
    <3>2. step[k + 1][event] = step[k][event] \cup UNION {step[k][one] : one \in step[k][event]}
      BY <1>5, <3>1
    <3>3. \A one \in C : step[k][one] \subseteq C
      BY <2>2, <3>1 DEF ClosedUnder
    <3> QED
      BY <3>2, <3>3
  <2>3. Nat \subseteq S
    <3> HIDE DEF S
    <3> QED
      BY <2>1, <2>2, InductiveSet
  <2> QED
    BY <2>3
\* Until what is before an event is closed, it grows.
<1>8. ASSUME NEW event \in events
      PROVE  ClosedUnder(step[N][event], base)
  <2> DEFINE B(k) == step[k][event]
             Done(k) == ClosedUnder(B(k), base)
             S == {k \in Nat : k <= N => Done(k) \/ Cardinality(B(k)) > k}
  <2>1. \A k \in 0..N : B(k) \subseteq events /\ IsFiniteSet(B(k)) /\ Cardinality(B(k)) \in Nat
    <3> SUFFICES ASSUME NEW k \in 0..N
                 PROVE  B(k) \subseteq events /\ IsFiniteSet(B(k)) /\ Cardinality(B(k)) \in Nat
      OBVIOUS
    <3>1. B(k) \subseteq events
      BY <1>4
    <3> HIDE DEF B
    <3>2. IsFiniteSet(B(k))
      BY <3>1, FS_Subset
    <3> QED
      BY <3>1, <3>2, FS_CardinalityType
  <2>2. ASSUME NEW k \in Nat, k + 1 <= N
        PROVE  /\ B(k) \subseteq B(k + 1)
               /\ Done(k) => Done(k + 1)
               /\ ~Done(k) => B(k + 1) # B(k)
    <3>1. k + 1 \in 1..N /\ (k + 1) - 1 = k /\ k \in 0..N
      BY <1>1, <2>2
    <3>2. B(k + 1) = B(k) \cup UNION {step[k][one] : one \in B(k)}
      BY <1>5, <3>1
    <3>3. B(k) \subseteq events
      BY <2>1, <3>1
    <3>4. ASSUME Done(k) PROVE Done(k + 1)
      <4>1. \A one \in B(k) : step[k][one] \subseteq B(k)
        <5> HIDE DEF B
        <5>1. ClosedUnder(B(k), step[k])
          BY <1>7, <3>1, <3>3, <3>4
        <5> QED
          BY <5>1 DEF ClosedUnder
      <4>2. B(k + 1) = B(k)
        BY <3>2, <4>1
      <4> HIDE DEF B
      <4> QED
        BY <3>4, <4>2
    <3>5. ASSUME ~Done(k) PROVE B(k + 1) # B(k)
      <4>1. PICK one \in B(k) : ~(base[one] \subseteq B(k))
        BY <3>5 DEF ClosedUnder
      <4>2. base[one] \subseteq step[k][one]
        BY <1>6, <3>1, <3>3, <4>1
      <4>3. step[k][one] \subseteq B(k + 1)
        BY <3>2, <4>1
      <4> QED
        BY <4>1, <4>2, <4>3
    <3> QED
      BY <3>2, <3>4, <3>5
  <2>3. 0 \in S
    <3>1. B(0) = {} => Done(0)
      BY DEF ClosedUnder
    <3>2. B(0) # {} => Cardinality(B(0)) > 0
      <4>1. IsFiniteSet(B(0)) /\ Cardinality(B(0)) \in Nat
        BY <1>1, <2>1
      <4> HIDE DEF B
      <4>2. B(0) # {} => Cardinality(B(0)) # 0
        BY <4>1, FS_EmptySet
      <4> QED
        BY <4>1, <4>2
    <3> QED
      BY <3>1, <3>2
  <2>4. ASSUME NEW k \in Nat, k \in S PROVE k + 1 \in S
    <3> SUFFICES ASSUME k + 1 <= N, ~Done(k + 1) PROVE Cardinality(B(k + 1)) > k + 1
      OBVIOUS
    <3>1. k \in 0..N /\ k + 1 \in 0..N /\ k <= N
      BY <1>1
    <3>2. B(k) \subseteq B(k + 1) /\ ~Done(k) /\ B(k + 1) # B(k)
      BY <2>2
    <3>3. Cardinality(B(k)) > k
      BY <2>4, <3>1, <3>2
    <3> HIDE DEF B
    <3>4. /\ IsFiniteSet(B(k + 1)) /\ Cardinality(B(k)) \in Nat /\ Cardinality(B(k + 1)) \in Nat
      BY <2>1, <3>1
    <3>5. Cardinality(B(k)) < Cardinality(B(k + 1))
      <4>1. /\ Cardinality(B(k)) <= Cardinality(B(k + 1))
            /\ Cardinality(B(k)) = Cardinality(B(k + 1)) => B(k) = B(k + 1)
        BY <3>2, <3>4, FS_Subset
      <4> QED
        BY <3>2, <3>4, <4>1
    <3> QED
      BY <3>3, <3>4, <3>5
  <2>5. Nat \subseteq S
    <3> HIDE DEF S
    <3> QED
      BY <2>3, <2>4, InductiveSet
  <2>6. Done(N) \/ Cardinality(B(N)) > N
    BY <1>1, <2>5
  <2>7. ~(Cardinality(B(N)) > N)
    <3>1. B(N) \subseteq events /\ Cardinality(B(N)) \in Nat
      BY <1>1, <2>1
    <3> HIDE DEF B
    <3>2. Cardinality(B(N)) <= Cardinality(events)
      BY <3>1, FS_Subset
    <3> QED
      BY <1>1, <3>1, <3>2 DEF N
  <2> QED
    BY <2>6, <2>7
<1> DEFINE before == Predecessors(events, relations)
<1>9. before \in X /\ before = step[N]
  BY <1>1, <1>3
<1>10. ASSUME NEW event \in events
       PROVE  /\ base[event] \subseteq before[event]
              /\ \A one \in before[event] : before[one] \subseteq before[event]
  <2>1. N \in 0..N
    BY <1>1
  <2>2. step[N][event] \in SUBSET events
    BY <1>4, <2>1
  <2>3. ClosedUnder(step[N][event], step[N])
    <3> DEFINE C == step[N][event]
    <3>1. C \in SUBSET events /\ ClosedUnder(C, base)
      BY <1>8, <2>2
    <3> HIDE DEF C
    <3>2. ClosedUnder(C, step[N])
      BY <1>7, <2>1, <3>1
    <3> QED
      BY <3>2 DEF C
  <2> QED
    BY <1>6, <1>9, <2>1, <2>3 DEF ClosedUnder
<1> QED
  BY <1>9, <1>10 DEF base

\* What relations of known events say about which comes first.
EdgesOf(relations) == {Edge(r) : r \in {r \in relations : r.kind \in {"BEFORE", "AFTER"}}}

Within(relations, events) == \A r \in relations : r.source \in events /\ r.target \in events

LEMMA EdgesPrecede ==
  ASSUME NEW events, NEW relations, Within(relations, events)
  PROVE  /\ EdgesOf(relations) \in SUBSET (events \X events)
         /\ \A event \in events : \A one :
              one \in Preceding(events, relations)[event] <=> <<one, event>> \in EdgesOf(relations)
<1>1. ASSUME NEW e \in EdgesOf(relations) PROVE e \in events \X events
  BY DEF EdgesOf, Edge, Within
<1>2. ASSUME NEW event \in events, NEW one
      PROVE  one \in Preceding(events, relations)[event] <=> <<one, event>> \in EdgesOf(relations)
  <2>1. one \in Preceding(events, relations)[event] <=>
          \E r \in relations : \/ r.kind = "BEFORE" /\ r.target = event /\ r.source = one
                               \/ r.kind = "AFTER" /\ r.source = event /\ r.target = one
    BY PrecedingIs DEF Within
  <2>2. <<one, event>> \in EdgesOf(relations) <=>
          \E r \in relations : r.kind \in {"BEFORE", "AFTER"} /\ <<one, event>> = Edge(r)
    BY DEF EdgesOf
  <2>3. ASSUME NEW r \in relations, r.kind \in {"BEFORE", "AFTER"}
        PROVE  <<one, event>> = Edge(r) <=>
                  \/ r.kind = "BEFORE" /\ r.target = event /\ r.source = one
                  \/ r.kind = "AFTER" /\ r.source = event /\ r.target = one
    BY <2>3 DEF Edge
  <2> QED
    BY <2>1, <2>2, <2>3
<1> QED
  BY <1>1, <1>2

\* Going along the edges is what the relations demand of an order.
LEMMA AlongIs ==
  ASSUME NEW relations, NEW order
  PROVE  Along(order, EdgesOf(relations)) <=>
            \A r \in relations : /\ r.kind = "BEFORE" => order[r.source] < order[r.target]
                                 /\ r.kind = "AFTER" => order[r.target] < order[r.source]
<1>1. \A r \in relations : r.kind \in {"BEFORE", "AFTER"} => Edge(r) \in EdgesOf(relations)
  BY DEF EdgesOf
<1>2. \A e \in EdgesOf(relations) : \E r \in relations : r.kind \in {"BEFORE", "AFTER"} /\ e = Edge(r)
  BY DEF EdgesOf
<1>3. \A r : /\ r.kind = "BEFORE" => Edge(r)[1] = r.source /\ Edge(r)[2] = r.target
             /\ r.kind = "AFTER" => Edge(r)[1] = r.target /\ Edge(r)[2] = r.source
  BY DEF Edge
<1>4. ASSUME Along(order, EdgesOf(relations)), NEW r \in relations
      PROVE  /\ r.kind = "BEFORE" => order[r.source] < order[r.target]
             /\ r.kind = "AFTER" => order[r.target] < order[r.source]
  <2>1. r.kind \in {"BEFORE", "AFTER"} => order[Edge(r)[1]] < order[Edge(r)[2]]
    BY <1>1, <1>4 DEF Along
  <2> QED
    BY <1>3, <2>1
<1>5. ASSUME \A r \in relations : /\ r.kind = "BEFORE" => order[r.source] < order[r.target]
                                  /\ r.kind = "AFTER" => order[r.target] < order[r.source],
             NEW e \in EdgesOf(relations)
      PROVE  order[e[1]] < order[e[2]]
  <2>1. PICK r \in relations : r.kind \in {"BEFORE", "AFTER"} /\ e = Edge(r)
    BY <1>2
  <2> QED
    BY <1>3, <1>5, <2>1
<1> QED
  BY <1>4, <1>5 DEF Along

\* The review's search for a cycle (ReviewGate3Service._has_cycle) and the
\* closure of predecessors that the StoryBible orders its events by find the
\* same, for any finite set of events and any relations between them.
THEOREM CyclesAgree ==
  ASSUME NEW events, IsFiniteSet(events), NEW relations, Within(relations, events)
  PROVE  HasCycle(EdgesOf(relations), events) <=> Cyclic(Predecessors(events, relations))
<1> DEFINE edges == EdgesOf(relations)
           before == Predecessors(events, relations)
<1>1. ASSUME ~HasCycle(edges, events) PROVE ~Cyclic(before)
  <2>1. edges \in SUBSET (events \X events)
    BY EdgesPrecede
  <2> HIDE DEF edges
  <2>2. PICK order \in [events -> 1..Cardinality(events)] : Along(order, edges)
    BY <1>1, <2>1, OrderOf
  <2>3. order \in [events -> Nat]
    BY <2>2
  <2>4. \A r \in relations : /\ r.kind = "BEFORE" => order[r.source] < order[r.target]
                             /\ r.kind = "AFTER" => order[r.target] < order[r.source]
    BY <2>2, AlongIs DEF edges
  <2> QED
    BY <2>3, <2>4, PredecessorsRise DEF Within
<1>2. ASSUME HasCycle(edges, events), ~Cyclic(before) PROVE FALSE
  <2>1. /\ before \in [events -> SUBSET events]
        /\ \A event \in events :
              /\ Preceding(events, relations)[event] \subseteq before[event]
              /\ \A one \in before[event] : before[one] \subseteq before[event]
    BY PredecessorsClosed DEF Within
  <2>2. \A event \in events : event \notin before[event]
    BY <1>2, <2>1 DEF Cyclic
  <2>3. \A one, event \in events : <<one, event>> \in edges => one \in before[event]
    BY <2>1, EdgesPrecede
  <2> HIDE DEF edges, before
  <2>4. PICK some \in SUBSET events : some # {} /\ \A event \in some : \E one \in some : <<one, event>> \in edges
    BY <1>2 DEF HasCycle
  <2> DEFINE size(event) == Cardinality(before[event])
             sizes == {size(event) : event \in some}
  <2>5. \A event \in events : IsFiniteSet(before[event]) /\ size(event) \in Nat
    <3> SUFFICES ASSUME NEW event \in events PROVE IsFiniteSet(before[event]) /\ size(event) \in Nat
      OBVIOUS
    <3>1. before[event] \subseteq events
      BY <2>1
    <3>2. IsFiniteSet(before[event])
      BY <3>1, FS_Subset
    <3> QED
      BY <3>2, FS_CardinalityType
  <2>6. sizes \in SUBSET Nat /\ sizes # {}
    BY <2>4, <2>5
  <2>7. PICK least \in sizes : \A s \in sizes : least <= s
    <3> HIDE DEF sizes
    <3> QED
      BY <2>6, LeastOf
  <2>8. PICK x \in some : least = size(x)
    BY <2>7
  <2>9. PICK y \in some : <<y, x>> \in edges
    BY <2>4
  <2>10. x \in events /\ y \in events /\ y \in before[x]
    BY <2>3, <2>4, <2>9
  <2>11. before[y] \subseteq before[x] /\ before[y] # before[x]
    BY <2>1, <2>2, <2>10
  <2>12. size(y) < size(x)
    <3>1. IsFiniteSet(before[x]) /\ size(x) \in Nat /\ size(y) \in Nat
      BY <2>5, <2>10
    <3>2. /\ size(y) <= size(x)
          /\ size(y) = size(x) => before[y] = before[x]
      BY <2>11, <3>1, FS_Subset
    <3> QED
      BY <2>11, <3>1, <3>2
  <2>13. size(x) <= size(y)
    BY <2>7, <2>8, <2>9
  <2> QED
    BY <2>5, <2>10, <2>12, <2>13
<1> QED
  BY <1>1, <1>2

LEMMA ReverseHas ==
  ASSUME NEW S, NEW s \in Seq(S)
  PROVE  Reverse(s) \in Seq(S) /\ ToSet(Reverse(s)) = ToSet(s)
<1>1. Len(s) \in Nat /\ DOMAIN s = 1..Len(s)
  OBVIOUS
<1>2. Reverse(s) = [i \in 1..Len(s) |-> s[(Len(s) - i) + 1]]
  BY DEF Reverse
<1>3. \A i \in 1..Len(s) : (Len(s) - i) + 1 \in 1..Len(s) /\ (Len(s) - ((Len(s) - i) + 1)) + 1 = i
  BY <1>1
<1>4. Reverse(s) \in [1..Len(s) -> S]
  BY <1>1, <1>2, <1>3
<1>5. Reverse(s) \in Seq(S)
  BY <1>1, <1>4
<1>6. DOMAIN Reverse(s) = 1..Len(s)
  BY <1>4
<1>7. ASSUME NEW i \in 1..Len(s) PROVE Reverse(s)[i] \in ToSet(s)
  <2>1. Reverse(s)[i] = s[(Len(s) - i) + 1]
    BY <1>2
  <2> QED
    BY <1>1, <1>3, <2>1 DEF ToSet
<1>8. ASSUME NEW i \in 1..Len(s) PROVE s[i] \in ToSet(Reverse(s))
  <2>1. Reverse(s)[(Len(s) - i) + 1] = s[i]
    BY <1>2, <1>3
  <2> QED
    BY <1>3, <1>6, <2>1 DEF ToSet
<1>9. ToSet(Reverse(s)) = ToSet(s)
  BY <1>1, <1>6, <1>7, <1>8 DEF ToSet
<1> QED
  BY <1>5, <1>9

\* The ways to number some events from 0 along edges between them.
Numberings(T, edges) ==
    {order \in [T -> 0..(Cardinality(T) - 1)] : Along(order, edges) /\ OneByOne(order)}

\* There is one unless the edges have a cycle.
LEMMA NumberingsExist ==
  ASSUME NEW T, IsFiniteSet(T), NEW edges \in SUBSET (T \X T)
  PROVE  HasCycle(edges, T) <=> Numberings(T, edges) = {}
<1> DEFINE n == Cardinality(T)
<1>1. n \in Nat
  BY FS_CardinalityType
<1>2. ASSUME ~HasCycle(edges, T) PROVE Numberings(T, edges) # {}
  <2>1. PICK order \in [T -> 1..n] : Along(order, edges) /\ OneByOne(order)
    BY <1>2, OrderOf
  <2> HIDE DEF n
  <2> DEFINE less == [t \in T |-> order[t] - 1]
  <2>2. \A t \in T : order[t] \in 1..n /\ less[t] = order[t] - 1 /\ less[t] \in 0..(n - 1)
    BY <1>1, <2>1
  <2>3. less \in [T -> 0..(n - 1)]
    BY <2>2
  <2>4. Along(less, edges)
    <3> SUFFICES ASSUME NEW e \in edges PROVE less[e[1]] < less[e[2]]
      BY DEF Along
    <3>1. e[1] \in T /\ e[2] \in T /\ order[e[1]] < order[e[2]]
      BY <2>1 DEF Along
    <3> HIDE DEF less
    <3> QED
      BY <2>2, <3>1
  <2>5. OneByOne(less)
    <3> SUFFICES ASSUME NEW one \in T, NEW other \in T, less[one] = less[other] PROVE one = other
      BY DEF OneByOne
    <3>1. order[one] = order[other]
      <4> HIDE DEF less
      <4> QED
        BY <2>2
    <3> QED
      BY <2>1, <3>1 DEF OneByOne
  <2> QED
    BY <2>3, <2>4, <2>5 DEF Numberings, n
<1>3. ASSUME NEW order \in Numberings(T, edges) PROVE ~HasCycle(edges, T)
  <2>1. order \in [T -> 0..(n - 1)] /\ Along(order, edges)
    BY DEF Numberings
  <2> HIDE DEF n
  <2>2. order \in [T -> Nat]
    BY <1>1, <2>1
  <2> QED
    BY <2>1, <2>2, OrderRefutes
<1> QED
  BY <1>2, <1>3

\* A numbering counts the numbers below each.
LEMMA NumberCounts ==
  ASSUME NEW T, IsFiniteSet(T), NEW order \in [T -> 0..(Cardinality(T) - 1)], OneByOne(order), NEW t \in T
  PROVE  Cardinality({x \in T : order[x] < order[t]}) = order[t]
<1> DEFINE n == Cardinality(T)
           zero == 0
           top == n - 1
           all == zero..top
           last == order[t] - 1
           less == {x \in T : order[x] < order[t]}
           below == [x \in less |-> order[x]]
<1>1. n \in Nat /\ n > 0
  <2>1. n \in Nat /\ (n = 0 => T = {})
    BY FS_CardinalityType, FS_EmptySet
  <2> QED
    BY <2>1
<1>2. order \in Injection(T, all)
  BY DEF OneByOne, Injection, IsInjective
<1>3. IsFiniteSet(all) /\ Cardinality(all) = n
  <2>1. zero \in Int /\ top \in Int /\ ~(zero > top) /\ top - zero + 1 = n
    BY <1>1
  <2> HIDE DEF zero, top, n
  <2> QED
    BY <2>1, FS_Interval
<1>4. order \in Surjection(T, all)
  <2> HIDE DEF all
  <2> QED
    BY <1>2, <1>3, FS_Injection
<1>5. order[t] \in all /\ order[t] \in Nat /\ last \in Int /\ order[t] <= top
  BY <1>1
<1> DEFINE some == zero..last
<1>6. below \in Bijection(less, some)
  <2>1. \A x \in less : x \in T /\ order[x] \in all /\ order[x] < order[t]
    OBVIOUS
  <2>2. below \in [less -> some]
    BY <1>5, <2>1
  <2>3. \A x, y \in less : below[x] = below[y] => x = y
    BY DEF OneByOne
  <2>4. ASSUME NEW k \in some PROVE \E x \in less : below[x] = k
    <3>1. k \in all /\ k < order[t]
      BY <1>1, <1>5
    <3>2. PICK x \in T : order[x] = k
      BY <1>4, <3>1 DEF Surjection
    <3> QED
      BY <3>1, <3>2
  <2> QED
    BY <2>2, <2>3, <2>4 DEF Bijection, Injection, Surjection, IsInjective
<1>7. IsFiniteSet(less)
  BY FS_Subset
<1>8. Cardinality(some) = Cardinality(less)
  <2> HIDE DEF below, less, some
  <2>1. ExistsBijection(less, some)
    BY <1>6 DEF ExistsBijection
  <2> QED
    BY <1>7, <2>1, FS_Bijection
<1>9. Cardinality(some) = order[t]
  <2>1. zero \in Int /\ last \in Int /\ (zero > last => order[t] = 0) /\ last - zero + 1 = order[t]
    BY <1>5
  <2> HIDE DEF zero, last
  <2>2. Cardinality(some) = IF zero > last THEN 0 ELSE last - zero + 1
    BY <2>1, FS_Interval
  <2> QED
    BY <2>1, <2>2
<1> QED
  BY <1>8, <1>9

\* Edges between all events leave one numbering.
LEMMA NumberingIs ==
  ASSUME NEW T, IsFiniteSet(T), NEW order \in [T -> 0..(Cardinality(T) - 1)], OneByOne(order),
         NEW before \in [T -> SUBSET T], Total(before), \A event \in T : \A one \in before[event] : order[one] < order[event]
  PROVE  order = [event \in T |-> Cardinality(before[event])]
<1>1. Cardinality(T) \in Nat
  BY FS_CardinalityType
<1>2. \A x \in T : order[x] \in Int
  BY <1>1
<1>3. ASSUME NEW event \in T PROVE order[event] = Cardinality(before[event])
  <2> DEFINE less == {x \in T : order[x] < order[event]}
  <2>1. before[event] \subseteq less
    OBVIOUS
  <2>2. ASSUME NEW x \in less PROVE x \in before[event]
    <3>1. x = event \/ x \in before[event] \/ event \in before[x]
      BY DEF Total
    <3>2. order[x] \in Int /\ order[event] \in Int /\ order[x] < order[event]
      BY <1>2
    <3>3. event \in before[x] => order[event] < order[x]
      OBVIOUS
    <3> QED
      BY <3>1, <3>2, <3>3
  <2>3. less = before[event]
    BY <2>1, <2>2
  <2> QED
    BY <2>3, NumberCounts
<1> QED
  BY <1>3

\* Edges that leave two events open leave both orders of them.
LEMMA OpenEitherWay ==
  ASSUME NEW T, NEW edges \in SUBSET (T \X T), ~HasCycle(edges, T),
         NEW before \in [T -> SUBSET T], NEW a \in T, NEW b \in T, a # b, b \notin before[a],
         \A one, event \in T : <<one, event>> \in edges => one \in before[event],
         \A event \in T : \A one \in before[event] : before[one] \subseteq before[event]
  PROVE  ~HasCycle(edges \cup {<<a, b>>}, T)
<1> SUFFICES ASSUME NEW some \in SUBSET T, some # {},
                    \A event \in some : \E one \in some : <<one, event>> \in edges \cup {<<a, b>>}
             PROVE  FALSE
  BY DEF HasCycle
<1> DEFINE first == some \cap (before[a] \cup {a})
<1>1. \A event \in some : event # b => \E one \in some : <<one, event>> \in edges
  OBVIOUS
<1>2. a \in some
  <2> SUFFICES ASSUME a \notin some PROVE FALSE
    OBVIOUS
  <2>1. \A event \in some : \E one \in some : <<one, event>> \in edges
    OBVIOUS
  <2> QED
    BY <2>1 DEF HasCycle
<1>3. ASSUME NEW x \in first PROVE \E y \in first : <<y, x>> \in edges
  <2>1. x # b
    OBVIOUS
  <2>2. PICK y \in some : <<y, x>> \in edges
    BY <1>1, <2>1
  <2>3. y \in before[x]
    BY <2>2
  <2>4. before[x] \subseteq before[a]
    OBVIOUS
  <2> QED
    BY <2>2, <2>3, <2>4
<1>4. first # {} /\ first \in SUBSET T
  BY <1>2
<1> QED
  BY <1>3, <1>4 DEF HasCycle

\* There are finitely many numberings.
LEMMA NumberingsFinite ==
  ASSUME NEW T, IsFiniteSet(T), NEW edges
  PROVE  IsFiniteSet(Numberings(T, edges))
<1> DEFINE n == Cardinality(T)
           zero == 0
           top == n - 1
           all == zero..top
           H == Numberings(T, edges)
           graph == [f \in H |-> {p \in T \X all : p[2] = f[p[1]]}]
<1>1. n \in Nat
  BY FS_CardinalityType
<1>2. IsFiniteSet(all)
  <2>1. zero \in Int /\ top \in Int
    BY <1>1
  <2> HIDE DEF zero, top
  <2> QED
    BY <2>1, FS_Interval
<1>3. IsFiniteSet(SUBSET (T \X all))
  <2> HIDE DEF all
  <2>1. IsFiniteSet(T \X all)
    BY <1>2, FS_Product
  <2> QED
    BY <2>1, FS_SUBSET
<1>4. \A f \in H : f \in [T -> all]
  BY DEF Numberings
<1> HIDE DEF all, H
<1>5. graph \in Injection(H, SUBSET (T \X all))
  <2>1. graph \in [H -> SUBSET (T \X all)]
    OBVIOUS
  <2>2. ASSUME NEW f \in H, NEW g \in H, graph[f] = graph[g] PROVE f = g
    <3>1. ASSUME NEW t \in T PROVE f[t] = g[t]
      <4>1. <<t, f[t]>> \in T \X all
        BY <1>4
      <4>2. <<t, f[t]>> \in graph[f]
        BY <4>1
      <4>3. <<t, f[t]>> \in graph[g]
        BY <2>2, <4>2
      <4> QED
        BY <4>3
    <3> QED
      BY <1>4, <3>1
  <2> QED
    BY <2>1, <2>2 DEF Injection, IsInjective
<1>6. IsFiniteSet(H)
  <2> HIDE DEF graph
  <2> QED
    BY <1>3, <1>5, FS_Injection
<1> QED
  BY <1>6 DEF H

\* The order of a context numbers events as all their numberings do, if there is just one.
LEMMA OrderTrusted ==
  ASSUME NEW events, IsFiniteSet(events), NEW relations, Within(relations, events)
  PROVE  LET before == Predecessors(events, relations)
             H == Numberings(events, EdgesOf(relations))
         IN /\ Cyclic(before) <=> H = {}
            /\ ~Cyclic(before) =>
                TrustedOrder(before) = IF Cardinality(H) = 1 THEN CHOOSE order \in H : TRUE
                                       ELSE [event \in events |-> NoOrder]
<1> DEFINE before == Predecessors(events, relations)
           edges == EdgesOf(relations)
           H == Numberings(events, edges)
<1>1. edges \in SUBSET (events \X events)
  BY EdgesPrecede
<1>2. /\ before \in [events -> SUBSET events]
      /\ \A event \in events :
            /\ Preceding(events, relations)[event] \subseteq before[event]
            /\ \A one \in before[event] : before[one] \subseteq before[event]
  BY PredecessorsClosed DEF Within
<1>3. \A one, event \in events : <<one, event>> \in edges => one \in before[event]
  BY <1>2, EdgesPrecede
<1>4. HasCycle(edges, events) <=> Cyclic(before)
  BY CyclesAgree
<1>5. ASSUME NEW order \in H
      PROVE  \A event \in events : \A one \in before[event] : order[one] < order[event]
  <2>1. order \in [events -> 0..(Cardinality(events) - 1)] /\ Along(order, edges)
    BY DEF Numberings
  <2>2. order \in [events -> Nat]
    BY <2>1, FS_CardinalityType
  <2>3. \A r \in relations : /\ r.kind = "BEFORE" => order[r.source] < order[r.target]
                             /\ r.kind = "AFTER" => order[r.target] < order[r.source]
    BY <2>1, AlongIs
  <2> QED
    BY <2>2, <2>3, PredecessorsRise DEF Within
<1> HIDE DEF before, edges
<1>6. HasCycle(edges, events) <=> H = {}
  BY <1>1, NumberingsExist
<1>7. IsFiniteSet(H)
  BY NumberingsFinite
<1>8. ASSUME ~Cyclic(before), Total(before)
      PROVE  TrustedOrder(before) = IF Cardinality(H) = 1 THEN CHOOSE order \in H : TRUE
                                    ELSE [event \in events |-> NoOrder]
  <2> DEFINE counted == [event \in events |-> Cardinality(before[event])]
  <2>1. \A order \in H : order = counted
    <3> SUFFICES ASSUME NEW order \in H PROVE order = counted
      OBVIOUS
    <3>1. order \in [events -> 0..(Cardinality(events) - 1)] /\ OneByOne(order)
      BY DEF Numberings
    <3> QED
      BY <1>2, <1>5, <1>8, <3>1, NumberingIs
  <2>2. H # {}
    BY <1>4, <1>6, <1>8
  <2> HIDE DEF H
  <2>3. H = {counted}
    BY <2>1, <2>2
  <2>4. TrustedOrder(before) = counted
    BY <1>2, <1>8 DEF TrustedOrder
  <2> HIDE DEF counted
  <2>5. Cardinality(H) = 1 /\ (CHOOSE order \in H : TRUE) = counted
    BY <2>3, FS_Singleton
  <2> QED
    BY <2>4, <2>5
<1>9. ASSUME ~Cyclic(before), ~Total(before)
      PROVE  TrustedOrder(before) = [event \in events |-> NoOrder] /\ Cardinality(H) # 1
  <2>1. PICK a \in events, b \in events : a # b /\ a \notin before[b] /\ b \notin before[a]
    BY <1>2, <1>9 DEF Total
  <2> DEFINE forth == edges \cup {<<a, b>>}
             back == edges \cup {<<b, a>>}
  <2>2. ~HasCycle(edges, events)
    BY <1>4, <1>9
  <2>3. ~HasCycle(forth, events)
    BY <1>1, <1>2, <1>3, <2>1, <2>2, OpenEitherWay
  <2>4. ~HasCycle(back, events)
    BY <1>1, <1>2, <1>3, <2>1, <2>2, OpenEitherWay
  <2>5. forth \in SUBSET (events \X events) /\ back \in SUBSET (events \X events)
    BY <1>1
  <2>6. /\ edges \subseteq forth /\ <<a, b>> \in forth
        /\ edges \subseteq back /\ <<b, a>> \in back
    OBVIOUS
  <2> HIDE DEF forth, back
  <2>7. PICK one \in Numberings(events, forth) : TRUE
    BY <2>3, <2>5, NumberingsExist
  <2>8. PICK other \in Numberings(events, back) : TRUE
    BY <2>4, <2>5, NumberingsExist
  <2>9. one \in H /\ one[a] < one[b]
    <3>1. one[<<a, b>>[1]] < one[<<a, b>>[2]]
      BY <2>6 DEF Numberings, Along
    <3> QED
      BY <2>6, <3>1 DEF Numberings, Along
  <2>10. other \in H /\ other[b] < other[a]
    <3>1. other[<<b, a>>[1]] < other[<<b, a>>[2]]
      BY <2>6 DEF Numberings, Along
    <3> QED
      BY <2>6, <3>1 DEF Numberings, Along
  <2>11. one # other
    <3>1. one \in [events -> 0..(Cardinality(events) - 1)]
      BY DEF Numberings
    <3>2. one[a] \in Int /\ one[b] \in Int
      BY <3>1, FS_CardinalityType
    <3> QED
      BY <2>9, <2>10, <3>2
  <2>12. Cardinality(H) # 1
    <3> HIDE DEF H
    <3>1. Cardinality(H) = 1 => \E x : H = {x}
      BY <1>7, FS_Singleton
    <3> QED
      BY <2>9, <2>10, <2>11, <3>1
  <2> QED
    BY <1>2, <1>9, <2>12 DEF TrustedOrder
<1> QED
  BY <1>4, <1>6, <1>8, <1>9 DEF before, edges

\* What is asked about the order of events, and answered.
OrderIsAsked ==
    topic = "order" =>
        /\ IsFiniteSet(question.events) /\ Within(question.relations, question.events)
        /\ answered => LET before == Predecessors(question.events, question.relations)
                       IN answer.cyclic = Cyclic(before) /\ answer.order = TrustedOrder(before)

\* Events are numbered if and only if their relations allow one order, whatever the events
\* (derive_storybible_trusted_event_order).
LEMMA OrdersEstablished == OrderIsAsked => OrderEstablished
<1> SUFFICES ASSUME OrderIsAsked, topic = "order", answered PROVE OrderEstablished
  BY DEF OrderEstablished, Replied
<1> DEFINE events == question.events
           relations == question.relations
           H == Numberings(events, EdgesOf(relations))
           before == Predecessors(events, relations)
<1>1. IsFiniteSet(events) /\ Within(relations, events)
  BY DEF OrderIsAsked
<1>2. answer.cyclic = Cyclic(before) /\ answer.order = TrustedOrder(before)
  BY DEF OrderIsAsked
<1>3. \A order \in [events -> 0..(Cardinality(events) - 1)] :
        OneByOne(order) <=> \A one, other \in events : one # other => order[one] # order[other]
  BY DEF OneByOne
<1>4. Histories = H
  BY <1>3, AlongIs DEF Histories, Numberings
<1> HIDE DEF events, relations
<1>5. /\ Cyclic(before) <=> H = {}
      /\ ~Cyclic(before) =>
            TrustedOrder(before) = IF Cardinality(H) = 1 THEN CHOOSE order \in H : TRUE
                                   ELSE [event \in events |-> NoOrder]
  BY <1>1, OrderTrusted
<1> HIDE DEF H, before
<1> QED
  BY <1>2, <1>4, <1>5 DEF OrderEstablished, events

\* An update takes a name that another row of its kind has, stored or planned.
NameTaken(updates, canon) ==
    \E i \in DOMAIN updates :
        LET one == updates[i].resource
        IN /\ one.kind \in {"profile", "rule"}
           /\ \E name \in one.names :
                \/ \E row \in OfKind(canon, one.kind) : name \in row.names /\ row.id # one.id
                \/ \E j \in SameKind(updates, i) : j # i /\ name \in updates[j].resource.names

LEMMA ClaimantIs ==
  ASSUME NEW U, NEW updates \in Seq(U), NEW canon, NEW i \in DOMAIN updates, NEW name,
         NEW j \in SameKind(updates, i), j < i, name \in updates[j].resource.names
  PROVE  \E k \in SameKind(updates, i) : k < i /\ Claimants(updates, canon, i, name) = {updates[k].resource}
<1> DEFINE earlier == {k \in SameKind(updates, i) : k < i /\ name \in updates[k].resource.names}
<1>1. earlier # {} /\ j \in earlier
  OBVIOUS
<1>2. /\ i \in Nat /\ earlier \subseteq 0..i
      /\ \A k \in earlier : k \in SameKind(updates, i) /\ k < i
  BY DEF SameKind
<1>3. Claimants(updates, canon, i, name) = {updates[Max(earlier)].resource}
  BY <1>1 DEF Claimants
<1> HIDE DEF earlier
<1>4. Max(earlier) \in earlier
  BY <1>1, <1>2, MaxIn
<1> QED
  BY <1>2, <1>3, <1>4

\* Names are a problem when they are taken, whichever update comes first.
LEMMA NamesAreTaken ==
  ASSUME NEW U, NEW updates \in Seq(U), NEW canon, LocalIdsDiffer(updates)
  PROVE  (\E i \in DOMAIN updates : NameProblems(updates, canon, i) # {}) <=> NameTaken(updates, canon)
<1> DEFINE r(i) == updates[i].resource
           claimed(i, other) == \E name \in r(i).names : other \in Claimants(updates, canon, i, name)
<1>1. DOMAIN updates \subseteq Nat
  OBVIOUS
<1>2. \A i, j \in DOMAIN updates : i # j /\ r(i).kind = r(j).kind => r(i).id # r(j).id
  BY DEF LocalIdsDiffer
<1>3. \A i : NameProblems(updates, canon, i) # {} <=>
        r(i).kind \in {"profile", "rule"} /\ \E other : claimed(i, other) /\ other.id # r(i).id
  BY DEF NameProblems
<1>4. ASSUME NEW i \in DOMAIN updates, NameProblems(updates, canon, i) # {}
      PROVE  NameTaken(updates, canon)
  <2>1. r(i).kind \in {"profile", "rule"}
    BY <1>3, <1>4
  <2>2. PICK other : claimed(i, other) /\ other.id # r(i).id
    BY <1>3, <1>4
  <2>3. PICK name \in r(i).names : other \in Claimants(updates, canon, i, name) /\ other.id # r(i).id
    BY <2>2
  <2> DEFINE earlier == {k \in SameKind(updates, i) : k < i /\ name \in updates[k].resource.names}
  <2>4. CASE earlier = {}
    <3>1. other \in {row \in OfKind(canon, r(i).kind) : name \in row.names}
      BY <2>3, <2>4 DEF Claimants
    <3> QED
      BY <2>1, <2>2, <2>3, <3>1 DEF NameTaken
  <2>5. CASE earlier # {}
    <3>1. PICK k \in earlier : TRUE
      BY <2>5
    <3>2. k \in SameKind(updates, i) /\ k # i /\ name \in r(k).names
      BY <1>1, <3>1
    <3> QED
      BY <2>1, <3>2 DEF NameTaken
  <2> QED
    BY <2>4, <2>5
<1>5. ASSUME NEW i \in DOMAIN updates, NEW j \in SameKind(updates, i), j < i, r(i).kind \in {"profile", "rule"},
             NEW name \in r(i).names, name \in r(j).names
      PROVE  NameProblems(updates, canon, i) # {}
  <2>1. PICK k \in SameKind(updates, i) : k < i /\ Claimants(updates, canon, i, name) = {r(k)}
    BY <1>5, ClaimantIs
  <2>2. k \in DOMAIN updates /\ k # i /\ r(k).kind = r(i).kind
    BY <1>1, <2>1 DEF SameKind
  <2>3. r(k).id # r(i).id
    BY <1>2, <2>2
  <2>4. claimed(i, r(k))
    BY <2>1
  <2> HIDE DEF claimed
  <2> QED
    BY <1>3, <1>5, <2>3, <2>4
<1>6. ASSUME NameTaken(updates, canon)
      PROVE  \E i \in DOMAIN updates : NameProblems(updates, canon, i) # {}
  <2>1. PICK i \in DOMAIN updates :
          /\ r(i).kind \in {"profile", "rule"}
          /\ \E name \in r(i).names :
                \/ \E row \in OfKind(canon, r(i).kind) : name \in row.names /\ row.id # r(i).id
                \/ \E j \in SameKind(updates, i) : j # i /\ name \in r(j).names
    BY <1>6 DEF NameTaken
  <2>2. PICK name \in r(i).names :
                \/ \E row \in OfKind(canon, r(i).kind) : name \in row.names /\ row.id # r(i).id
                \/ \E j \in SameKind(updates, i) : j # i /\ name \in r(j).names
    BY <2>1
  <2>3. CASE \E j \in SameKind(updates, i) : j # i /\ name \in r(j).names
    <3>1. PICK j \in SameKind(updates, i) : j # i /\ name \in r(j).names
      BY <2>3
    <3>2. j \in DOMAIN updates /\ r(j).kind = r(i).kind /\ i \in SameKind(updates, j)
      BY <3>1 DEF SameKind
    <3>3. j < i \/ i < j
      BY <1>1, <3>1, <3>2
    <3>4. CASE j < i
      BY <1>5, <2>1, <2>2, <3>1, <3>4
    <3>5. CASE i < j
      BY <1>5, <2>1, <2>2, <3>1, <3>2, <3>5
    <3> QED
      BY <3>3, <3>4, <3>5
  <2>4. CASE /\ ~\E j \in SameKind(updates, i) : j # i /\ name \in r(j).names
             /\ \E row \in OfKind(canon, r(i).kind) : name \in row.names /\ row.id # r(i).id
    <3>1. PICK row \in OfKind(canon, r(i).kind) : name \in row.names /\ row.id # r(i).id
      BY <2>4
    <3>2. {k \in SameKind(updates, i) : k < i /\ name \in updates[k].resource.names} = {}
      <4>1. \A k \in SameKind(updates, i) : k < i => k # i
        BY <1>1 DEF SameKind
      <4> QED
        BY <2>4, <4>1
    <3>3. row \in Claimants(updates, canon, i, name)
      BY <3>1, <3>2 DEF Claimants
    <3>4. claimed(i, row)
      BY <2>2, <3>3
    <3> HIDE DEF claimed
    <3> QED
      BY <1>3, <2>1, <3>1, <3>4
  <2> QED
    BY <2>2, <2>3, <2>4
<1> QED
  BY <1>4, <1>6

\* What a planned resource must be by itself.
FineAlone(resource, rows, events) ==
    /\ ToSet(resource.of) \subseteq ProfileIds(rows)
    /\ resource.kind \in {"state", "relationship"} => EventsOf(resource) \subseteq events
    /\ resource.sound # FALSE

LEMMA ResourcesFine ==
  ASSUME NEW U, NEW updates \in Seq(U), NEW canon, NEW events, LocalIdsDiffer(updates), NEW i \in DOMAIN updates
  PROVE  ResourceProblems(updates, canon, events, i) = {} <=>
            FineAlone(updates[i].resource, canon \cup Planned(updates), events)
<1> DEFINE one == updates[i].resource
           known == ProfileIds(canon \cup Planned(updates))
           same == {j \in SameKind(updates, i) : j < i /\ updates[j].resource.id = one.id}
           unknown == ToSet(one.of) \ known
           astray == IF one.kind \in {"state", "relationship"} THEN EventsOf(one) \ events ELSE {}
           unsound == {FALSE} \cap {one.sound}
<1>1. same = {}
  <2> SUFFICES ASSUME NEW j \in same PROVE FALSE
    OBVIOUS
  <2>1. j \in DOMAIN updates /\ j # i /\ updates[j].resource.kind = one.kind /\ updates[j].resource.id = one.id
    BY DEF SameKind
  <2> QED
    BY <2>1 DEF LocalIdsDiffer
<1>2. ResourceProblems(updates, canon, events, i) =
        {BlockingProblem("ID_DUPLICATE", {one.id}) : j \in same}
        \cup {BlockingProblem("REFERENCE_INVALID", {one.id}) : id \in unknown}
        \cup {BlockingProblem("TIMELINE_ANCHOR_MISSING", {one.id}) : event \in astray}
        \cup {BlockingProblem("INVALID_EVIDENCE", {one.id}) : u \in unsound}
  BY DEF ResourceProblems
<1> HIDE DEF same, unknown, astray, unsound
<1>3. ResourceProblems(updates, canon, events, i) = {} <=> same = {} /\ unknown = {} /\ astray = {} /\ unsound = {}
  BY <1>2
<1>4. unknown = {} <=> ToSet(one.of) \subseteq known
  BY DEF unknown
<1>5. astray = {} <=> (one.kind \in {"state", "relationship"} => EventsOf(one) \subseteq events)
  BY DEF astray
<1>6. unsound = {} <=> one.sound # FALSE
  BY DEF unsound
<1> QED
  BY <1>1, <1>3, <1>4, <1>5, <1>6 DEF FineAlone

\* The same of the set of planned resources.
NameShared(planned, canon) ==
    \E one \in planned :
        /\ one.kind \in {"profile", "rule"}
        /\ \E name \in one.names : \E row \in OfKind(canon \cup planned, one.kind) :
                name \in row.names /\ row.id # one.id

LEMMA TakenIsShared ==
  ASSUME NEW updates, NEW canon, LocalIdsDiffer(updates)
  PROVE  NameTaken(updates, canon) <=> NameShared(Planned(updates), canon)
<1> DEFINE r(i) == updates[i].resource
           planned == Planned(updates)
<1>1. \A i, j \in DOMAIN updates : r(i).kind = r(j).kind => (i # j <=> r(i).id # r(j).id)
  BY DEF LocalIdsDiffer
<1>2. \A one : one \in planned <=> \E i \in DOMAIN updates : one = r(i)
  BY DEF Planned
<1>3. \A i, j : j \in SameKind(updates, i) <=> j \in DOMAIN updates /\ r(j).kind = r(i).kind
  BY DEF SameKind
<1>4. \A row, kind : row \in OfKind(canon \cup planned, kind) <=> (row \in canon \/ row \in planned) /\ row.kind = kind
  BY DEF OfKind
<1>5. \A row, kind : row \in OfKind(canon, kind) <=> row \in canon /\ row.kind = kind
  BY DEF OfKind
<1> HIDE DEF planned
<1>6. ASSUME NameTaken(updates, canon) PROVE NameShared(planned, canon)
  <2>1. PICK i \in DOMAIN updates :
          /\ r(i).kind \in {"profile", "rule"}
          /\ \E name \in r(i).names :
                \/ \E row \in OfKind(canon, r(i).kind) : name \in row.names /\ row.id # r(i).id
                \/ \E j \in SameKind(updates, i) : j # i /\ name \in r(j).names
    BY <1>6 DEF NameTaken
  <2>2. PICK name \in r(i).names :
                \/ \E row \in OfKind(canon, r(i).kind) : name \in row.names /\ row.id # r(i).id
                \/ \E j \in SameKind(updates, i) : j # i /\ name \in r(j).names
    BY <2>1
  <2>3. \E row \in OfKind(canon \cup planned, r(i).kind) : name \in row.names /\ row.id # r(i).id
    <3>1. ASSUME NEW j \in SameKind(updates, i), j # i, name \in r(j).names
          PROVE  r(j) \in OfKind(canon \cup planned, r(i).kind) /\ r(j).id # r(i).id
      <4>1. j \in DOMAIN updates /\ r(j).kind = r(i).kind
        BY <1>3
      <4>2. r(j).id # r(i).id
        BY <1>1, <3>1, <4>1
      <4>3. r(j) \in planned
        BY <1>2, <4>1
      <4> QED
        BY <1>4, <4>1, <4>2, <4>3
    <3>2. \A row \in OfKind(canon, r(i).kind) : row \in OfKind(canon \cup planned, r(i).kind)
      BY <1>4, <1>5
    <3> QED
      BY <2>2, <3>1, <3>2
  <2>4. r(i) \in planned
    BY <1>2
  <2> QED
    BY <2>1, <2>2, <2>3, <2>4 DEF NameShared
<1>7. ASSUME NameShared(planned, canon) PROVE NameTaken(updates, canon)
  <2>1. PICK one \in planned :
          /\ one.kind \in {"profile", "rule"}
          /\ \E name \in one.names : \E row \in OfKind(canon \cup planned, one.kind) :
                name \in row.names /\ row.id # one.id
    BY <1>7 DEF NameShared
  <2>2. PICK i \in DOMAIN updates : one = r(i)
    BY <1>2
  <2>3. PICK name \in one.names : \E row \in OfKind(canon \cup planned, one.kind) :
                name \in row.names /\ row.id # one.id
    BY <2>1
  <2>4. PICK row \in OfKind(canon \cup planned, one.kind) : name \in row.names /\ row.id # one.id
    BY <2>3
  <2>5. CASE row \in canon
    <3>1. row \in OfKind(canon, r(i).kind)
      BY <1>4, <1>5, <2>2, <2>4, <2>5
    <3> QED
      BY <2>1, <2>2, <2>3, <2>4, <3>1 DEF NameTaken
  <2>6. CASE row \in planned
    <3>1. PICK j \in DOMAIN updates : row = r(j)
      BY <1>2, <2>6
    <3>2. j \in SameKind(updates, i) /\ j # i /\ name \in r(j).names
      BY <1>3, <1>4, <2>2, <2>4, <3>1
    <3> QED
      BY <2>1, <2>2, <2>3, <3>2 DEF NameTaken
  <2> QED
    BY <1>4, <2>4, <2>5, <2>6
<1> QED
  BY <1>6, <1>7 DEF planned

LEMMA ContradictsBoth ==
  ASSUME NEW one, NEW other
  PROVE  Contradicts(one, other) <=> Contradicts(other, one)
<1>1. OrdersOverlap(one, other) <=> OrdersOverlap(other, one)
  BY DEF OrdersOverlap
<1>2. StatesOverlap(one, other) <=> StatesOverlap(other, one)
  BY <1>1 DEF StatesOverlap
<1>3. Disagree(one, other) <=> Disagree(other, one)
  BY DEF Disagree
<1> QED
  BY <1>2, <1>3 DEF Contradicts

\* No state contradicts another, and none of them comes first.
StatesFit(planned, canon) ==
    /\ \A one, other \in OfKind(canon, "state") : ~Contradicts(one, other)
    /\ \A one \in OfKind(planned, "state"), other \in OfKind(canon \cup planned, "state") : ~Contradicts(one, other)

LEMMA StatesAgreeIs ==
  ASSUME NEW U, NEW updates \in Seq(U), NEW canon
  PROVE  StatesAgree(updates, canon) <=> StatesFit(Planned(updates), canon)
<1> DEFINE r(i) == updates[i].resource
           planned == Planned(updates)
           earlier(i) == {r(j) : j \in 1..(i - 1)}
<1>1. DOMAIN updates = 1..Len(updates) /\ Len(updates) \in Nat
  OBVIOUS
<1>2. \A one : one \in planned <=> \E i \in DOMAIN updates : one = r(i)
  BY DEF Planned
<1>3. \A rows, row : row \in OfKind(rows, "state") <=> row \in rows /\ row.kind = "state"
  BY DEF OfKind
<1>4. \A i, one : one \in earlier(i) <=> \E j \in 1..(i - 1) : one = r(j)
  OBVIOUS
<1>5. \A i \in DOMAIN updates : \A j \in 1..(i - 1) : j \in DOMAIN updates
  BY <1>1
<1>6. \A i, j \in DOMAIN updates : i = j \/ i \in 1..(j - 1) \/ j \in 1..(i - 1)
  BY <1>1
<1> DEFINE Later == \A i \in DOMAIN updates : r(i).kind = "state" =>
                        \A one \in OfKind(canon \cup earlier(i), "state") : ~Contradicts(one, r(i))
           Never == \A one \in OfKind(planned, "state"), other \in OfKind(canon \cup planned, "state") : ~Contradicts(one, other)
<1>7. StatesAgree(updates, canon) <=> (\A one, other \in OfKind(canon, "state") : ~Contradicts(one, other)) /\ Later
  BY DEF StatesAgree
<1>8. \A one : ~Contradicts(one, one)
  BY DEF Contradicts
<1> HIDE DEF planned, earlier
<1>9. ASSUME Never PROVE Later
  <2> SUFFICES ASSUME NEW i \in DOMAIN updates, r(i).kind = "state",
                      NEW one \in OfKind(canon \cup earlier(i), "state")
               PROVE  ~Contradicts(one, r(i))
    OBVIOUS
  <2>1. r(i) \in OfKind(planned, "state")
    BY <1>2, <1>3
  <2>2. one \in OfKind(canon \cup planned, "state")
    BY <1>2, <1>3, <1>4, <1>5
  <2> QED
    BY <1>9, <2>1, <2>2, ContradictsBoth
<1>10. ASSUME Later PROVE Never
  <2> SUFFICES ASSUME NEW one \in OfKind(planned, "state"), NEW other \in OfKind(canon \cup planned, "state")
               PROVE  ~Contradicts(one, other)
    OBVIOUS
  <2>1. PICK i \in DOMAIN updates : one = r(i) /\ r(i).kind = "state"
    BY <1>2, <1>3
  <2>2. CASE other \in canon
    <3>1. other \in OfKind(canon \cup earlier(i), "state")
      BY <1>3, <2>2
    <3> QED
      BY <1>10, <2>1, <3>1, ContradictsBoth
  <2>3. CASE other \in planned
    <3>1. PICK j \in DOMAIN updates : other = r(j) /\ r(j).kind = "state"
      BY <1>2, <1>3, <2>3
    <3>2. CASE i = j
      BY <1>8, <2>1, <3>1, <3>2
    <3>3. CASE i \in 1..(j - 1)
      <4>1. one \in OfKind(canon \cup earlier(j), "state")
        BY <1>3, <1>4, <2>1, <3>3
      <4> QED
        BY <1>10, <3>1, <4>1
    <3>4. CASE j \in 1..(i - 1)
      <4>1. other \in OfKind(canon \cup earlier(i), "state")
        BY <1>3, <1>4, <3>1, <3>4
      <4> QED
        BY <1>10, <2>1, <4>1, ContradictsBoth
    <3> QED
      BY <1>6, <3>2, <3>3, <3>4
  <2> QED
    BY <1>3, <2>2, <2>3
<1> QED
  BY <1>7, <1>9, <1>10 DEF StatesFit, planned

\* What a valid plan is, but for its ids.
PlanFits(planned, canon, stored) ==
    /\ \A resource \in planned : resource.ours /\ resource.sound /\ resource.canonical
    /\ NamesOwnedOnce(planned \cup canon)
    /\ StatesFit(planned, canon)
    /\ stored => \A resource \in planned : ToSet(resource.of) \subseteq ProfileIds(planned \cup canon)

LEMMA ValidPlanIs ==
  ASSUME NEW U, NEW updates \in Seq(U), NEW canon, NEW stored
  PROVE  ValidPlan(updates, canon, stored) <=> LocalIdsDiffer(updates) /\ PlanFits(Planned(updates), canon, stored)
BY StatesAgreeIs DEF ValidPlan, PlanFits

\* A plan in which the Curator has declared no conflict.
PlanOf(updates) == [updates |-> updates, conflicts |-> {}]

LEMMA BlockingIs ==
  ASSUME NEW code, NEW ids
  PROVE  BlockingProblem(code, ids).blocking
BY DEF BlockingProblem, Problem

LEMMA ProblemsHave ==
  ASSUME NEW updates, NEW canon, NEW events, NEW p
  PROVE  p \in Problems(PlanOf(updates), canon, events, TRUE) <=>
            \/ \E i \in DOMAIN updates : p \in NameProblems(updates, canon, i) \/ p \in ResourceProblems(updates, canon, events, i)
            \/ p \in RelationshipProblems(updates, canon)
            \/ p \in ValidatorProblems(updates, canon)
<1> DEFINE plan == PlanOf(updates)
           each == UNION {NameProblems(updates, canon, i) \cup ResourceProblems(updates, canon, events, i) : i \in DOMAIN updates}
           broken == {BlockingProblem("PRODUCTION_LINEAGE_INVALID", {}) : b \in {FALSE} \cap {TRUE}}
<1>1. plan.updates = updates /\ plan.conflicts = {}
  BY DEF PlanOf
<1>2. DeclaredProblems(plan) = {}
  BY <1>1 DEF DeclaredProblems
<1>3. broken = {}
  OBVIOUS
<1>4. p \in each <=> \E i \in DOMAIN updates : p \in NameProblems(updates, canon, i) \/ p \in ResourceProblems(updates, canon, events, i)
  OBVIOUS
<1> HIDE DEF plan, each
<1>5. Problems(plan, canon, events, TRUE) =
        broken \cup each \cup RelationshipProblems(updates, canon) \cup ValidatorProblems(updates, canon) \cup DeclaredProblems(plan)
  BY <1>1 DEF Problems, each
<1> HIDE DEF broken
<1> QED
  BY <1>2, <1>3, <1>4, <1>5 DEF plan

\* What blocks a plan without declared conflicts, apart from relationships.
Unfit(planned, canon, events) ==
    \/ NameShared(planned, canon)
    \/ \E resource \in planned : ~FineAlone(resource, canon \cup planned, events)
    \/ (\A resource \in planned : resource.sound) /\ ~PlanFits(planned, canon, TRUE)

LEMMA ProblemsAre ==
  ASSUME NEW U, NEW updates \in Seq(U), NEW canon, NEW events, LocalIdsDiffer(updates)
  PROVE  LET problems == Problems(PlanOf(updates), canon, events, TRUE)
             clashes == RelationshipProblems(updates, canon)
             unfit == Unfit(Planned(updates), canon, events)
         IN /\ (\E p \in problems : p.blocking) <=> unfit \/ \E p \in clashes : p.blocking
            /\ problems = {} <=> ~unfit /\ clashes = {}
<1> DEFINE problems == Problems(PlanOf(updates), canon, events, TRUE)
           clashes == RelationshipProblems(updates, canon)
           planned == Planned(updates)
           names(i) == NameProblems(updates, canon, i)
           alone(i) == ResourceProblems(updates, canon, events, i)
           verdict == ValidatorProblems(updates, canon)
<1>1. \A p : p \in problems <=> (\E i \in DOMAIN updates : p \in names(i) \/ p \in alone(i)) \/ p \in clashes \/ p \in verdict
  BY ProblemsHave
<1>2. (\E i \in DOMAIN updates : names(i) # {}) <=> NameShared(planned, canon)
  BY NamesAreTaken, TakenIsShared
<1>3. (\E i \in DOMAIN updates : alone(i) # {}) <=> \E resource \in planned : ~FineAlone(resource, canon \cup planned, events)
  <2>1. \A i \in DOMAIN updates : alone(i) = {} <=> FineAlone(updates[i].resource, canon \cup planned, events)
    BY ResourcesFine
  <2>2. \A resource : resource \in planned <=> \E i \in DOMAIN updates : resource = updates[i].resource
    BY DEF Planned
  <2> HIDE DEF alone, planned
  <2> QED
    BY <2>1, <2>2
<1>4. verdict # {} <=> (\A resource \in planned : resource.sound) /\ ~PlanFits(planned, canon, TRUE)
  <2>1. ValidPlan(updates, canon, TRUE) <=> PlanFits(planned, canon, TRUE)
    <3> DEFINE stored == TRUE
    <3> HIDE DEF stored
    <3>1. ValidPlan(updates, canon, stored) <=> PlanFits(planned, canon, stored)
      BY ValidPlanIs
    <3> QED
      BY <3>1 DEF stored
  <2> QED
    BY <2>1 DEF ValidatorProblems
<1>5. \A i : \A p \in names(i) : p.blocking
  BY BlockingIs DEF NameProblems
<1>6. \A i : \A p \in alone(i) : p.blocking
  <2> SUFFICES ASSUME NEW i, NEW p \in alone(i) PROVE p.blocking
    OBVIOUS
  <2>1. \E code, ids : p = BlockingProblem(code, ids)
    BY DEF ResourceProblems
  <2> QED
    BY <2>1, BlockingIs
<1>7. \A p \in verdict : p.blocking
  BY BlockingIs DEF ValidatorProblems
<1> HIDE DEF problems, clashes, planned, names, alone, verdict
<1>8. Unfit(planned, canon, events) <=> (\E i \in DOMAIN updates : names(i) # {} \/ alone(i) # {}) \/ verdict # {}
  BY <1>2, <1>3, <1>4 DEF Unfit
<1>9. ASSUME Unfit(planned, canon, events) PROVE \E p \in problems : p.blocking
  BY <1>1, <1>5, <1>6, <1>7, <1>8, <1>9
<1>10. ASSUME NEW p \in problems, ~Unfit(planned, canon, events) PROVE p \in clashes
  BY <1>1, <1>8, <1>10
<1> QED
  BY <1>1, <1>9, <1>10 DEF problems, clashes, planned

\* Two updates of one id are refused, whatever else is wrong.
LEMMA DuplicatesRefused ==
  ASSUME NEW U, NEW updates \in Seq(U), NEW canon, NEW events,
         \A i, j \in DOMAIN updates : i # j => updates[i].id # updates[j].id, ~LocalIdsDiffer(updates)
  PROVE  \E p \in Problems(PlanOf(updates), canon, events, TRUE) : p.blocking
<1> DEFINE r(i) == updates[i].resource
           found(i, j) == BlockingProblem("ID_DUPLICATE", {r(i).id})
<1>1. ASSUME NEW i \in DOMAIN updates, NEW j \in DOMAIN updates, j < i, r(i).kind = r(j).kind, r(i).id = r(j).id
      PROVE  BlockingProblem("ID_DUPLICATE", {r(i).id}) \in ResourceProblems(updates, canon, events, i)
  <2>1. j \in {j_1 \in SameKind(updates, i) : j_1 < i /\ updates[j_1].resource.id = r(i).id}
    BY <1>1 DEF SameKind
  <2>2. BlockingProblem("ID_DUPLICATE", {r(i).id}) \in
            {BlockingProblem("ID_DUPLICATE", {r(i).id}) : j_1 \in {j_1 \in SameKind(updates, i) : j_1 < i /\ updates[j_1].resource.id = r(i).id}}
    BY <2>1
  <2> QED
    BY <2>2 DEF ResourceProblems
<1>2. PICK i \in DOMAIN updates, j \in DOMAIN updates : i # j /\ r(i).kind = r(j).kind /\ r(i).id = r(j).id
  BY DEF LocalIdsDiffer
<1>3. i < j \/ j < i
  BY <1>2
<1>4. \E k \in DOMAIN updates : BlockingProblem("ID_DUPLICATE", {r(k).id}) \in ResourceProblems(updates, canon, events, k)
  BY <1>1, <1>2, <1>3
<1> QED
  BY <1>4, ProblemsHave, BlockingIs

\* The decision depends on the planned resources, not on the order of their updates.
LEMMA DecidedAlike ==
  ASSUME NEW U, NEW one \in Seq(U), NEW other \in Seq(U), NEW canon, NEW events,
         Planned(one) = Planned(other), LocalIdsDiffer(one) <=> LocalIdsDiffer(other),
         \A i, j \in DOMAIN one : i # j => one[i].id # one[j].id,
         \A i, j \in DOMAIN other : i # j => other[i].id # other[j].id
  PROVE  PlanDecision(Problems(PlanOf(one), canon, events, TRUE)) = PlanDecision(Problems(PlanOf(other), canon, events, TRUE))
<1> DEFINE P == Problems(PlanOf(one), canon, events, TRUE)
           Q == Problems(PlanOf(other), canon, events, TRUE)
<1>1. CASE ~LocalIdsDiffer(one)
  <2>1. (\E p \in P : p.blocking) /\ (\E q \in Q : q.blocking)
    BY <1>1, DuplicatesRefused
  <2> HIDE DEF P, Q
  <2> QED
    BY <2>1 DEF PlanDecision, P, Q
<1>2. CASE LocalIdsDiffer(one)
  <2>1. RelationshipProblems(one, canon) = RelationshipProblems(other, canon)
    BY DEF RelationshipProblems
  <2>2. /\ (\E p \in P : p.blocking) <=> (\E q \in Q : q.blocking)
        /\ P = {} <=> Q = {}
    BY <1>2, <2>1, ProblemsAre
  <2> HIDE DEF P, Q
  <2>3. PlanDecision(P) = PlanDecision(Q)
    BY <2>2 DEF PlanDecision
  <2> QED
    BY <2>3 DEF P, Q
<1> QED
  BY <1>1, <1>2

\* What commits take from a plan is its resources.
LEMMA CommitsAlike ==
  ASSUME NEW U, NEW one \in Seq(U), NEW other \in Seq(U), NEW canon,
         Planned(one) = Planned(other), LocalIdsDiffer(one) <=> LocalIdsDiffer(other)
  PROVE  /\ Commits(one, canon) <=> Commits(other, canon)
         /\ AfterCommit(canon, one) = AfterCommit(canon, other)
<1>1. ASSUME NEW rows, NEW stored PROVE ValidPlan(one, rows, stored) <=> ValidPlan(other, rows, stored)
  BY ValidPlanIs
<1>2. Preflight(one, canon) <=> Preflight(other, canon)
  BY DEF Preflight
<1>3. Commits(one, canon) <=> Commits(other, canon)
  BY <1>1, <1>2 DEF Commits
<1>4. AfterCommit(canon, one) = AfterCommit(canon, other)
  BY DEF AfterCommit
<1> QED
  BY <1>3, <1>4

\* A commit adds planned rows and removes no kind's id.
LEMMA RowsStay ==
  ASSUME NEW updates, NEW canon
  PROVE  LET rows == AfterCommit(canon, updates) IN
           /\ rows \subseteq canon \cup Planned(updates)
           /\ \A one \in canon \cup Planned(updates) : \E row \in rows : row.kind = one.kind /\ row.id = one.id
           /\ ProfileIds(rows) = ProfileIds(canon \cup Planned(updates))
<1> DEFINE planned == Planned(updates)
           winners == {resource \in planned : Replaces(canon, resource)}
           left == {row \in canon : \A resource \in winners : row.kind # resource.kind \/ row.id # resource.id}
           rows == AfterCommit(canon, updates)
           keyed(one) == \E row \in rows : row.kind = one.kind /\ row.id = one.id
<1>1. rows = winners \cup left
  BY DEF AfterCommit
<1>2. rows \subseteq canon \cup planned
  BY <1>1
<1>3. ASSUME NEW one \in canon PROVE keyed(one)
  <2>1. CASE one \in left
    BY <1>1, <2>1
  <2>2. CASE one \notin left
    <3>1. PICK resource \in winners : one.kind = resource.kind /\ one.id = resource.id
      BY <2>2
    <3> QED
      BY <1>1, <3>1
  <2> QED
    BY <2>1, <2>2
<1> HIDE DEF left
<1>4. ASSUME NEW one \in planned PROVE keyed(one)
  <2>1. CASE one \in winners
    BY <1>1, <2>1
  <2>2. CASE one \notin winners
    <3>1. PICK row \in canon : row.kind = one.kind /\ row.id = one.id
      BY <2>2 DEF Replaces, Stored
    <3>2. keyed(row)
      BY <1>3
    <3> QED
      BY <3>1, <3>2
  <2> QED
    BY <2>1, <2>2
<1> HIDE DEF rows, planned
<1>5. ProfileIds(rows) = ProfileIds(canon \cup planned)
  <2>1. \A some, id : id \in ProfileIds(some) <=> \E row \in some : row.kind = "profile" /\ row.id = id
    BY DEF ProfileIds, OfKind
  <2>2. ASSUME NEW id, id \in ProfileIds(canon \cup planned) PROVE id \in ProfileIds(rows)
    <3>1. PICK one \in canon \cup planned : one.kind = "profile" /\ one.id = id
      BY <2>1, <2>2
    <3>2. PICK row \in rows : row.kind = one.kind /\ row.id = one.id
      BY <1>3, <1>4
    <3> QED
      BY <2>1, <3>1, <3>2
  <2>3. \A id : id \in ProfileIds(rows) => id \in ProfileIds(canon \cup planned)
    BY <1>2, <2>1
  <2> QED
    BY <2>2, <2>3
<1> QED
  BY <1>2, <1>3, <1>4, <1>5 DEF rows, planned

\* Committing a plan again changes nothing.
LEMMA CommittedTwice ==
  ASSUME NEW updates, NEW canon, LocalIdsDiffer(updates), \A resource \in Planned(updates) : resource.rev \in Int
  PROVE  AfterCommit(AfterCommit(canon, updates), updates) = AfterCommit(canon, updates)
<1> DEFINE planned == Planned(updates)
           winners == {resource \in planned : Replaces(canon, resource)}
           rows == AfterCommit(canon, updates)
<1>1. rows = winners \cup {row \in canon : \A resource \in winners : row.kind # resource.kind \/ row.id # resource.id}
  BY DEF AfterCommit
<1>2. \A one, other \in planned : one.kind = other.kind /\ one.id = other.id => one = other
  BY DEF LocalIdsDiffer, Planned
<1>3. ASSUME NEW resource \in planned PROVE ~Replaces(rows, resource)
  <2>1. CASE resource \in winners
    <3>1. resource \in Stored(rows, resource) /\ ~(resource.rev < resource.rev)
      BY <1>1, <2>1 DEF Stored
    <3> QED
      BY <3>1 DEF Replaces
  <2>2. CASE resource \notin winners
    <3>1. PICK row \in Stored(canon, resource) : ~(row.rev < resource.rev)
      BY <2>2 DEF Replaces
    <3>2. row \in canon /\ row.kind = resource.kind /\ row.id = resource.id
      BY DEF Stored
    <3>3. \A other \in winners : row.kind # other.kind \/ row.id # other.id
      BY <1>2, <2>2, <3>2
    <3>4. row \in Stored(rows, resource)
      BY <1>1, <3>2, <3>3 DEF Stored
    <3> QED
      BY <3>1, <3>4 DEF Replaces
  <2> QED
    BY <2>1, <2>2
<1> HIDE DEF rows
<1>4. {resource \in planned : Replaces(rows, resource)} = {}
  BY <1>3
<1>5. AfterCommit(rows, updates) = {} \cup {row \in rows : \A resource \in {} : row.kind # resource.kind \/ row.id # resource.id}
  BY <1>4 DEF AfterCommit
<1>6. AfterCommit(rows, updates) = rows
  BY <1>5
<1> QED
  BY <1>6 DEF rows

\* An approved plan has no problem.
LEMMA ApprovedIs ==
  ASSUME NEW U, NEW updates \in Seq(U), NEW canon, NEW events,
         \A i, j \in DOMAIN updates : i # j => updates[i].id # updates[j].id,
         \A resource \in Planned(updates) : resource.sound \in BOOLEAN,
         PlanDecision(Problems(PlanOf(updates), canon, events, TRUE)) = "APPROVE"
  PROVE  /\ LocalIdsDiffer(updates)
         /\ ~NameShared(Planned(updates), canon)
         /\ PlanFits(Planned(updates), canon, TRUE)
         /\ RelationshipProblems(updates, canon) = {}
<1> DEFINE P == Problems(PlanOf(updates), canon, events, TRUE)
<1>1. P = {}
  <2> HIDE DEF P
  <2>1. PlanDecision(P) = "APPROVE"
    BY DEF P
  <2> QED
    BY <2>1 DEF PlanDecision
<1>2. LocalIdsDiffer(updates)
  BY <1>1, DuplicatesRefused
<1>3. ~Unfit(Planned(updates), canon, events) /\ RelationshipProblems(updates, canon) = {}
  BY <1>1, <1>2, ProblemsAre
<1>4. \A resource \in Planned(updates) : resource.sound
  <2>1. \A resource \in Planned(updates) : resource.sound # FALSE
    BY <1>3 DEF Unfit, FineAlone
  <2> QED
    BY <2>1
<1> QED
  BY <1>2, <1>3, <1>4 DEF Unfit

\* What fits stored rows fits none.
LEMMA FitsAlone ==
  ASSUME NEW planned, NEW canon, PlanFits(planned, canon, TRUE)
  PROVE  PlanFits(planned, {}, FALSE)
<1>1. NamesOwnedOnce(planned \cup {})
  BY DEF PlanFits, NamesOwnedOnce, OfKind
<1>2. StatesFit(planned, {})
  <2>1. \A one \in OfKind({}, "state") : FALSE
    BY DEF OfKind
  <2>2. \A one \in OfKind({} \cup planned, "state") : one \in OfKind(canon \cup planned, "state")
    BY DEF OfKind
  <2> QED
    BY <2>1, <2>2 DEF PlanFits, StatesFit
<1> QED
  BY <1>1, <1>2 DEF PlanFits

\* What holds at one order overlaps.
LEMMA HeldTogether ==
  ASSUME NEW one, NEW other, NEW order \in Int, HoldsAt(one, order), HoldsAt(other, order),
         one.from.order \in Int, one.until.order \in Int, other.from.order \in Int, other.until.order \in Int
  PROVE  OrdersOverlap(one, other)
BY DEF HoldsAt, OrdersOverlap, NoOrder

\* Relationships that hold together and differ are a problem if one of them is planned.
LEMMA RelationshipsAgree ==
  ASSUME NEW updates, NEW canon, RelationshipProblems(updates, canon) = {},
         NEW one \in OfKind(Planned(updates), "relationship"),
         NEW other \in OfKind(canon \cup Planned(updates), "relationship"),
         one.id # other.id, one.of = other.of, one.names = other.names, OrdersOverlap(one, other)
  PROVE  one.facts = other.facts
<1> SUFFICES ASSUME one.facts # other.facts PROVE FALSE
  OBVIOUS
<1> DEFINE planned == OfKind(Planned(updates), "relationship")
           touched == {row.id : row \in planned}
           all == planned \cup OfKind(canon, "relationship")
           clash(pair) ==
              /\ pair[1].id # pair[2].id /\ {pair[1].id, pair[2].id} \cap touched # {}
              /\ pair[1].of = pair[2].of /\ pair[1].names = pair[2].names /\ pair[1].facts # pair[2].facts
              /\ OrdersOverlap(pair[1], pair[2])
           problem(pair) == Problem("RELATIONSHIP_CONFLICT", Disagree(pair[1], pair[2]), {pair[1].id, pair[2].id})
           clashing == {pair \in all \X all : clash(pair)}
<1>1. RelationshipProblems(updates, canon) = {problem(pair) : pair \in clashing}
  BY DEF RelationshipProblems
<1>2. one \in planned /\ other \in all /\ one \in all /\ one.id \in touched
  BY DEF OfKind
<1>3. <<one, other>> \in clashing
  <2>1. <<one, other>> \in all \X all /\ <<one, other>>[1] = one /\ <<one, other>>[2] = other
    BY <1>2
  <2> HIDE DEF all, touched
  <2> QED
    BY <1>2, <2>1
<1> HIDE DEF clashing, problem
<1> QED
  BY <1>1, <1>3

\* Rows whose times are orders, and that have the names that are compared.
Comparable(rows) ==
    \A row \in rows :
        /\ row.from.order \in Int /\ row.until.order \in Int
        /\ row.kind = "relationship" => row.names = {1}
        /\ row.kind = "rule" => row.names # {}

LEMMA CoherentStays ==
  ASSUME NEW updates, NEW canon, Comparable(canon \cup Planned(updates)), Coherent(canon),
         ~NameShared(Planned(updates), canon), PlanFits(Planned(updates), canon, TRUE),
         RelationshipProblems(updates, canon) = {}
  PROVE  Coherent(AfterCommit(canon, updates))
<1> DEFINE planned == Planned(updates)
           both == canon \cup planned
           rows == AfterCommit(canon, updates)
<1>1. rows \subseteq both
  BY RowsStay
<1>2. \A some, row, kind : row \in OfKind(some, kind) <=> row \in some /\ row.kind = kind
  BY DEF OfKind
<1>3. \A row, kind : row \in OfKind(rows, kind) => row \in OfKind(canon, kind) \/ row \in OfKind(planned, kind)
  BY <1>1, <1>2
<1>4. \A row, kind : row \in OfKind(canon, kind) \/ row \in OfKind(planned, kind) => row \in OfKind(both, kind) /\ row \in both
  BY <1>2
<1> HIDE DEF rows, planned, both
<1>5. NamesOwnedOnce(rows)
  <2>1. \A row \in OfKind(rows, "profile") : row \in OfKind(planned \cup canon, "profile")
    BY <1>1, <1>2 DEF both
  <2>2. NamesOwnedOnce(planned \cup canon)
    BY DEF PlanFits, planned
  <2> QED
    BY <2>1, <2>2 DEF NamesOwnedOnce
<1>6. ASSUME NEW order \in 0..1, NEW one \in OfKind(rows, "state"), NEW other \in OfKind(rows, "state"),
             one.id # other.id, one.of = other.of, HasOrder(one), HasOrder(other), HoldsAt(one, order), HoldsAt(other, order)
      PROVE  ~Disagree(one, other)
  <2>1. CASE one \in OfKind(canon, "state") /\ other \in OfKind(canon, "state")
    BY <1>6, <2>1 DEF Coherent
  <2>2. CASE one \in OfKind(planned, "state") \/ other \in OfKind(planned, "state")
    <3>1. one \in both /\ other \in both /\ order \in Int
      BY <1>3, <1>4
    <3>2. OrdersOverlap(one, other)
      BY <1>6, <3>1, HeldTogether DEF Comparable, both, planned
    <3>3. StatesOverlap(one, other)
      BY <1>6, <3>2 DEF StatesOverlap
    <3>4. ~Contradicts(one, other)
      <4>1. one \in OfKind(both, "state") /\ other \in OfKind(both, "state")
        BY <1>3, <1>4
      <4>2. \A row \in OfKind(planned, "state"), any \in OfKind(both, "state") : ~Contradicts(row, any)
        BY DEF PlanFits, StatesFit, planned, both
      <4> QED
        BY <2>2, <4>1, <4>2, ContradictsBoth
    <3> QED
      BY <1>6, <3>3, <3>4 DEF Contradicts
  <2> QED
    BY <1>3, <2>1, <2>2
<1>7. ASSUME NEW order \in 0..1, NEW one \in OfKind(rows, "relationship"), NEW other \in OfKind(rows, "relationship"),
             one.id # other.id, one.of = other.of, HoldsAt(one, order), HoldsAt(other, order)
      PROVE  one.facts = other.facts
  <2>1. CASE one \in OfKind(canon, "relationship") /\ other \in OfKind(canon, "relationship")
    BY <1>7, <2>1 DEF Coherent
  <2>2. CASE one \in OfKind(planned, "relationship") \/ other \in OfKind(planned, "relationship")
    <3>1. one \in OfKind(both, "relationship") /\ other \in OfKind(both, "relationship") /\ order \in Int
      BY <1>3, <1>4
    <3>2. one \in both /\ other \in both /\ one.kind = "relationship" /\ other.kind = "relationship"
      BY <1>2, <3>1
    <3>3. OrdersOverlap(one, other) /\ OrdersOverlap(other, one)
      BY <1>7, <3>1, <3>2, HeldTogether DEF Comparable, both, planned
    <3>4. one.names = other.names
      BY <3>2 DEF Comparable, both, planned
    <3> QED
      BY <1>7, <2>2, <3>1, <3>3, <3>4, RelationshipsAgree DEF both, planned
  <2> QED
    BY <1>3, <2>1, <2>2
<1>8. ASSUME NEW one \in OfKind(rows, "rule"), NEW other \in OfKind(rows, "rule"), one.id # other.id
      PROVE  one.names # other.names
  <2>1. CASE one \in OfKind(canon, "rule") /\ other \in OfKind(canon, "rule")
    BY <1>8, <2>1 DEF Coherent
  <2>2. CASE one \in OfKind(planned, "rule") \/ other \in OfKind(planned, "rule")
    <3>1. one \in OfKind(both, "rule") /\ other \in OfKind(both, "rule")
      BY <1>3, <1>4
    <3>2. one.names # {} /\ other.names # {} /\ one.kind = "rule" /\ other.kind = "rule"
      BY <1>2, <3>1 DEF Comparable, both, planned
    <3>3. ASSUME NEW p \in OfKind(planned, "rule"), NEW q \in OfKind(both, "rule"), p.id # q.id
          PROVE  p.names \cap q.names = {}
      <4> SUFFICES ASSUME NEW name \in p.names, name \in q.names PROVE FALSE
        OBVIOUS
      <4>1. p \in planned /\ p.kind \in {"profile", "rule"} /\ q \in OfKind(both, p.kind)
        BY <1>2
      <4>2. NameShared(planned, canon)
        BY <3>3, <4>1 DEF NameShared, both
      <4> QED
        BY <4>2 DEF planned
    <3> QED
      BY <1>8, <2>2, <3>1, <3>2, <3>3
  <2> QED
    BY <1>3, <2>1, <2>2
<1>9. Coherent(rows)
  BY <1>5, <1>6, <1>7, <1>8 DEF Coherent
<1> QED
  BY <1>9 DEF rows

\* Stored rows as reviews have made them, and planned ones: both are as their schemas say.
StoredSoundly(canon) ==
    /\ \A one, other \in canon : one.kind = other.kind /\ one.id = other.id => one = other
    /\ \A row \in canon : row.ours /\ ToSet(row.of) \subseteq ProfileIds(canon)

\* Approved plans are committed, frozen and coherent, for any rows and updates
\* (StoryBibleReviewService, commit_storybible_plan, freeze).
THEOREM ApprovedStaysCoherent ==
  ASSUME NEW U, NEW updates \in Seq(U), NEW canon, NEW events,
         \A i, j \in DOMAIN updates : i # j => updates[i].id # updates[j].id,
         \A resource \in Planned(updates) : resource.sound \in BOOLEAN,
         Comparable(canon \cup Planned(updates)), StoredSoundly(canon),
         PlanDecision(Problems(PlanOf(updates), canon, events, TRUE)) = "APPROVE"
  PROVE  /\ Commits(updates, canon)
         /\ FrozenContract(AfterCommit(canon, updates))
         /\ Coherent(canon) => Coherent(AfterCommit(canon, updates))
<1> DEFINE planned == Planned(updates)
           rows == AfterCommit(canon, updates)
<1>1. /\ LocalIdsDiffer(updates)
      /\ ~NameShared(planned, canon)
      /\ PlanFits(planned, canon, TRUE)
      /\ RelationshipProblems(updates, canon) = {}
  BY ApprovedIs
<1>2. Commits(updates, canon)
  <2> DEFINE yes == TRUE
             no == FALSE
             none == {}
  <2> HIDE DEF yes, no, none
  <2>1. ValidPlan(updates, canon, yes)
    BY <1>1, ValidPlanIs DEF yes
  <2>2. ValidPlan(updates, none, no)
    <3>1. PlanFits(planned, none, no)
      BY <1>1, FitsAlone DEF none, no
    <3> QED
      BY <1>1, <3>1, ValidPlanIs
  <2>3. Preflight(updates, canon)
    <3>1. planned \cup canon = canon \cup planned
      OBVIOUS
    <3> QED
      BY <1>1, <3>1 DEF PlanFits, Preflight
  <2> QED
    BY <2>1, <2>2, <2>3 DEF Commits, yes, no, none
<1>3. ASSUME Coherent(canon) PROVE Coherent(rows)
  BY <1>1, <1>3, CoherentStays
<1>4. FrozenContract(rows)
  <2> DEFINE winners == {resource \in planned : Replaces(canon, resource)}
             left == {row \in canon : \A resource \in winners : row.kind # resource.kind \/ row.id # resource.id}
  <2>1. rows = winners \cup left
    BY DEF AfterCommit
  <2>2. \A one, other \in planned : one.kind = other.kind /\ one.id = other.id => one = other
    BY <1>1 DEF LocalIdsDiffer, Planned
  <2>3. ASSUME NEW one \in rows, NEW other \in rows, one.kind = other.kind, one.id = other.id PROVE one = other
    <3>1. CASE one \in winners /\ other \in winners
      BY <2>2, <2>3, <3>1
    <3>2. CASE one \in left /\ other \in left
      BY <2>3, <3>2 DEF StoredSoundly
    <3>3. ~(one \in winners /\ other \in left) /\ ~(one \in left /\ other \in winners)
      BY <2>3
    <3> QED
      BY <2>1, <3>1, <3>2, <3>3
  <2> HIDE DEF rows, winners, left
  <2>4. ProfileIds(rows) = ProfileIds(canon \cup planned) /\ rows \subseteq canon \cup planned
    BY RowsStay DEF rows
  <2>5. ASSUME NEW row \in rows PROVE row.ours /\ ToSet(row.of) \subseteq ProfileIds(rows)
    <3>1. CASE row \in planned
      <4>1. planned \cup canon = canon \cup planned
        OBVIOUS
      <4> QED
        BY <1>1, <2>4, <3>1, <4>1 DEF PlanFits
    <3>2. CASE row \in canon
      <4>1. ProfileIds(canon) \subseteq ProfileIds(canon \cup planned)
        BY DEF ProfileIds, OfKind
      <4> QED
        BY <2>4, <3>2, <4>1 DEF StoredSoundly
    <3> QED
      BY <2>4, <3>1, <3>2
  <2> QED
    BY <2>3, <2>5 DEF FrozenContract
<1> QED
  BY <1>2, <1>3, <1>4

ResourceFields == {"kind", "id", "of", "names", "facts", "from", "until", "trigger", "rev", "canonical", "sound", "ours"}

\* A first revision of a resource without times.
Fresh(r) ==
    /\ DOMAIN r = ResourceFields
    /\ r.from = Open /\ r.until = Open /\ r.trigger = NoEvent
    /\ r.rev = 1 /\ r.canonical = TRUE /\ r.sound = TRUE /\ r.ours = TRUE

LEMMA ResourceHas ==
  ASSUME NEW kind, NEW id, NEW of, NEW names, NEW facts, NEW r, r = Resource(kind, id, of, names, facts)
  PROVE  Fresh(r) /\ r.kind = kind /\ r.id = id /\ r.of = of /\ r.names = names /\ r.facts = facts
<1> DEFINE open == Open
           none == NoEvent
           first == 1
           made == [kind |-> kind, id |-> id, of |-> of, names |-> names, facts |-> facts, from |-> open, until |-> open,
                    trigger |-> none, rev |-> first, canonical |-> TRUE, sound |-> TRUE, ours |-> TRUE]
<1>1. r = made
  BY DEF Resource
<1> HIDE DEF open, none, first
<1>2. DOMAIN made = ResourceFields
  BY DEF ResourceFields
<1>3. made.kind = kind /\ made.id = id /\ made.of = of /\ made.names = names /\ made.facts = facts
  OBVIOUS
<1>4. made.from = open /\ made.until = open /\ made.trigger = none
  OBVIOUS
<1>5. made.rev = first /\ made.canonical = TRUE /\ made.sound = TRUE /\ made.ours = TRUE
  OBVIOUS
<1> HIDE DEF made
<1> QED
  BY <1>1, <1>2, <1>3, <1>4, <1>5 DEF Fresh, open, none, first

LEMMA SpannedHas ==
  ASSUME NEW r, DOMAIN r = ResourceFields, NEW span
  PROVE  LET s == Spanned(r, span) IN
           /\ DOMAIN s = ResourceFields
           /\ s.kind = r.kind /\ s.id = r.id /\ s.of = r.of /\ s.names = r.names /\ s.facts = r.facts
           /\ s.from = span.from /\ s.until = span.until /\ s.trigger = r.trigger
           /\ s.rev = r.rev /\ s.canonical = r.canonical /\ s.sound = r.sound /\ s.ours = r.ours
<1> DEFINE from == span.from
           until == span.until
           s == [r EXCEPT !.from = from, !.until = until]
<1>1. Spanned(r, span) = s
  BY DEF Spanned
<1> HIDE DEF from, until
<1>2. DOMAIN s = ResourceFields
  OBVIOUS
<1>3. s.kind = r.kind /\ s.id = r.id /\ s.of = r.of /\ s.names = r.names /\ s.facts = r.facts
  BY DEF ResourceFields
<1>4. s.from = from /\ s.until = until /\ s.trigger = r.trigger
  BY DEF ResourceFields
<1>5. s.rev = r.rev /\ s.canonical = r.canonical /\ s.sound = r.sound /\ s.ours = r.ours
  BY DEF ResourceFields
<1> HIDE DEF s
<1> QED
  BY <1>1, <1>2, <1>3, <1>4, <1>5 DEF from, until

LEMMA VersionHas ==
  ASSUME NEW r, DOMAIN r = ResourceFields, NEW s \in Versions(r)
  PROVE  /\ DOMAIN s = ResourceFields
         /\ s.kind = r.kind /\ s.id = r.id /\ s.of = r.of /\ s.names = r.names /\ s.facts = r.facts
         /\ s.from = r.from /\ s.until = r.until /\ s.trigger = r.trigger
         /\ s.rev \in {r.rev, 2} /\ s.canonical = r.canonical /\ s.sound = r.sound /\ s.ours = r.ours
<1> DEFINE two == 2
           t == [r EXCEPT !.rev = two]
<1>1. s = r \/ s = t
  BY DEF Versions
<1> HIDE DEF two
<1>2. DOMAIN t = ResourceFields
  OBVIOUS
<1>3. t.kind = r.kind /\ t.id = r.id /\ t.of = r.of /\ t.names = r.names /\ t.facts = r.facts
  BY DEF ResourceFields
<1>4. t.from = r.from /\ t.until = r.until /\ t.trigger = r.trigger
  BY DEF ResourceFields
<1>5. t.rev = two /\ t.canonical = r.canonical /\ t.sound = r.sound /\ t.ours = r.ours
  BY DEF ResourceFields
<1> HIDE DEF t
<1> QED
  BY <1>1, <1>2, <1>3, <1>4, <1>5 DEF two

LEMMA WhenHas ==
  ASSUME NEW event, NEW order
  PROVE  When(event, order).event = event /\ When(event, order).order = order
BY DEF When

LEMMA PlanSpanHas ==
  ASSUME NEW span \in PlanSpans
  PROVE  span.from.order \in Int /\ span.until.order \in Int
<1> DEFINE one == When(1, 0)
           two == When(2, 1)
           some == When(1, NoOrder)
           later == When(2, NoOrder)
           open == Open
<1>1. /\ one.order \in Int /\ two.order \in Int /\ some.order \in Int /\ later.order \in Int /\ open.order \in Int
  BY WhenHas DEF Open, NoOrder
<1>2. \/ span \in [from : {open, one, two, some}, until : {open, one, two}]
      \/ span = [from |-> later, until |-> open]
  BY DEF PlanSpans
<1> HIDE DEF one, two, some, later, open
<1>3. span.from \in {open, one, two, some, later} /\ span.until \in {open, one, two}
  BY <1>2
<1> QED
  BY <1>1, <1>3

\* What the reviews take from a resource.
ReadyToReview(r) ==
    /\ r.from.order \in Int /\ r.until.order \in Int /\ r.rev \in Int /\ r.sound \in BOOLEAN
    /\ r.kind = "relationship" => r.names = {1}
    /\ r.kind = "rule" => r.names # {}

PlanResources == PlanStates \cup PlanRelationships \cup PlanRules \cup PlanProfiles

LEMMA OpenHas == Open.order \in Int
BY DEF Open, NoOrder

LEMMA EntityStateHas ==
  ASSUME NEW id, NEW of, NEW facts
  PROVE  LET r == EntityState(id, of, facts) IN
           /\ Fresh(r)
           /\ r.kind = "state" /\ r.id = id /\ r.of = <<of>> /\ r.names = {}
<1> DEFINE kind == "state"
           about == <<of>>
           called == {}
           said == facts
           r == EntityState(id, of, facts)
<1>1. r = Resource(kind, id, about, called, said)
  BY DEF EntityState
<1> HIDE DEF kind, about, called, said, r
<1>2. Fresh(r) /\ r.kind = kind /\ r.id = id /\ r.of = about /\ r.names = called
  BY <1>1, ResourceHas
<1> QED
  BY <1>2 DEF kind, about, called, r

LEMMA RelationshipHas ==
  ASSUME NEW id, NEW of, NEW facts
  PROVE  LET r == Relationship(id, of, facts) IN
           /\ Fresh(r)
           /\ r.kind = "relationship" /\ r.id = id /\ r.of = of /\ r.names = {1}
<1> DEFINE kind == "relationship"
           about == of
           called == {1}
           said == facts
           r == Relationship(id, of, facts)
<1>1. r = Resource(kind, id, about, called, said)
  BY DEF Relationship
<1> HIDE DEF kind, about, called, said, r
<1>2. Fresh(r) /\ r.kind = kind /\ r.id = id /\ r.of = about /\ r.names = called
  BY <1>1, ResourceHas
<1> QED
  BY <1>2 DEF kind, about, called, r

LEMMA RuleHas ==
  ASSUME NEW id, NEW name, NEW facts
  PROVE  LET r == Rule(id, name, facts) IN
           /\ Fresh(r)
           /\ r.kind = "rule" /\ r.id = id /\ r.of = <<>> /\ r.names = {name}
<1> DEFINE kind == "rule"
           about == <<>>
           called == {name}
           said == facts
           r == Rule(id, name, facts)
<1>1. r = Resource(kind, id, about, called, said)
  BY DEF Rule
<1> HIDE DEF kind, about, called, said, r
<1>2. Fresh(r) /\ r.kind = kind /\ r.id = id /\ r.of = about /\ r.names = called
  BY <1>1, ResourceHas
<1> QED
  BY <1>2 DEF kind, about, called, r

LEMMA ProfileHas ==
  ASSUME NEW id, NEW names
  PROVE  LET r == Profile(id, names) IN
           /\ Fresh(r)
           /\ r.kind = "profile" /\ r.id = id /\ r.of = <<>> /\ r.names = names
<1> DEFINE kind == "profile"
           about == <<>>
           called == names
           said == Fact(1, 1)
           r == Profile(id, names)
<1>1. r = Resource(kind, id, about, called, said)
  BY DEF Profile
<1> HIDE DEF kind, about, called, said, r
<1>2. Fresh(r) /\ r.kind = kind /\ r.id = id /\ r.of = about /\ r.names = called
  BY <1>1, ResourceHas
<1> QED
  BY <1>2 DEF kind, about, called, r

LEMMA FreshIsReady ==
  ASSUME NEW s, Fresh(s), NEW r,
         r.kind = s.kind, r.names = s.names, r.rev \in {s.rev, 2}, r.sound = s.sound,
         r.from.order \in Int, r.until.order \in Int,
         s.kind = "relationship" => s.names = {1}, s.kind = "rule" => s.names # {}
  PROVE  ReadyToReview(r)
<1>1. s.rev = 1 /\ s.sound = TRUE
  BY DEF Fresh
<1>2. r.rev \in Int
  <2>1. r.rev = 1 \/ r.rev = 2
    BY <1>1
  <2> QED
    BY <2>1
<1>3. r.sound \in BOOLEAN
  <2>1. r.sound = TRUE
    BY <1>1
  <2> QED
    BY <2>1
<1> QED
  BY <1>2, <1>3 DEF ReadyToReview

\* A resource without times may be reviewed, and all its versions in a span.
LEMMA PlannedReady ==
  ASSUME NEW s, Fresh(s), s.kind = "relationship" => s.names = {1}, s.kind = "rule" => s.names # {}
  PROVE  /\ ReadyToReview(s)
         /\ \A r \in Versions(s) : ReadyToReview(r)
         /\ \A span \in PlanSpans : ReadyToReview(Spanned(s, span)) /\ \A r \in Versions(Spanned(s, span)) : ReadyToReview(r)
<1>1. DOMAIN s = ResourceFields /\ s.from = Open /\ s.until = Open
  BY DEF Fresh
<1>2. ReadyToReview(s)
  BY <1>1, OpenHas, FreshIsReady
<1>3. ASSUME NEW r \in Versions(s) PROVE ReadyToReview(r)
  BY <1>1, VersionHas, OpenHas, FreshIsReady
<1>4. ASSUME NEW span \in PlanSpans
      PROVE  ReadyToReview(Spanned(s, span)) /\ \A r \in Versions(Spanned(s, span)) : ReadyToReview(r)
  <2> DEFINE t == Spanned(s, span)
  <2>1. /\ DOMAIN t = ResourceFields /\ t.kind = s.kind /\ t.names = s.names /\ t.rev = s.rev /\ t.sound = s.sound
        /\ t.from = span.from /\ t.until = span.until
    BY <1>1, SpannedHas
  <2>2. span.from.order \in Int /\ span.until.order \in Int
    BY PlanSpanHas
  <2> HIDE DEF t
  <2>3. ReadyToReview(t)
    BY <2>1, <2>2, FreshIsReady
  <2>4. ASSUME NEW r \in Versions(t) PROVE ReadyToReview(r)
    <3>1. /\ r.from = t.from /\ r.until = t.until /\ r.rev \in {t.rev, 2} /\ r.sound = t.sound
          /\ r.kind = t.kind /\ r.names = t.names
      BY <2>1, VersionHas
    <3> QED
      BY <2>1, <2>2, <3>1, FreshIsReady
  <2> QED
    BY <2>3, <2>4 DEF t
<1> QED
  BY <1>2, <1>3, <1>4

LEMMA PlanResourceHas ==
  ASSUME NEW r \in PlanResources
  PROVE  ReadyToReview(r)
<1>1. CASE r \in PlanStates
  <2>1. \/ \E id, of, facts : r = EntityState(id, of, facts)
        \/ \E id, of, facts : \E span \in PlanSpans : r \in Versions(Spanned(EntityState(id, of, facts), span))
    BY <1>1 DEF PlanStates
  <2>2. \A id, of, facts : LET s == EntityState(id, of, facts) IN
          /\ ReadyToReview(s)
          /\ \A span \in PlanSpans : \A t \in Versions(Spanned(s, span)) : ReadyToReview(t)
    BY EntityStateHas, PlannedReady
  <2> QED
    BY <2>1, <2>2
<1>2. CASE r \in PlanRelationships
  <2>1. \/ \E id, of, facts : r = Relationship(id, of, facts)
        \/ \E id, of, facts : \E span \in PlanSpans : r = Spanned(Relationship(id, of, facts), span)
    BY <1>2 DEF PlanRelationships
  <2>2. \A id, of, facts : LET s == Relationship(id, of, facts) IN
          /\ ReadyToReview(s)
          /\ \A span \in PlanSpans : ReadyToReview(Spanned(s, span))
    BY RelationshipHas, PlannedReady
  <2> QED
    BY <2>1, <2>2
<1>3. CASE r \in PlanRules
  <2>1. \E id, name, facts : r \in Versions(Rule(id, name, facts))
    BY <1>3 DEF PlanRules
  <2>2. \A id, name, facts : \A t \in Versions(Rule(id, name, facts)) : ReadyToReview(t)
    BY RuleHas, PlannedReady
  <2> QED
    BY <2>1, <2>2
<1>4. CASE r \in PlanProfiles
  <2>1. \E id, names : r \in Versions(Profile(id, names))
    BY <1>4 DEF PlanProfiles
  <2>2. \A id, names : \A t \in Versions(Profile(id, names)) : ReadyToReview(t)
    BY ProfileHas, PlannedReady
  <2> QED
    BY <2>1, <2>2
<1> QED
  BY <1>1, <1>2, <1>3, <1>4 DEF PlanResources

LEMMA StoredJoin ==
  ASSUME NEW A, StoredSoundly(A), NEW B,
         \A one, other \in B : one.kind = other.kind /\ one.id = other.id => one = other,
         \A a \in A, b \in B : a.kind # b.kind \/ a.id # b.id,
         \A b \in B : b.ours /\ ToSet(b.of) \subseteq ProfileIds(A)
  PROVE  StoredSoundly(A \cup B)
<1>1. ProfileIds(A) \subseteq ProfileIds(A \cup B)
  BY DEF ProfileIds, OfKind
<1>2. \A row \in A \cup B : row.ours /\ ToSet(row.of) \subseteq ProfileIds(A \cup B)
  BY <1>1 DEF StoredSoundly
<1>3. \A one, other \in A \cup B : one.kind = other.kind /\ one.id = other.id => one = other
  BY DEF StoredSoundly
<1> QED
  BY <1>2, <1>3 DEF StoredSoundly

LEMMA PeopleAre ==
  /\ StoredSoundly(People)
  /\ \A row \in People : row.kind = "profile" /\ row.id \in {<<"c1">>, <<"c2">>}
  /\ \A row \in People : ReadyToReview(row)
  /\ ProfileIds(People) = {<<"c1">>, <<"c2">>}
<1> DEFINE c1 == <<"c1">>
           c2 == <<"c2">>
           name1 == {1}
           name2 == {2}
           nobody == <<>>
           one == Profile(c1, name1)
           two == Profile(c2, name2)
<1>1. People = {one, two} /\ c1 # c2
  BY DEF People
<1>2. ToSet(nobody) = {}
  BY DEF ToSet
<1> HIDE DEF c1, c2, name1, name2
<1>3. /\ Fresh(one) /\ one.kind = "profile" /\ one.id = c1 /\ one.of = nobody
      /\ Fresh(two) /\ two.kind = "profile" /\ two.id = c2 /\ two.of = nobody
  BY ProfileHas
<1> HIDE DEF nobody, one, two
<1>4. ReadyToReview(one) /\ ReadyToReview(two)
  BY <1>3, PlannedReady
<1>5. one.ours /\ two.ours
  BY <1>3 DEF Fresh
<1>6. ProfileIds(People) = {c1, c2}
  BY <1>1, <1>3 DEF ProfileIds, OfKind
<1>7. StoredSoundly(People)
  BY <1>1, <1>2, <1>3, <1>5 DEF StoredSoundly
<1> QED
  BY <1>1, <1>3, <1>4, <1>6, <1>7 DEF c1, c2

\* What is stored besides two people when a plan is asked about.
LEMMA StoredRowsAre ==
  ASSUME NEW kind \in Kinds, NEW stored \in StoredRows[kind]
  PROVE  StoredSoundly(People \cup stored) /\ Comparable(People \cup stored)
<1> DEFINE c1 == <<"c1">>
           c2 == <<"c2">>
           c3 == <<"c3">>
           w1 == <<"w1">>
           w2 == <<"w2">>
           fact == Fact(1, 1)
           fits(row) == row.ours /\ ReadyToReview(row) /\ ToSet(row.of) \subseteq {c1, c2}
           new(row) == row.kind # "profile" \/ row.id \notin {c1, c2}
           single == \A one, other \in stored : one.kind = other.kind /\ one.id = other.id => one = other
<1>1. single /\ \A row \in stored : fits(row) /\ new(row)
  <2>1. CASE kind = "state"
    <3> DEFINE id == <<"s1">>
               s == EntityState(id, c1, fact)
    <3>1. stored = {} \/ \E span \in PlanSpans : stored = {Spanned(StoredState, span)}
      BY <2>1 DEF StoredRows
    <3>2. StoredState = s
      BY DEF StoredState
    <3> HIDE DEF c1, c2, fact, id
    <3>3. Fresh(s) /\ s.kind = "state" /\ s.of = <<c1>>
      BY EntityStateHas
    <3>4. ToSet(<<c1>>) \subseteq {c1, c2}
      BY DEF ToSet
    <3> HIDE DEF s
    <3>5. DOMAIN s = ResourceFields /\ s.ours
      BY <3>3 DEF Fresh
    <3>6. ASSUME NEW span \in PlanSpans PROVE fits(Spanned(s, span)) /\ Spanned(s, span).kind = "state"
      <4> DEFINE t == Spanned(s, span)
      <4>1. t.kind = s.kind /\ t.of = s.of /\ t.ours = s.ours
        BY <3>5, SpannedHas
      <4>2. ReadyToReview(t)
        BY <3>3, PlannedReady
      <4> HIDE DEF t
      <4> QED
        BY <3>3, <3>4, <3>5, <4>1, <4>2 DEF t
    <3> HIDE DEF fits
    <3> QED
      BY <3>1, <3>2, <3>6
  <2>2. CASE kind = "relationship"
    <3> DEFINE id == <<"r1">>
               of == <<c1, c2>>
               s == Relationship(id, of, fact)
    <3>1. stored = {} \/ \E span \in PlanSpans : stored = {Spanned(s, span)}
      BY <2>2 DEF StoredRows
    <3>2. ToSet(of) \subseteq {c1, c2}
      <4> HIDE DEF c1, c2
      <4> QED
        BY DEF ToSet
    <3> HIDE DEF c1, c2, fact, id, of
    <3>3. Fresh(s) /\ s.kind = "relationship" /\ s.of = of /\ s.names = {1}
      BY RelationshipHas
    <3> HIDE DEF s
    <3>4. DOMAIN s = ResourceFields /\ s.ours
      BY <3>3 DEF Fresh
    <3>5. ASSUME NEW span \in PlanSpans PROVE fits(Spanned(s, span)) /\ Spanned(s, span).kind = "relationship"
      <4> DEFINE t == Spanned(s, span)
      <4>1. t.kind = s.kind /\ t.of = s.of /\ t.ours = s.ours
        BY <3>4, SpannedHas
      <4>2. ReadyToReview(t)
        BY <3>3, PlannedReady
      <4> HIDE DEF t
      <4> QED
        BY <3>2, <3>3, <3>4, <4>1, <4>2 DEF t
    <3> HIDE DEF fits
    <3> QED
      BY <3>1, <3>5
  <2>3. CASE kind = "rule"
    <3> DEFINE first == 1
               second == 2
               one == Rule(w1, first, fact)
               two == Rule(w2, second, fact)
    <3>1. stored = {} \/ stored = {one} \/ stored = {one, two}
      BY <2>3 DEF StoredRows
    <3>2. w1 # w2
      OBVIOUS
    <3> HIDE DEF first, second, w1, w2, fact, c1, c2
    <3>3. /\ Fresh(one) /\ one.kind = "rule" /\ one.id = w1 /\ one.of = <<>> /\ one.names = {first}
          /\ Fresh(two) /\ two.kind = "rule" /\ two.id = w2 /\ two.of = <<>> /\ two.names = {second}
      BY RuleHas
    <3> HIDE DEF one, two
    <3>4. ReadyToReview(one) /\ ReadyToReview(two)
      BY <3>3, PlannedReady
    <3>5. one.ours /\ two.ours
      BY <3>3 DEF Fresh
    <3>6. ToSet(<<>>) = {}
      BY DEF ToSet
    <3>7. fits(one) /\ fits(two)
      BY <3>3, <3>4, <3>5, <3>6
    <3> HIDE DEF fits
    <3> QED
      BY <3>1, <3>2, <3>3, <3>7
  <2>4. CASE kind = "profile"
    <3> DEFINE name == {3}
               s == Profile(c3, name)
    <3>1. stored = {} \/ stored = {s}
      BY <2>4 DEF StoredRows
    <3>2. c3 \notin {c1, c2}
      OBVIOUS
    <3> HIDE DEF name, c1, c2, c3
    <3>3. Fresh(s) /\ s.kind = "profile" /\ s.id = c3 /\ s.of = <<>>
      BY ProfileHas
    <3> HIDE DEF s
    <3>4. ReadyToReview(s)
      BY <3>3, PlannedReady
    <3>5. s.ours
      BY <3>3 DEF Fresh
    <3>6. ToSet(<<>>) = {}
      BY DEF ToSet
    <3>7. fits(s)
      BY <3>3, <3>4, <3>5, <3>6
    <3> HIDE DEF fits
    <3> QED
      BY <3>1, <3>2, <3>3, <3>7
  <2> QED
    BY <2>1, <2>2, <2>3, <2>4 DEF Kinds
<1> HIDE DEF c3, w1, w2, fact, single
<1>2. StoredSoundly(People \cup stored)
  <2>1. \A a \in People, b \in stored : a.kind # b.kind \/ a.id # b.id
    BY <1>1, PeopleAre
  <2>2. \A b \in stored : b.ours /\ ToSet(b.of) \subseteq ProfileIds(People)
    BY <1>1, PeopleAre
  <2>3. StoredSoundly(People)
    BY PeopleAre
  <2> QED
    BY <1>1, <2>1, <2>2, <2>3, StoredJoin DEF single
<1>3. Comparable(People \cup stored)
  BY <1>1, PeopleAre DEF Comparable, ReadyToReview
<1> QED
  BY <1>2, <1>3

\* A reversed list of updates plans the same.
LEMMA ReversedPlans ==
  ASSUME NEW U, NEW updates \in Seq(U)
  PROVE  LET reversed == Reverse(updates) IN
           /\ reversed \in Seq(U) /\ DOMAIN reversed = DOMAIN updates
           /\ Planned(reversed) = Planned(updates)
           /\ LocalIdsDiffer(reversed) <=> LocalIdsDiffer(updates)
           /\ (\A i, j \in DOMAIN updates : i # j => updates[i].id # updates[j].id) =>
                \A i, j \in DOMAIN reversed : i # j => reversed[i].id # reversed[j].id
<1> DEFINE reversed == Reverse(updates)
           n == Len(updates)
           at(i) == (n - i) + 1
<1>1. n \in Nat /\ DOMAIN updates = 1..n
  OBVIOUS
<1>2. reversed = [i \in 1..n |-> updates[at(i)]]
  BY DEF Reverse
<1>3. \A i \in 1..n : at(i) \in 1..n /\ at(at(i)) = i
  BY <1>1
<1>4. \A i, j \in 1..n : i # j => at(i) # at(j)
  BY <1>1
<1>5. reversed \in Seq(U)
  BY ReverseHas
<1>6. DOMAIN reversed = 1..n /\ \A i \in 1..n : reversed[i] = updates[at(i)]
  BY <1>2
<1> HIDE DEF reversed, n, at
<1>7. \A i \in 1..n : updates[i] = reversed[at(i)]
  BY <1>3, <1>6
<1>8. Planned(reversed) = Planned(updates)
  <2>1. \A r : r \in Planned(updates) <=> \E i \in 1..n : r = updates[i].resource
    BY <1>1 DEF Planned
  <2>2. \A r : r \in Planned(reversed) <=> \E i \in 1..n : r = reversed[i].resource
    BY <1>6 DEF Planned
  <2>3. ASSUME NEW r \in Planned(updates) PROVE r \in Planned(reversed)
    <3>1. PICK i \in 1..n : r = updates[i].resource
      BY <2>1
    <3> QED
      BY <1>3, <1>7, <2>2, <3>1
  <2>4. ASSUME NEW r \in Planned(reversed) PROVE r \in Planned(updates)
    <3>1. PICK i \in 1..n : r = reversed[i].resource
      BY <2>2
    <3> QED
      BY <1>3, <1>6, <2>1, <3>1
  <2> QED
    BY <2>3, <2>4
<1> DEFINE apart(s) == \A i, j \in 1..n : i # j =>
                          /\ s[i].id # s[j].id
                          /\ <<s[i].resource.kind, s[i].resource.id>> # <<s[j].resource.kind, s[j].resource.id>>
<1>9. LocalIdsDiffer(updates) <=> apart(updates)
  BY <1>1 DEF LocalIdsDiffer
<1>10. LocalIdsDiffer(reversed) <=> apart(reversed)
  BY <1>6 DEF LocalIdsDiffer
<1>11. ASSUME apart(updates) PROVE apart(reversed)
  <2> SUFFICES ASSUME NEW i \in 1..n, NEW j \in 1..n, i # j
               PROVE  /\ reversed[i].id # reversed[j].id
                      /\ <<reversed[i].resource.kind, reversed[i].resource.id>> # <<reversed[j].resource.kind, reversed[j].resource.id>>
    OBVIOUS
  <2>1. at(i) \in 1..n /\ at(j) \in 1..n /\ at(i) # at(j) /\ reversed[i] = updates[at(i)] /\ reversed[j] = updates[at(j)]
    BY <1>3, <1>4, <1>6
  <2> QED
    BY <1>11, <2>1
<1>12. ASSUME apart(reversed) PROVE apart(updates)
  <2> SUFFICES ASSUME NEW i \in 1..n, NEW j \in 1..n, i # j
               PROVE  /\ updates[i].id # updates[j].id
                      /\ <<updates[i].resource.kind, updates[i].resource.id>> # <<updates[j].resource.kind, updates[j].resource.id>>
    OBVIOUS
  <2>1. at(i) \in 1..n /\ at(j) \in 1..n /\ at(i) # at(j) /\ updates[i] = reversed[at(i)] /\ updates[j] = reversed[at(j)]
    BY <1>3, <1>4, <1>7
  <2> QED
    BY <1>12, <2>1
<1>13. ASSUME \A i, j \in DOMAIN updates : i # j => updates[i].id # updates[j].id,
              NEW i \in 1..n, NEW j \in 1..n, i # j
       PROVE  reversed[i].id # reversed[j].id
  BY <1>1, <1>3, <1>4, <1>6, <1>13
<1> QED
  BY <1>1, <1>5, <1>6, <1>8, <1>9, <1>10, <1>11, <1>12, <1>13 DEF reversed

PlanUpdates == [id : Nat, resource : PlanResources]

\* What is asked about plans, and answered.
PlanIsAsked ==
    topic = "plan" =>
        /\ question.updates \in Seq(PlanUpdates)
        /\ \A i, j \in DOMAIN question.updates : i # j => question.updates[i].id # question.updates[j].id
        /\ StoredSoundly(question.canon) /\ Comparable(question.canon)
        /\ answered =>
            /\ answer.decision = PlanDecision(Problems(PlanOf(question.updates), question.canon, {1, 2}, TRUE))
            /\ answer.commits = Commits(question.updates, question.canon)
            /\ answer.rows = AfterCommit(question.canon, question.updates)

LEMMA RowsAreResources ==
  ASSUME NEW kind \in Kinds, NEW r \in PlanRows[kind]
  PROVE  r \in PlanResources
BY DEF PlanRows, Kinds, PlanResources

LEMMA PlansAsked ==
  ASSUME AskPlan
  PROVE  /\ question.updates \in Seq(PlanUpdates)
         /\ \A i, j \in DOMAIN question.updates : i # j => question.updates[i].id # question.updates[j].id
         /\ StoredSoundly(question.canon) /\ Comparable(question.canon)
<1>1. PICK kind \in Kinds :
        \E stored \in StoredRows[kind], one \in PlanRows[kind] :
            \E rest \in {<<>>} \cup {<<two>> : two \in PlanRows[kind]} \cup {<<two>> : two \in PlanRows["profile"]} :
                Ask("plan", [canon |-> People \cup stored,
                             updates |-> [i \in 1..(1 + Len(rest)) |-> [id |-> i, resource |-> (<<one>> \o rest)[i]]]])
  BY DEF AskPlan
<1>2. PICK stored \in StoredRows[kind], one \in PlanRows[kind] :
            \E rest \in {<<>>} \cup {<<two>> : two \in PlanRows[kind]} \cup {<<two>> : two \in PlanRows["profile"]} :
                Ask("plan", [canon |-> People \cup stored,
                             updates |-> [i \in 1..(1 + Len(rest)) |-> [id |-> i, resource |-> (<<one>> \o rest)[i]]]])
  BY <1>1
<1>3. PICK rest \in {<<>>} \cup {<<two>> : two \in PlanRows[kind]} \cup {<<two>> : two \in PlanRows["profile"]} :
                Ask("plan", [canon |-> People \cup stored,
                             updates |-> [i \in 1..(1 + Len(rest)) |-> [id |-> i, resource |-> (<<one>> \o rest)[i]]]])
  BY <1>2
<1>4. one \in PlanResources /\ \A two \in PlanRows[kind] \cup PlanRows["profile"] : two \in PlanResources
  <2> DEFINE profile == "profile"
  <2>1. profile \in Kinds
    BY DEF Kinds
  <2> HIDE DEF profile
  <2>2. \A two \in PlanRows[profile] : two \in PlanResources
    BY <2>1, RowsAreResources
  <2> QED
    BY <2>2, RowsAreResources DEF profile
<1>5. rest \in Seq(PlanResources)
  <2> DEFINE more == PlanRows[kind] \cup PlanRows["profile"]
  <2>1. rest = <<>> \/ \E two \in more : rest = <<two>>
    BY <1>3
  <2> HIDE DEF more
  <2>2. ASSUME NEW two \in more, rest = <<two>> PROVE rest \in Seq(PlanResources)
    <3>1. two \in PlanResources
      BY <1>4 DEF more
    <3> QED
      BY <2>2, <3>1
  <2>3. <<>> \in Seq(PlanResources)
    OBVIOUS
  <2> QED
    BY <2>1, <2>2, <2>3
<1> DEFINE all == <<one>> \o rest
           canon == People \cup stored
           n == 1 + Len(rest)
           updates == [i \in 1..n |-> [id |-> i, resource |-> all[i]]]
<1>6. all \in Seq(PlanResources) /\ n \in Nat /\ Len(all) = n
  BY <1>4, <1>5
<1>7. question = [canon |-> canon, updates |-> updates]
  BY <1>3 DEF Ask
<1> HIDE DEF all, n, canon
<1>8. \A i \in 1..n : all[i] \in PlanResources /\ i \in Nat
  BY <1>6
<1>9. updates \in [1..n -> PlanUpdates]
  BY <1>8 DEF PlanUpdates
<1>10. updates \in Seq(PlanUpdates)
  <2> HIDE DEF updates
  <2> QED
    BY <1>6, <1>9
<1>11. DOMAIN updates = 1..n /\ \A i \in 1..n : updates[i].id = i
  OBVIOUS
<1> HIDE DEF updates
<1>12. question.canon = canon /\ question.updates = updates
  BY <1>7
<1>13. StoredSoundly(canon) /\ Comparable(canon)
  BY StoredRowsAre DEF canon
<1> QED
  BY <1>10, <1>11, <1>12, <1>13

\* Approved plans keep the canon coherent, and no order of updates decides.
LEMMA PlansAreCoherent == PlanIsAsked => ApprovedCoherent /\ PlanOrderFree
<1> SUFFICES ASSUME PlanIsAsked, topic = "plan", answered PROVE ApprovedCoherent /\ PlanOrderFree
  BY DEF ApprovedCoherent, PlanOrderFree, Replied
<1> DEFINE updates == question.updates
           canon == question.canon
           planned == Planned(updates)
           known == {1, 2}
           reversed == Reverse(updates)
<1>1. /\ updates \in Seq(PlanUpdates)
      /\ \A i, j \in DOMAIN updates : i # j => updates[i].id # updates[j].id
      /\ StoredSoundly(canon) /\ Comparable(canon)
      /\ answer.decision = PlanDecision(Problems(PlanOf(updates), canon, known, TRUE))
      /\ answer.commits = Commits(updates, canon)
      /\ answer.rows = AfterCommit(canon, updates)
  BY DEF PlanIsAsked
<1> HIDE DEF updates, canon, known
<1>2. \A resource \in planned : ReadyToReview(resource)
  <2>1. \A i \in DOMAIN updates : updates[i] \in PlanUpdates
    BY <1>1
  <2>2. \A i \in DOMAIN updates : updates[i].resource \in PlanResources
    BY <2>1 DEF PlanUpdates
  <2> QED
    BY <2>2, PlanResourceHas DEF Planned
<1>3. \A resource \in planned : resource.sound \in BOOLEAN /\ resource.rev \in Int
  BY <1>2 DEF ReadyToReview
<1>4. Comparable(canon \cup planned)
  BY <1>1, <1>2 DEF Comparable, ReadyToReview
<1>5. ASSUME answer.decision = "APPROVE"
      PROVE  /\ Commits(updates, canon)
             /\ FrozenContract(AfterCommit(canon, updates))
             /\ Coherent(canon) => Coherent(AfterCommit(canon, updates))
  BY <1>1, <1>3, <1>4, <1>5, ApprovedStaysCoherent
<1>6. ApprovedCoherent
  BY <1>1, <1>5 DEF ApprovedCoherent, canon
<1>7. /\ reversed \in Seq(PlanUpdates) /\ Planned(reversed) = planned
      /\ LocalIdsDiffer(reversed) <=> LocalIdsDiffer(updates)
      /\ \A i, j \in DOMAIN reversed : i # j => reversed[i].id # reversed[j].id
  BY <1>1, ReversedPlans
<1> HIDE DEF reversed
<1>8. PlanDecision(Problems(PlanOf(reversed), canon, known, TRUE)) = answer.decision
  BY <1>1, <1>7, DecidedAlike
<1>9. ASSUME answer.commits
      PROVE  /\ Commits(reversed, canon)
             /\ AfterCommit(canon, reversed) = answer.rows
             /\ AfterCommit(answer.rows, updates) = answer.rows
  <2>1. Commits(updates, canon)
    BY <1>1, <1>9
  <2>2. LocalIdsDiffer(updates)
    BY <2>1 DEF Commits, ValidPlan
  <2>3. /\ Commits(reversed, canon) <=> Commits(updates, canon)
        /\ AfterCommit(canon, reversed) = AfterCommit(canon, updates)
    BY <1>1, <1>7, CommitsAlike
  <2>4. AfterCommit(AfterCommit(canon, updates), updates) = AfterCommit(canon, updates)
    BY <1>3, <2>2, CommittedTwice
  <2> QED
    BY <1>1, <2>1, <2>3, <2>4
<1>10. PlanOrderFree
  BY <1>8, <1>9 DEF PlanOrderFree, PlanOf, reversed, updates, canon, known
<1> QED
  BY <1>6, <1>10

\* Records of a resource's fields, and those alike but for ids and profiles.
IsRow(r) == DOMAIN r = ResourceFields /\ r = [field \in ResourceFields |-> r[field]]

Content == ResourceFields \ {"id", "of"}

SameContent(one, other) == \A field \in Content : one[field] = other[field]

LEMMA RowsEqual ==
  ASSUME NEW one, NEW other, IsRow(one), IsRow(other), SameContent(one, other), one.id = other.id, one.of = other.of
  PROVE  one = other
<1>1. \A field \in ResourceFields : one[field] = other[field]
  BY DEF SameContent, Content
<1>2. [field \in ResourceFields |-> one[field]] = [field \in ResourceFields |-> other[field]]
  BY <1>1
<1> QED
  BY <1>2 DEF IsRow

LEMMA Renamed ==
  ASSUME NEW r, IsRow(r), NEW id
  PROVE  LET s == [r EXCEPT !.id = id] IN IsRow(s) /\ SameContent(s, r) /\ s.id = id /\ s.of = r.of
<1> DEFINE s == [r EXCEPT !.id = id]
<1>1. DOMAIN r = ResourceFields /\ "id" \in ResourceFields /\ "of" \in ResourceFields
  BY DEF IsRow, ResourceFields
<1> HIDE DEF ResourceFields
<1>2. DOMAIN s = ResourceFields /\ s = [field \in ResourceFields |-> s[field]]
  BY <1>1
<1>3. s.id = id /\ s.of = r.of
  BY <1>1
<1>4. \A field \in Content : s[field] = r[field]
  BY <1>1 DEF Content
<1> QED
  BY <1>2, <1>3, <1>4 DEF IsRow, SameContent

LEMMA Moved ==
  ASSUME NEW r, IsRow(r), NEW of
  PROVE  LET s == [r EXCEPT !.of = of] IN IsRow(s) /\ SameContent(s, r) /\ s.of = of /\ s.id = r.id
<1> DEFINE s == [r EXCEPT !.of = of]
<1>1. DOMAIN r = ResourceFields /\ "id" \in ResourceFields /\ "of" \in ResourceFields
  BY DEF IsRow, ResourceFields
<1> HIDE DEF ResourceFields
<1>2. DOMAIN s = ResourceFields /\ s = [field \in ResourceFields |-> s[field]]
  BY <1>1
<1>3. s.of = of /\ s.id = r.id
  BY <1>1
<1>4. \A field \in Content : s[field] = r[field]
  BY <1>1 DEF Content
<1> QED
  BY <1>2, <1>3, <1>4 DEF IsRow, SameContent

LEMMA BothSet ==
  ASSUME NEW r, NEW id, NEW of
  PROVE  [r EXCEPT !.id = id, !.of = of] = [[r EXCEPT !.id = id] EXCEPT !.of = of]
OBVIOUS

LEMMA ContentHas ==
  /\ "kind" \in Content /\ "names" \in Content /\ "facts" \in Content /\ "from" \in Content /\ "until" \in Content
  /\ "trigger" \in Content /\ "rev" \in Content /\ "canonical" \in Content /\ "sound" \in Content /\ "ours" \in Content
BY DEF Content, ResourceFields

\* What SameContent says, field by field.
LEMMA SameFields ==
  ASSUME NEW one, NEW other, SameContent(one, other)
  PROVE  /\ one.kind = other.kind /\ one.names = other.names /\ one.facts = other.facts
         /\ one.from = other.from /\ one.until = other.until /\ one.trigger = other.trigger
         /\ one.rev = other.rev /\ one.canonical = other.canonical /\ one.sound = other.sound /\ one.ours = other.ours
BY ContentHas DEF SameContent

LEMMA SemanticHas ==
  ASSUME NEW r, IsRow(r)
  PROVE  LET s == Semantic(r) IN
           /\ IsRow(s) /\ SameContent(s, r) /\ s.id = <<>>
           /\ s.of = IF r.kind = "state" THEN <<>> ELSE r.of
<1> DEFINE none == <<>>
           of == IF r.kind = "state" THEN <<>> ELSE r.of
           m == [r EXCEPT !.id = none]
           s == [m EXCEPT !.of = of]
<1>1. Semantic(r) = s
  BY BothSet DEF Semantic
<1> HIDE DEF none, of
<1>2. IsRow(m) /\ SameContent(m, r) /\ m.id = none
  BY Renamed
<1> HIDE DEF m
<1>3. IsRow(s) /\ SameContent(s, m) /\ s.of = of /\ s.id = m.id
  BY <1>2, Moved
<1> HIDE DEF s
<1>4. SameContent(s, r)
  BY <1>2, <1>3 DEF SameContent
<1> QED
  BY <1>1, <1>2, <1>3, <1>4 DEF none, of

\* Content is the same if all else but the profiles of a state is.
LEMMA SemanticSame ==
  ASSUME NEW one, NEW other, IsRow(one), IsRow(other)
  PROVE  Semantic(one) = Semantic(other) <=> SameContent(one, other) /\ (one.kind # "state" => one.of = other.of)
<1> DEFINE s == Semantic(one)
           t == Semantic(other)
<1>1. /\ IsRow(s) /\ SameContent(s, one) /\ s.id = <<>> /\ s.of = IF one.kind = "state" THEN <<>> ELSE one.of
      /\ IsRow(t) /\ SameContent(t, other) /\ t.id = <<>> /\ t.of = IF other.kind = "state" THEN <<>> ELSE other.of
  BY SemanticHas
<1> HIDE DEF s, t
<1>2. ASSUME s = t PROVE SameContent(one, other) /\ (one.kind # "state" => one.of = other.of)
  <2>1. SameContent(one, other)
    BY <1>1, <1>2 DEF SameContent
  <2>2. one.kind = other.kind
    BY <2>1, SameFields
  <2> QED
    BY <1>1, <1>2, <2>1, <2>2
<1>3. ASSUME SameContent(one, other), one.kind # "state" => one.of = other.of PROVE s = t
  <2>1. one.kind = other.kind
    BY <1>3, SameFields
  <2>2. SameContent(s, t)
    BY <1>1, <1>3 DEF SameContent
  <2>3. s.of = t.of
    BY <1>1, <1>3, <2>1
  <2> QED
    BY <1>1, <2>2, <2>3, RowsEqual
<1> QED
  BY <1>2, <1>3 DEF s, t

\* A resource once its ids are settled.
LEMMA RemadeHas ==
  ASSUME NEW updates, NEW ctx, NEW r, IsRow(r)
  PROVE  LET s == Remade(updates, ctx, r) IN
           /\ IsRow(s) /\ SameContent(s, r)
           /\ s.of = [i \in DOMAIN r.of |-> Refer(updates, ctx, r.of[i])]
           /\ s.id = IF \E row \in ctx.canon : row.kind = r.kind /\ row.id = r.id THEN r.id ELSE <<r.kind, Semantic(s)>>
<1> DEFINE of == [i \in DOMAIN r.of |-> Refer(updates, ctx, r.of[i])]
           m == [r EXCEPT !.of = of]
           id == SettledId(m, ctx)
           s == [m EXCEPT !.id = id]
<1>1. Remade(updates, ctx, r) = s
  BY DEF Remade
<1> HIDE DEF of
<1>2. IsRow(m) /\ SameContent(m, r) /\ m.of = of /\ m.id = r.id
  BY Moved
<1> HIDE DEF m
<1>3. id = IF \E row \in ctx.canon : row.kind = m.kind /\ row.id = m.id THEN m.id ELSE <<m.kind, Semantic(m)>>
  BY DEF SettledId
<1> HIDE DEF id
<1>4. IsRow(s) /\ SameContent(s, m) /\ s.id = id /\ s.of = m.of
  BY <1>2, Renamed
<1> HIDE DEF s
<1>5. SameContent(s, r)
  BY <1>2, <1>4 DEF SameContent
<1>6. m.kind = r.kind /\ s.kind = r.kind
  BY <1>2, <1>5, SameFields
<1>7. Semantic(s) = Semantic(m)
  BY <1>2, <1>4, SemanticSame
<1> QED
  BY <1>1, <1>2, <1>3, <1>4, <1>5, <1>6, <1>7 DEF of

\* An id that no resource is given for its content.
Plain(id) == \A kind, content : id # <<kind, content>>

\* A draft's resource: profiles and rules are about no profile, and others
\* about profiles with plain ids.
DraftRow(r) ==
    /\ IsRow(r) /\ r.kind \in Kinds
    /\ r.kind \in {"profile", "rule"} => r.of = <<>>
    /\ r.of = [k \in DOMAIN r.of |-> r.of[k]]
    /\ \A k \in DOMAIN r.of : Plain(r.of[k])

\* A profile of the draft is the one its local id means.
LEMMA ProfileMeant ==
  ASSUME NEW updates, NEW ctx, LocalIdsDiffer(updates), NEW i \in DOMAIN updates, updates[i].resource.kind = "profile"
  PROVE  Refer(updates, ctx, updates[i].resource.id) = SettledId(updates[i].resource, ctx)
<1> DEFINE one == updates[i].resource
           local == {resource \in OfKind(Planned(updates), "profile") : resource.id = one.id}
<1>1. one \in local
  BY DEF OfKind, Planned
<1>2. \A other \in local : other = one
  <2> SUFFICES ASSUME NEW other \in local PROVE other = one
    OBVIOUS
  <2>1. PICK j \in DOMAIN updates : other = updates[j].resource /\ other.kind = "profile" /\ other.id = one.id
    BY DEF OfKind, Planned
  <2>2. j = i
    BY <2>1 DEF LocalIdsDiffer
  <2> QED
    BY <2>1, <2>2
<1>3. Refer(updates, ctx, one.id) = SettledId(CHOOSE resource \in local : TRUE, ctx)
  BY <1>1 DEF Refer
<1> HIDE DEF local
<1>4. (CHOOSE resource \in local : TRUE) = one
  BY <1>1, <1>2
<1> QED
  BY <1>3, <1>4

\* Any other id is a stored one.
LEMMA NoneMeant ==
  ASSUME NEW updates, NEW ctx, NEW id,
         \A i \in DOMAIN updates : updates[i].resource.kind = "profile" => updates[i].resource.id # id
  PROVE  Refer(updates, ctx, id) = id
<1>1. {resource \in OfKind(Planned(updates), "profile") : resource.id = id} = {}
  BY DEF OfKind, Planned
<1> QED
  BY <1>1 DEF Refer

\* Ids of the same profile once settled are ids of profiles alike.
LEMMA ReferApart ==
  ASSUME NEW updates, NEW ctx, LocalIdsDiffer(updates), NEW a, NEW b, Plain(a), Plain(b), a # b,
         Refer(updates, ctx, a) = Refer(updates, ctx, b)
  PROVE  \E i, j \in DOMAIN updates :
            /\ i # j /\ updates[i].resource.kind = "profile" /\ updates[j].resource.kind = "profile"
            /\ Semantic(updates[i].resource) = Semantic(updates[j].resource)
<1> DEFINE r(i) == updates[i].resource
           means(i, id) == r(i).kind = "profile" /\ r(i).id = id
           new(i) == ~\E row \in ctx.canon : row.kind = r(i).kind /\ row.id = r(i).id
           refer(id) == Refer(updates, ctx, id)
<1>1. ASSUME NEW id, NEW i \in DOMAIN updates, means(i, id)
      PROVE  refer(id) = IF new(i) THEN <<r(i).kind, Semantic(r(i))>> ELSE id
  <2>1. refer(id) = SettledId(r(i), ctx)
    BY <1>1, ProfileMeant
  <2> QED
    BY <1>1, <2>1 DEF SettledId
<1>2. ASSUME NEW id, \A i \in DOMAIN updates : ~means(i, id) PROVE refer(id) = id
  BY <1>2, NoneMeant
<1>3. refer(a) = refer(b)
  OBVIOUS
<1> HIDE DEF refer
<1>4. ASSUME NEW id, NEW other, Plain(other), NEW i \in DOMAIN updates, means(i, id), refer(id) = other PROVE id = other
  <2>1. other # <<r(i).kind, Semantic(r(i))>>
    BY <1>4 DEF Plain
  <2> QED
    BY <1>1, <1>4, <2>1
<1>5. PICK i \in DOMAIN updates : means(i, a) /\ new(i)
  <2>1. ASSUME \A i \in DOMAIN updates : ~(means(i, a) /\ new(i)) PROVE FALSE
    <3>1. refer(a) = a
      BY <1>1, <1>2, <2>1
    <3>2. refer(b) = a
      BY <1>3, <3>1
    <3>3. \A j \in DOMAIN updates : ~means(j, b)
      BY <1>4, <3>2
    <3> QED
      BY <1>2, <3>2, <3>3
  <2> QED
    BY <2>1
<1>6. PICK j \in DOMAIN updates : means(j, b) /\ new(j)
  <2>1. ASSUME \A j \in DOMAIN updates : ~(means(j, b) /\ new(j)) PROVE FALSE
    <3>1. refer(b) = b
      BY <1>1, <1>2, <2>1
    <3>2. refer(a) = b
      BY <1>3, <3>1
    <3> QED
      BY <1>4, <1>5, <3>2
  <2> QED
    BY <2>1
<1>7. <<r(i).kind, Semantic(r(i))>> = <<r(j).kind, Semantic(r(j))>>
  BY <1>1, <1>3, <1>5, <1>6
<1>8. Semantic(r(i)) = Semantic(r(j))
  BY <1>7
<1>9. i # j
  BY <1>5, <1>6
<1> QED
  BY <1>5, <1>6, <1>8, <1>9

\* Two resources the same but for their id, or two states of two profiles.
TakenAlike(one, other) ==
    /\ one.kind = other.kind
    /\ \/ [one EXCEPT !.id = <<>>] = [other EXCEPT !.id = <<>>]
       \/ one.kind = "state" /\ [one EXCEPT !.id = <<>>, !.of = <<>>] = [other EXCEPT !.id = <<>>, !.of = <<>>]

LEMMA AlikeIs ==
  ASSUME NEW one, NEW other, IsRow(one), IsRow(other), SameContent(one, other), one.kind # "state" => one.of = other.of
  PROVE  TakenAlike(one, other)
<1> DEFINE none == <<>>
           s == [one EXCEPT !.id = none]
           t == [other EXCEPT !.id = none]
<1>1. one.kind = other.kind
  BY SameFields
<1>2. CASE one.kind = "state"
  <2>1. Semantic(one) = Semantic(other)
    BY <1>2, SemanticSame
  <2>2. Semantic(one) = [one EXCEPT !.id = <<>>, !.of = <<>>]
    BY <1>2 DEF Semantic
  <2>3. Semantic(other) = [other EXCEPT !.id = <<>>, !.of = <<>>]
    BY <1>1, <1>2 DEF Semantic
  <2> QED
    BY <1>1, <1>2, <2>1, <2>2, <2>3 DEF TakenAlike
<1>3. CASE one.kind # "state"
  <2> HIDE DEF none
  <2>1. IsRow(s) /\ SameContent(s, one) /\ s.id = none /\ s.of = one.of
    BY Renamed
  <2>2. IsRow(t) /\ SameContent(t, other) /\ t.id = none /\ t.of = other.of
    BY Renamed
  <2> HIDE DEF s, t
  <2>3. SameContent(s, t)
    BY <2>1, <2>2 DEF SameContent
  <2>4. s = t
    BY <1>3, <2>1, <2>2, <2>3, RowsEqual
  <2> QED
    BY <1>1, <2>4 DEF TakenAlike, s, t, none
<1> QED
  BY <1>2, <1>3

\* A draft is ambiguous only if two of its resources are taken for one.
THEOREM AmbiguousDraftsAlike ==
  ASSUME NEW updates, NEW ctx, LocalIdsDiffer(updates), ~Distinct(updates, ctx),
         \A i \in DOMAIN updates : DraftRow(updates[i].resource)
  PROVE  \E i, j \in DOMAIN updates : i # j /\ TakenAlike(updates[i].resource, updates[j].resource)
<1> DEFINE r(i) == updates[i].resource
           made(i) == Remade(updates, ctx, r(i))
           refer(id) == Refer(updates, ctx, id)
<1>1. PICK i, j \in DOMAIN updates : i # j /\ Semantic(made(i)) = Semantic(made(j))
  BY DEF Distinct
<1>2. IsRow(r(i)) /\ IsRow(r(j)) /\ DraftRow(r(i)) /\ DraftRow(r(j))
  BY DEF DraftRow
<1>3. ASSUME NEW n \in DOMAIN updates
      PROVE  IsRow(made(n)) /\ SameContent(made(n), r(n)) /\ made(n).of = [k \in DOMAIN r(n).of |-> refer(r(n).of[k])]
  <2> DEFINE one == updates[n].resource
  <2>1. IsRow(one)
    BY DEF DraftRow
  <2> HIDE DEF one
  <2> DEFINE m == Remade(updates, ctx, one)
  <2>2. /\ IsRow(m) /\ SameContent(m, one) /\ m.of = [k \in DOMAIN one.of |-> Refer(updates, ctx, one.of[k])]
        /\ m.id = IF \E row \in ctx.canon : row.kind = one.kind /\ row.id = one.id THEN one.id ELSE <<one.kind, Semantic(m)>>
    BY <2>1, RemadeHas
  <2> QED
    BY <2>2 DEF one
<1> HIDE DEF made, refer
<1>3a. IsRow(made(i)) /\ IsRow(made(j)) /\ SameContent(made(i), r(i)) /\ SameContent(made(j), r(j))
  BY <1>3
<1>4. SameContent(made(i), made(j)) /\ (made(i).kind # "state" => made(i).of = made(j).of)
  BY <1>1, <1>3a, SemanticSame
<1>5. SameContent(r(i), r(j))
  BY <1>3a, <1>4 DEF SameContent
<1>6. r(i).kind = r(j).kind /\ made(i).kind = r(i).kind
  BY <1>3a, <1>5, SameFields
<1>7. CASE r(i).kind # "state" => r(i).of = r(j).of
  <2>1. TakenAlike(r(i), r(j))
    BY <1>2, <1>5, <1>7, AlikeIs
  <2> QED
    BY <1>1, <2>1
<1>8. CASE r(i).kind # "state" /\ r(i).of # r(j).of
  <2>1. made(i).of = made(j).of
    BY <1>4, <1>6, <1>8
  <2>0. /\ made(i).of = [k \in DOMAIN r(i).of |-> refer(r(i).of[k])]
        /\ made(j).of = [k \in DOMAIN r(j).of |-> refer(r(j).of[k])]
    BY <1>3
  <2>2. DOMAIN r(i).of = DOMAIN r(j).of
    BY <2>0, <2>1
  <2>3. \A k \in DOMAIN r(i).of : refer(r(i).of[k]) = refer(r(j).of[k])
    BY <2>0, <2>1, <2>2
  <2>4. PICK k \in DOMAIN r(i).of : r(i).of[k] # r(j).of[k]
    BY <1>2, <1>8, <2>2 DEF DraftRow
  <2>5. Plain(r(i).of[k]) /\ Plain(r(j).of[k])
    BY <1>2, <2>2, <2>4 DEF DraftRow
  <2>6. PICK m, n \in DOMAIN updates :
            m # n /\ r(m).kind = "profile" /\ r(n).kind = "profile" /\ Semantic(r(m)) = Semantic(r(n))
    <3> DEFINE a == r(i).of[k]
               b == r(j).of[k]
    <3>1. a # b /\ Plain(a) /\ Plain(b) /\ Refer(updates, ctx, a) = Refer(updates, ctx, b)
      BY <2>3, <2>4, <2>5 DEF refer
    <3> HIDE DEF a, b
    <3> QED
      BY <3>1, ReferApart
  <2>7. IsRow(r(m)) /\ IsRow(r(n))
    BY DEF DraftRow
  <2>8. SameContent(r(m), r(n)) /\ r(m).of = r(n).of
    BY <2>6, <2>7, SemanticSame
  <2>9. TakenAlike(r(m), r(n))
    BY <2>7, <2>8, AlikeIs
  <2> QED
    BY <2>6, <2>9
<1> QED
  BY <1>7, <1>8

MadeUpIds == {<<"l1">>, <<"l2">>}

LEMMA SwapIs ==
  /\ \A id : Swapped(Swapped(id)) = id
  /\ \A id : id \notin MadeUpIds => Swapped(id) = id
<1> DEFINE one == <<"l1">>
           two == <<"l2">>
<1>1. one # two
  OBVIOUS
<1>2. MadeUpIds = {one, two}
  BY DEF MadeUpIds
<1>3. \A id : Swapped(id) = CASE id = one -> two [] id = two -> one [] OTHER -> id
  BY DEF Swapped
<1> HIDE DEF one, two
<1>4. Swapped(one) = two /\ Swapped(two) = one /\ \A id : id \notin {one, two} => Swapped(id) = id
  BY <1>1, <1>3
<1>5. ASSUME NEW id PROVE Swapped(Swapped(id)) = id
  <2>1. CASE id \in {one, two}
    BY <1>4, <2>1
  <2>2. CASE id \notin {one, two}
    BY <1>4, <2>2
  <2> QED
    BY <2>1, <2>2
<1> QED
  BY <1>2, <1>4, <1>5

\* A resource with the two local ids exchanged.
Respelled(r) == [r EXCEPT !.id = Swapped(r.id), !.of = [k \in DOMAIN r.of |-> Swapped(r.of[k])]]

LEMMA RespelledHas ==
  ASSUME NEW r, IsRow(r)
  PROVE  LET s == Respelled(r) IN
           /\ IsRow(s) /\ SameContent(s, r) /\ s.id = Swapped(r.id)
           /\ s.of = [k \in DOMAIN r.of |-> Swapped(r.of[k])]
<1> DEFINE id == Swapped(r.id)
           of == [k \in DOMAIN r.of |-> Swapped(r.of[k])]
           m == [r EXCEPT !.id = id]
           s == [m EXCEPT !.of = of]
<1>1. Respelled(r) = s
  BY BothSet DEF Respelled
<1> HIDE DEF id, of
<1>2. IsRow(m) /\ SameContent(m, r) /\ m.id = id
  BY Renamed
<1> HIDE DEF m
<1>3. IsRow(s) /\ SameContent(s, m) /\ s.of = of /\ s.id = m.id
  BY <1>2, Moved
<1> HIDE DEF s
<1>4. SameContent(s, r)
  BY <1>2, <1>3 DEF SameContent
<1> QED
  BY <1>1, <1>2, <1>3, <1>4 DEF id, of

LEMMA RespelledTwice ==
  ASSUME NEW r, IsRow(r), r.of = [k \in DOMAIN r.of |-> r.of[k]]
  PROVE  Respelled(Respelled(r)) = r
<1> DEFINE s == Respelled(r)
           t == Respelled(s)
<1>1. IsRow(s) /\ SameContent(s, r) /\ s.id = Swapped(r.id) /\ s.of = [k \in DOMAIN r.of |-> Swapped(r.of[k])]
  BY RespelledHas
<1> HIDE DEF s
<1>2. IsRow(t) /\ SameContent(t, s) /\ t.id = Swapped(s.id) /\ t.of = [k \in DOMAIN s.of |-> Swapped(s.of[k])]
  BY <1>1, RespelledHas
<1> HIDE DEF t
<1>3. SameContent(t, r)
  BY <1>1, <1>2 DEF SameContent
<1>4. t.id = r.id
  BY <1>1, <1>2, SwapIs
<1>5. DOMAIN s.of = DOMAIN r.of /\ \A k \in DOMAIN r.of : Swapped(s.of[k]) = r.of[k]
  BY <1>1, SwapIs
<1>6. t.of = [k \in DOMAIN r.of |-> r.of[k]]
  BY <1>2, <1>5
<1>7. t = r
  BY <1>2, <1>3, <1>4, <1>6, RowsEqual
<1> QED
  BY <1>7 DEF s, t

\* What is stored has no local id.
LEMMA StoredOrNot ==
  ASSUME NEW canon, \A row \in canon : row.id \notin MadeUpIds, NEW kind, NEW id
  PROVE  /\ (\E row \in canon : row.kind = kind /\ row.id = Swapped(id)) <=> (\E row \in canon : row.kind = kind /\ row.id = id)
         /\ (\E row \in canon : row.kind = kind /\ row.id = id) => Swapped(id) = id
<1>1. ASSUME NEW row \in canon, row.id = Swapped(id) PROVE row.id = id
  <2>1. Swapped(row.id) = row.id
    BY SwapIs
  <2>2. Swapped(Swapped(id)) = id
    BY SwapIs
  <2> QED
    BY <1>1, <2>1, <2>2
<1>2. ASSUME NEW row \in canon, row.id = id PROVE Swapped(id) = id
  <2>1. Swapped(row.id) = row.id
    BY SwapIs
  <2> QED
    BY <1>2, <2>1
<1> QED
  BY <1>1, <1>2

\* Updates with their local ids exchanged, in another order.
Restated(others, updates, p) ==
    /\ DOMAIN others = DOMAIN updates /\ p \in [DOMAIN updates -> DOMAIN updates]
    /\ \A i \in DOMAIN updates :
        /\ p[p[i]] = i /\ others[i].id = updates[p[i]].id
        /\ others[i].resource = Respelled(updates[p[i]].resource)

LEMMA RestatedBack ==
  ASSUME NEW others, NEW updates, NEW p, Restated(others, updates, p), \A i \in DOMAIN updates : DraftRow(updates[i].resource)
  PROVE  Restated(updates, others, p) /\ \A i \in DOMAIN others : DraftRow(others[i].resource)
<1>1. DOMAIN others = DOMAIN updates /\ p \in [DOMAIN updates -> DOMAIN updates]
  BY DEF Restated
<1>2. ASSUME NEW i \in DOMAIN others
      PROVE  /\ p[p[i]] = i /\ updates[i].id = others[p[i]].id
             /\ updates[i].resource = Respelled(others[p[i]].resource)
  <2>1. i \in DOMAIN updates /\ p[i] \in DOMAIN updates /\ p[p[i]] = i
    BY <1>1 DEF Restated
  <2>2. others[p[i]].resource = Respelled(updates[i].resource) /\ others[p[i]].id = updates[i].id
    BY <2>1 DEF Restated
  <2>3. Respelled(Respelled(updates[i].resource)) = updates[i].resource
    BY <2>1, RespelledTwice DEF DraftRow
  <2> QED
    BY <2>1, <2>2, <2>3
<1>3. ASSUME NEW i \in DOMAIN others PROVE DraftRow(others[i].resource)
  <2> DEFINE r == updates[p[i]].resource
             s == others[i].resource
  <2>1. p[i] \in DOMAIN updates /\ s = Respelled(r) /\ DraftRow(r)
    BY <1>1 DEF Restated
  <2> HIDE DEF r, s
  <2>2. /\ IsRow(s) /\ SameContent(s, r) /\ s.id = Swapped(r.id)
        /\ s.of = [k \in DOMAIN r.of |-> Swapped(r.of[k])]
    BY <2>1, RespelledHas DEF DraftRow
  <2>3. s.kind = r.kind
    BY <2>2, SameFields
  <2>4. s.kind \in {"profile", "rule"} => s.of = <<>>
    BY <2>1, <2>2, <2>3 DEF DraftRow
  <2>5. s.of = [k \in DOMAIN s.of |-> s.of[k]]
    BY <2>2
  <2>6. ASSUME NEW k \in DOMAIN s.of PROVE Plain(s.of[k])
    <3>1. s.of[k] = Swapped(r.of[k]) /\ Plain(r.of[k])
      BY <2>1, <2>2 DEF DraftRow
    <3>2. CASE r.of[k] \in MadeUpIds
      <4>1. s.of[k] \in MadeUpIds
        BY <3>1, <3>2 DEF MadeUpIds, Swapped
      <4>2. \A id \in MadeUpIds : Plain(id)
        BY DEF MadeUpIds, Plain
      <4> QED
        BY <4>1, <4>2
    <3>3. CASE r.of[k] \notin MadeUpIds
      BY <3>1, <3>3, SwapIs
    <3> QED
      BY <3>2, <3>3
  <2>7. s.kind \in Kinds
    BY <2>1, <2>3 DEF DraftRow
  <2> QED
    BY <2>2, <2>4, <2>5, <2>6, <2>7 DEF DraftRow, s
<1> QED
  BY <1>1, <1>2, <1>3 DEF Restated

LEMMA RestatedDiffer ==
  ASSUME NEW others, NEW updates, NEW p, Restated(others, updates, p),
         \A i \in DOMAIN updates : DraftRow(updates[i].resource), LocalIdsDiffer(updates)
  PROVE  LocalIdsDiffer(others)
<1> SUFFICES ASSUME NEW i \in DOMAIN others, NEW j \in DOMAIN others, i # j
             PROVE  /\ others[i].id # others[j].id
                    /\ <<others[i].resource.kind, others[i].resource.id>> # <<others[j].resource.kind, others[j].resource.id>>
  BY DEF LocalIdsDiffer
<1> DEFINE r == updates[p[i]].resource
           s == updates[p[j]].resource
<1>1. i \in DOMAIN updates /\ j \in DOMAIN updates /\ p[i] \in DOMAIN updates /\ p[j] \in DOMAIN updates
  BY DEF Restated
<1>2. p[i] # p[j]
  BY <1>1 DEF Restated
<1>3. updates[p[i]].id # updates[p[j]].id /\ <<r.kind, r.id>> # <<s.kind, s.id>>
  BY <1>1, <1>2 DEF LocalIdsDiffer
<1>4. others[i].id # others[j].id /\ others[i].resource = Respelled(r) /\ others[j].resource = Respelled(s)
  BY <1>1, <1>3 DEF Restated
<1>5. IsRow(r) /\ IsRow(s)
  BY <1>1 DEF DraftRow
<1> HIDE DEF r, s
<1>6. SameContent(Respelled(r), r) /\ Respelled(r).id = Swapped(r.id)
  BY <1>5, RespelledHas
<1>7. SameContent(Respelled(s), s) /\ Respelled(s).id = Swapped(s.id)
  BY <1>5, RespelledHas
<1>8. Respelled(r).kind = r.kind /\ Respelled(s).kind = s.kind
  BY <1>6, <1>7, SameFields
<1>9. Swapped(r.id) = Swapped(s.id) => r.id = s.id
  <2>1. Swapped(Swapped(r.id)) = r.id /\ Swapped(Swapped(s.id)) = s.id
    BY SwapIs
  <2> QED
    BY <2>1
<1> QED
  BY <1>3, <1>4, <1>6, <1>7, <1>8, <1>9

\* The profiles there are: stored ones, and the draft's own.
LEMMA ProfilesThere ==
  ASSUME NEW canon, NEW updates, NEW id
  PROVE  id \in ProfileIds(canon \cup Planned(updates)) <=>
            \/ \E row \in canon : row.kind = "profile" /\ row.id = id
            \/ \E i \in DOMAIN updates : updates[i].resource.kind = "profile" /\ updates[i].resource.id = id
BY DEF ProfileIds, OfKind, Planned

LEMMA RestatedProfiles ==
  ASSUME NEW others, NEW updates, NEW p, Restated(others, updates, p),
         \A i \in DOMAIN updates : DraftRow(updates[i].resource),
         NEW canon, \A row \in canon : row.id \notin MadeUpIds,
         NEW id, id \in ProfileIds(canon \cup Planned(updates))
  PROVE  Swapped(id) \in ProfileIds(canon \cup Planned(others))
<1>1. CASE \E row \in canon : row.kind = "profile" /\ row.id = id
  BY <1>1, ProfilesThere, SwapIs
<1>2. ASSUME NEW i \in DOMAIN updates, updates[i].resource.kind = "profile", updates[i].resource.id = id
      PROVE  Swapped(id) \in ProfileIds(canon \cup Planned(others))
  <2> DEFINE r == updates[i].resource
  <2>1. p[i] \in DOMAIN others /\ others[p[i]].resource = Respelled(r) /\ IsRow(r)
    <3>1. p[i] \in DOMAIN updates /\ p[p[i]] = i /\ DOMAIN others = DOMAIN updates
      BY DEF Restated
    <3>2. others[p[i]].resource = Respelled(updates[p[p[i]]].resource)
      BY <3>1 DEF Restated
    <3> QED
      BY <3>1, <3>2 DEF DraftRow
  <2> HIDE DEF r
  <2>2. SameContent(Respelled(r), r) /\ Respelled(r).id = Swapped(r.id)
    BY <2>1, RespelledHas
  <2>3. Respelled(r).kind = r.kind
    BY <2>2, SameFields
  <2>4. others[p[i]].resource.kind = "profile" /\ others[p[i]].resource.id = Swapped(id)
    BY <1>2, <2>1, <2>2, <2>3 DEF r
  <2> QED
    BY <2>1, <2>4, ProfilesThere
<1> QED
  BY <1>1, <1>2, ProfilesThere

\* Profiles are settled alike, whatever they are called in the draft.
LEMMA SettledAlike ==
  ASSUME NEW ctx, \A row \in ctx.canon : row.id \notin MadeUpIds, NEW r, DraftRow(r), r.kind = "profile"
  PROVE  SettledId(Respelled(r), ctx) = SettledId(r, ctx)
<1> DEFINE s == Respelled(r)
           stored(id) == \E row \in ctx.canon : row.kind = r.kind /\ row.id = id
<1>1. IsRow(r) /\ r.of = <<>>
  BY DEF DraftRow
<1>2. /\ IsRow(s) /\ SameContent(s, r) /\ s.id = Swapped(r.id)
      /\ s.of = [k \in DOMAIN r.of |-> Swapped(r.of[k])]
  BY <1>1, RespelledHas
<1> HIDE DEF s
<1>3. s.kind = r.kind
  BY <1>2, SameFields
<1>4. s.of = <<>>
  BY <1>1, <1>2
<1>5. Semantic(s) = Semantic(r)
  BY <1>1, <1>2, <1>4, SemanticSame
<1>6. (stored(s.id) <=> stored(r.id)) /\ (stored(r.id) => s.id = r.id)
  BY <1>2, StoredOrNot
<1>7. SettledId(s, ctx) = IF stored(s.id) THEN s.id ELSE <<s.kind, Semantic(s)>>
  BY <1>3 DEF SettledId
<1>8. SettledId(r, ctx) = IF stored(r.id) THEN r.id ELSE <<r.kind, Semantic(r)>>
  BY DEF SettledId
<1> QED
  BY <1>3, <1>5, <1>6, <1>7, <1>8 DEF s

\* A profile that exists is meant by its id and by what the id becomes.
LEMMA RestatedRefer ==
  ASSUME NEW others, NEW updates, NEW p, Restated(others, updates, p),
         \A i \in DOMAIN updates : DraftRow(updates[i].resource), LocalIdsDiffer(updates),
         NEW ctx, \A row \in ctx.canon : row.id \notin MadeUpIds,
         NEW id, id \in ProfileIds(ctx.canon \cup Planned(updates))
  PROVE  Refer(others, ctx, Swapped(id)) = Refer(updates, ctx, id)
<1>1. LocalIdsDiffer(others)
  BY RestatedDiffer
<1>2. ASSUME NEW i \in DOMAIN updates, updates[i].resource.kind = "profile", updates[i].resource.id = id
      PROVE  Refer(others, ctx, Swapped(id)) = Refer(updates, ctx, id)
  <2> DEFINE r == updates[i].resource
  <2>1. p[i] \in DOMAIN others /\ others[p[i]].resource = Respelled(r) /\ DraftRow(r) /\ r.kind = "profile" /\ r.id = id
    BY <1>2 DEF Restated
  <2>2. Refer(updates, ctx, id) = SettledId(r, ctx)
    BY <1>2, ProfileMeant
  <2> HIDE DEF r
  <2>3. SameContent(Respelled(r), r) /\ Respelled(r).id = Swapped(r.id)
    BY <2>1, RespelledHas DEF DraftRow
  <2>4. Respelled(r).kind = r.kind
    BY <2>3, SameFields
  <2>5. Refer(others, ctx, others[p[i]].resource.id) = SettledId(others[p[i]].resource, ctx)
    <3> DEFINE k == p[i]
    <3>1. k \in DOMAIN others /\ others[k].resource.kind = "profile"
      BY <2>1, <2>4
    <3> HIDE DEF k
    <3>2. Refer(others, ctx, others[k].resource.id) = SettledId(others[k].resource, ctx)
      BY <1>1, <3>1, ProfileMeant
    <3> QED
      BY <3>2 DEF k
  <2>6. Refer(others, ctx, Swapped(id)) = SettledId(Respelled(r), ctx)
    BY <2>1, <2>3, <2>5
  <2>7. SettledId(Respelled(r), ctx) = SettledId(r, ctx)
    BY <2>1, SettledAlike
  <2> QED
    BY <2>2, <2>6, <2>7
<1>3. CASE \A i \in DOMAIN updates : updates[i].resource.kind = "profile" => updates[i].resource.id # id
  <2>1. PICK row \in ctx.canon : row.id = id
    BY <1>3, ProfilesThere
  <2>2. Swapped(id) = id
    BY <2>1, SwapIs
  <2>3. ASSUME NEW k \in DOMAIN others, others[k].resource.kind = "profile", others[k].resource.id = id PROVE FALSE
    <3> DEFINE r == updates[p[k]].resource
    <3>1. p[k] \in DOMAIN updates /\ others[k].resource = Respelled(r) /\ IsRow(r)
      BY DEF Restated, DraftRow
    <3>2. r.kind = "profile" => r.id # id
      BY <1>3, <3>1
    <3> HIDE DEF r
    <3>3. SameContent(Respelled(r), r) /\ Respelled(r).id = Swapped(r.id)
      BY <3>1, RespelledHas
    <3>4. Respelled(r).kind = r.kind
      BY <3>3, SameFields
    <3>5. Swapped(r.id) = id /\ Swapped(Swapped(r.id)) = r.id
      BY <2>3, <3>1, <3>3, SwapIs
    <3> QED
      BY <2>2, <2>3, <3>1, <3>2, <3>4, <3>5
  <2>4. Refer(updates, ctx, id) = id
    BY <1>3, NoneMeant
  <2>5. Refer(others, ctx, id) = id
    BY <2>3, NoneMeant
  <2> QED
    BY <2>2, <2>4, <2>5
<1> QED
  BY <1>2, <1>3

LEMMA RestatedMade ==
  ASSUME NEW others, NEW updates, NEW p, Restated(others, updates, p),
         \A i \in DOMAIN updates : DraftRow(updates[i].resource), LocalIdsDiffer(updates),
         NEW ctx, \A row \in ctx.canon : row.id \notin MadeUpIds,
         NEW r, DraftRow(r), \A k \in DOMAIN r.of : r.of[k] \in ProfileIds(ctx.canon \cup Planned(updates))
  PROVE  Remade(others, ctx, Respelled(r)) = Remade(updates, ctx, r)
<1> DEFINE s == Respelled(r)
           made == Remade(updates, ctx, r)
           remade == Remade(others, ctx, s)
           stored(id) == \E row \in ctx.canon : row.kind = r.kind /\ row.id = id
<1>1. IsRow(r)
  BY DEF DraftRow
<1>2. /\ IsRow(made) /\ SameContent(made, r)
      /\ made.of = [k \in DOMAIN r.of |-> Refer(updates, ctx, r.of[k])]
      /\ made.id = IF \E row \in ctx.canon : row.kind = r.kind /\ row.id = r.id THEN r.id ELSE <<r.kind, Semantic(made)>>
  BY <1>1, RemadeHas
<1>3. /\ IsRow(s) /\ SameContent(s, r) /\ s.id = Swapped(r.id)
      /\ s.of = [k \in DOMAIN r.of |-> Swapped(r.of[k])]
  BY <1>1, RespelledHas
<1> HIDE DEF s
<1>3a. IsRow(s)
  BY <1>3
<1>4. /\ IsRow(remade) /\ SameContent(remade, s)
      /\ remade.of = [k \in DOMAIN s.of |-> Refer(others, ctx, s.of[k])]
      /\ remade.id = IF \E row \in ctx.canon : row.kind = s.kind /\ row.id = s.id THEN s.id ELSE <<s.kind, Semantic(remade)>>
  BY <1>3a, RemadeHas
<1> HIDE DEF made, remade
<1>5. s.kind = r.kind
  BY <1>3, SameFields
<1>6. remade.of = made.of
  <2>1. DOMAIN s.of = DOMAIN r.of /\ \A k \in DOMAIN r.of : s.of[k] = Swapped(r.of[k])
    BY <1>3
  <2>2. ASSUME NEW k \in DOMAIN r.of PROVE Refer(others, ctx, Swapped(r.of[k])) = Refer(updates, ctx, r.of[k])
    <3> DEFINE id == r.of[k]
    <3>1. id \in ProfileIds(ctx.canon \cup Planned(updates))
      OBVIOUS
    <3> HIDE DEF id
    <3>2. Refer(others, ctx, Swapped(id)) = Refer(updates, ctx, id)
      BY <3>1, RestatedRefer
    <3> QED
      BY <3>2 DEF id
  <2>3. \A k \in DOMAIN r.of : Refer(others, ctx, s.of[k]) = Refer(updates, ctx, r.of[k])
    BY <2>1, <2>2
  <2>4. [k \in DOMAIN s.of |-> Refer(others, ctx, s.of[k])] = [k \in DOMAIN r.of |-> Refer(updates, ctx, r.of[k])]
    BY <2>1, <2>3
  <2> QED
    BY <1>2, <1>4, <2>4
<1>7. SameContent(remade, made)
  BY <1>2, <1>3, <1>4 DEF SameContent
<1>8. Semantic(remade) = Semantic(made)
  BY <1>2, <1>4, <1>6, <1>7, SemanticSame
<1>9. (stored(s.id) <=> stored(r.id)) /\ (stored(r.id) => s.id = r.id)
  <2> DEFINE canon == ctx.canon
             kind == r.kind
             id == r.id
  <2>1. s.id = Swapped(id)
    BY <1>3
  <2>2. \A row \in canon : row.id \notin MadeUpIds
    OBVIOUS
  <2> HIDE DEF canon, kind, id
  <2>3. (\E row \in canon : row.kind = kind /\ row.id = Swapped(id)) <=> (\E row \in canon : row.kind = kind /\ row.id = id)
    BY <2>2, StoredOrNot
  <2>4. (\E row \in canon : row.kind = kind /\ row.id = id) => Swapped(id) = id
    BY <2>2, StoredOrNot
  <2> QED
    BY <2>1, <2>3, <2>4 DEF canon, kind, id
<1>10. remade.id = made.id
  BY <1>2, <1>4, <1>5, <1>8, <1>9
<1>11. remade = made
  BY <1>2, <1>4, <1>6, <1>7, <1>10, RowsEqual
<1> QED
  BY <1>11 DEF made, remade, s

\* Every profile that a draft's resources are about exists.
Referenced(updates, ctx) ==
    \A i \in DOMAIN updates : \A k \in DOMAIN updates[i].resource.of :
        updates[i].resource.of[k] \in ProfileIds(ctx.canon \cup Planned(updates))

LEMMA AcceptedRefers ==
  ASSUME NEW raw, NEW ctx, \A i \in DOMAIN raw.updates : DraftRow(raw.updates[i].resource),
         \A resource \in Planned(raw.updates) :
            resource.kind \in {"state", "relationship"} => ToSet(resource.of) \subseteq ProfileIds(ctx.canon \cup Planned(raw.updates))
  PROVE  Referenced(raw.updates, ctx)
<1> SUFFICES ASSUME NEW i \in DOMAIN raw.updates, NEW k \in DOMAIN raw.updates[i].resource.of
             PROVE  raw.updates[i].resource.of[k] \in ProfileIds(ctx.canon \cup Planned(raw.updates))
  BY DEF Referenced
<1> DEFINE r == raw.updates[i].resource
<1>1. DraftRow(r) /\ r \in Planned(raw.updates)
  BY DEF Planned
<1>2. r.kind \in {"state", "relationship"}
  BY <1>1 DEF DraftRow, Kinds
<1>3. r.of[k] \in ToSet(r.of)
  BY DEF ToSet
<1> QED
  BY <1>1, <1>2, <1>3

\* The i-th resource of a restated draft is made into the same row.
LEMMA RestatedRows ==
  ASSUME NEW others, NEW updates, NEW p, Restated(others, updates, p),
         \A i \in DOMAIN updates : DraftRow(updates[i].resource), LocalIdsDiffer(updates),
         NEW ctx, \A row \in ctx.canon : row.id \notin MadeUpIds, Referenced(updates, ctx),
         NEW i \in DOMAIN updates
  PROVE  Remade(others, ctx, others[i].resource) = Remade(updates, ctx, updates[p[i]].resource)
<1> DEFINE r == updates[p[i]].resource
<1>1. p[i] \in DOMAIN updates /\ others[i].resource = Respelled(r)
  BY DEF Restated
<1>2. DraftRow(r) /\ \A k \in DOMAIN r.of : r.of[k] \in ProfileIds(ctx.canon \cup Planned(updates))
  BY <1>1 DEF Referenced
<1> HIDE DEF r
<1>3. Remade(others, ctx, Respelled(r)) = Remade(updates, ctx, r)
  BY <1>2, RestatedMade
<1> QED
  BY <1>1, <1>3 DEF r

LEMMA RestatedDistinct ==
  ASSUME NEW others, NEW updates, NEW p, Restated(others, updates, p),
         \A i \in DOMAIN updates : DraftRow(updates[i].resource), LocalIdsDiffer(updates),
         NEW ctx, \A row \in ctx.canon : row.id \notin MadeUpIds, Referenced(updates, ctx), Distinct(updates, ctx)
  PROVE  Distinct(others, ctx)
<1> DEFINE made(i) == Semantic(Remade(updates, ctx, updates[i].resource))
           remade(i) == Semantic(Remade(others, ctx, others[i].resource))
<1>1. \A i \in DOMAIN updates : remade(i) = made(p[i])
  BY RestatedRows
<1>2. \A i, j \in DOMAIN updates : i # j => p[i] # p[j] /\ p[i] \in DOMAIN updates /\ p[j] \in DOMAIN updates
  BY DEF Restated
<1>3. \A i, j \in DOMAIN updates : i # j => made(i) # made(j)
  BY DEF Distinct
<1>4. DOMAIN others = DOMAIN updates
  BY DEF Restated
<1> HIDE DEF made
<1>5. \A i, j \in DOMAIN others : i # j => remade(i) # remade(j)
  BY <1>1, <1>2, <1>3, <1>4
<1> QED
  BY <1>5 DEF Distinct

LEMMA TimesAlike ==
  ASSUME NEW one, NEW other, SameContent(one, other), NEW ctx, TemporalSound(one, ctx)
  PROVE  TemporalSound(other, ctx)
BY SameFields DEF TemporalSound, EventsOf

\* A draft that is accepted is accepted when it is worded otherwise.
LEMMA RestatedAccepted ==
  ASSUME NEW raw, NEW other, NEW p, Restated(other.updates, raw.updates, p),
         other.candidate = raw.candidate, other.ours = raw.ours, other.conflicts = raw.conflicts,
         \A i \in DOMAIN raw.updates : DraftRow(raw.updates[i].resource),
         NEW ctx, \A row \in ctx.canon : row.id \notin MadeUpIds, Accepts(raw, ctx)
  PROVE  Accepts(other, ctx) /\ Referenced(raw.updates, ctx) /\ LocalIdsDiffer(raw.updates)
<1> DEFINE updates == raw.updates
           others == other.updates
           known == ProfileIds(ctx.canon \cup Planned(updates))
<1>1. /\ LocalIdsDiffer(updates) /\ Distinct(updates, ctx) /\ ConflictsSound(raw) /\ raw.candidate /\ raw.ours
      /\ \A resource \in Planned(updates) :
            /\ resource.ours /\ resource.sound
            /\ resource.kind \in {"state", "relationship"} => ToSet(resource.of) \subseteq known /\ TemporalSound(resource, ctx)
  BY DEF Accepts
<1>2. Referenced(updates, ctx)
  BY <1>1, AcceptedRefers
<1>3. LocalIdsDiffer(others)
  BY <1>1, RestatedDiffer
<1>4. Distinct(others, ctx)
  BY <1>1, <1>2, RestatedDistinct
<1>5. ConflictsSound(other)
  <2>1. {others[i].id : i \in DOMAIN others} = {updates[i].id : i \in DOMAIN updates}
    <3>1. DOMAIN others = DOMAIN updates
      BY DEF Restated
    <3>2. \A i \in DOMAIN updates : p[i] \in DOMAIN updates /\ p[p[i]] = i /\ others[i].id = updates[p[i]].id
      BY DEF Restated
    <3>3. \A i \in DOMAIN updates : updates[i].id = others[p[i]].id
      BY <3>2
    <3> QED
      BY <3>1, <3>2, <3>3
  <2> QED
    BY <1>1, <2>1 DEF ConflictsSound
<1>6. ASSUME NEW resource \in Planned(others)
      PROVE  /\ resource.ours /\ resource.sound
             /\ resource.kind \in {"state", "relationship"} =>
                    ToSet(resource.of) \subseteq ProfileIds(ctx.canon \cup Planned(others)) /\ TemporalSound(resource, ctx)
  <2>1. PICK i \in DOMAIN others : resource = others[i].resource
    BY DEF Planned
  <2> DEFINE r == updates[p[i]].resource
             s == resource
  <2>2. p[i] \in DOMAIN updates /\ s = Respelled(r)
    BY <2>1 DEF Restated
  <2>3. r \in Planned(updates) /\ IsRow(r) /\ \A k \in DOMAIN r.of : r.of[k] \in known
    BY <1>2, <2>2 DEF Planned, DraftRow, Referenced
  <2> HIDE DEF r
  <2>4. SameContent(s, r) /\ s.of = [k \in DOMAIN r.of |-> Swapped(r.of[k])]
    BY <2>2, <2>3, RespelledHas
  <2>5. s.kind = r.kind /\ s.ours = r.ours /\ s.sound = r.sound
    BY <2>4, SameFields
  <2>6. \A id \in known : Swapped(id) \in ProfileIds(ctx.canon \cup Planned(others))
    BY RestatedProfiles
  <2>7. \A k \in DOMAIN s.of : s.of[k] \in ProfileIds(ctx.canon \cup Planned(others))
    BY <2>3, <2>4, <2>6
  <2>8. ToSet(s.of) \subseteq ProfileIds(ctx.canon \cup Planned(others))
    BY <2>7 DEF ToSet
  <2>9. r.ours /\ r.sound /\ (r.kind \in {"state", "relationship"} => TemporalSound(r, ctx))
    BY <1>1, <2>3
  <2>10. SameContent(r, s)
    BY <2>4 DEF SameContent
  <2>11. TemporalSound(r, ctx) => TemporalSound(s, ctx)
    BY <2>10, TimesAlike
  <2> QED
    BY <2>5, <2>8, <2>9, <2>11
<1> QED
  BY <1>1, <1>2, <1>3, <1>4, <1>5, <1>6 DEF Accepts

\* A draft as a Curator sends it.
DraftShaped(raw) ==
    /\ DOMAIN raw = {"candidate", "ours", "conflicts", "updates"}
    /\ \A i \in DOMAIN raw.updates : DOMAIN raw.updates[i] = {"id", "resource"} /\ DraftRow(raw.updates[i].resource)

LEMMA UpdateRespelled ==
  ASSUME NEW update, DOMAIN update = {"id", "resource"}, NEW resource
  PROVE  LET u == [update EXCEPT !.resource = resource] IN u.id = update.id /\ u.resource = resource
OBVIOUS

LEMMA UpdatesReplaced ==
  ASSUME NEW raw, DOMAIN raw = {"candidate", "ours", "conflicts", "updates"}, NEW updates
  PROVE  LET other == [raw EXCEPT !.updates = updates] IN
            /\ other.updates = updates /\ other.candidate = raw.candidate
            /\ other.ours = raw.ours /\ other.conflicts = raw.conflicts
OBVIOUS

LEMMA RewordedIs ==
  ASSUME NEW U, NEW raw, raw.updates \in Seq(U), DraftShaped(raw)
  PROVE  LET other == Reworded(raw) IN
           /\ other.candidate = raw.candidate /\ other.ours = raw.ours /\ other.conflicts = raw.conflicts
           /\ \E p : Restated(other.updates, raw.updates, p)
<1> DEFINE n == Len(raw.updates)
           u(i) == raw.updates[n + 1 - i]
           changed(i) == [u(i) EXCEPT !.resource = Respelled(u(i).resource)]
           others == [i \in DOMAIN raw.updates |-> changed(i)]
           other == [raw EXCEPT !.updates = others]
           p == [i \in DOMAIN raw.updates |-> n + 1 - i]
<1>1. Reworded(raw) = other
  BY DEF Reworded, Respelled
<1>2. n \in Nat /\ DOMAIN raw.updates = 1..n
  OBVIOUS
<1> HIDE DEF n, others
<1>3. other.updates = others /\ other.candidate = raw.candidate /\ other.ours = raw.ours /\ other.conflicts = raw.conflicts
  BY UpdatesReplaced DEF DraftShaped
<1> HIDE DEF other
<1>4. ASSUME NEW i \in 1..n PROVE n + 1 - i \in 1..n /\ n + 1 - (n + 1 - i) = i
  BY <1>2
<1>5. p \in [1..n -> 1..n] /\ \A i \in 1..n : p[p[i]] = i /\ p[i] = n + 1 - i
  BY <1>2, <1>4
<1>6. DOMAIN others = 1..n /\ \A i \in 1..n : others[i] = changed(i)
  BY <1>2 DEF others
<1>7. ASSUME NEW i \in 1..n
      PROVE  others[i].id = raw.updates[p[i]].id /\ others[i].resource = Respelled(raw.updates[p[i]].resource)
  <2> DEFINE update == raw.updates[p[i]]
             resource == Respelled(update.resource)
  <2>1. update = u(i) /\ DOMAIN update = {"id", "resource"}
    <3>1. p[i] = n + 1 - i /\ p[i] \in DOMAIN raw.updates
      BY <1>2, <1>5
    <3> HIDE DEF p
    <3> QED
      BY <3>1 DEF DraftShaped
  <2>2. others[i] = [update EXCEPT !.resource = resource]
    BY <1>6, <2>1
  <2> HIDE DEF update, resource
  <2>3. others[i].id = update.id /\ others[i].resource = resource
    BY <2>1, <2>2, UpdateRespelled
  <2> QED
    BY <2>3 DEF update, resource
<1> HIDE DEF p
<1>8. Restated(others, raw.updates, p)
  BY <1>2, <1>5, <1>6, <1>7 DEF Restated
<1> QED
  BY <1>1, <1>3, <1>8

\* The plan of a draft is that of the draft worded otherwise.
LEMMA RestatedPlan ==
  ASSUME NEW raw, NEW other, NEW p, Restated(other.updates, raw.updates, p), other.conflicts = raw.conflicts,
         \A i \in DOMAIN raw.updates : DraftRow(raw.updates[i].resource), LocalIdsDiffer(raw.updates),
         NEW ctx, \A row \in ctx.canon : row.id \notin MadeUpIds, Referenced(raw.updates, ctx)
  PROVE  NormalPlan(other, ctx) = NormalPlan(raw, ctx)
<1> DEFINE updates == raw.updates
           others == other.updates
           D == DOMAIN raw.updates
           affected(conflict) == {NormalUpdate(raw, ctx, i).id : i \in {i \in D : updates[i].id \in ToSet(conflict.affected)}}
           reaffected(conflict) ==
                {NormalUpdate(other, ctx, i).id : i \in {i \in DOMAIN others : others[i].id \in ToSet(conflict.affected)}}
           made == {NormalUpdate(raw, ctx, i) : i \in D}
           remade == {NormalUpdate(other, ctx, i) : i \in DOMAIN others}
<1>1. DOMAIN others = D /\ \A i \in D : p[i] \in D /\ p[p[i]] = i /\ others[i].id = updates[p[i]].id
  BY DEF Restated
<1>2. \A i \in D : NormalUpdate(other, ctx, i) = NormalUpdate(raw, ctx, p[i])
  BY RestatedRows DEF NormalUpdate
<1>3. \A i \in D : NormalUpdate(raw, ctx, i) = NormalUpdate(other, ctx, p[i]) /\ updates[i].id = others[p[i]].id
  BY <1>1, <1>2
<1>4. remade = made
  BY <1>1, <1>2, <1>3
<1>5. ASSUME NEW conflict PROVE reaffected(conflict) = affected(conflict)
  <2> DEFINE S == ToSet(conflict.affected)
  <2> HIDE DEF S
  <2>1. \A x : x \in {NormalUpdate(other, ctx, i).id : i \in {i \in D : others[i].id \in S}}
               <=> \E i \in D : others[i].id \in S /\ x = NormalUpdate(other, ctx, i).id
    OBVIOUS
  <2>2. \A x : x \in {NormalUpdate(raw, ctx, i).id : i \in {i \in D : updates[i].id \in S}}
               <=> \E i \in D : updates[i].id \in S /\ x = NormalUpdate(raw, ctx, i).id
    OBVIOUS
  <2>3. \A x : (\E i \in D : others[i].id \in S /\ x = NormalUpdate(other, ctx, i).id)
               <=> \E i \in D : updates[i].id \in S /\ x = NormalUpdate(raw, ctx, i).id
    BY <1>1, <1>2, <1>3
  <2>4. {NormalUpdate(other, ctx, i).id : i \in {i \in D : others[i].id \in S}}
            = {NormalUpdate(raw, ctx, i).id : i \in {i \in D : updates[i].id \in S}}
    BY <2>1, <2>2, <2>3
  <2> QED
    BY <1>1, <2>4 DEF S
<1>6. NormalPlan(raw, ctx) =
        [updates |-> SetToSeq(made),
         conflicts |-> {[affected |-> SetToSeq(affected(conflict)), blocking |-> conflict.blocking, ours |-> TRUE] :
                            conflict \in raw.conflicts}]
  BY DEF NormalPlan
<1>7. NormalPlan(other, ctx) =
        [updates |-> SetToSeq(remade),
         conflicts |-> {[affected |-> SetToSeq(reaffected(conflict)), blocking |-> conflict.blocking, ours |-> TRUE] :
                            conflict \in raw.conflicts}]
  BY DEF NormalPlan
<1> HIDE DEF made, remade, affected, reaffected
<1>8. {[affected |-> SetToSeq(reaffected(conflict)), blocking |-> conflict.blocking, ours |-> TRUE] : conflict \in raw.conflicts}
        = {[affected |-> SetToSeq(affected(conflict)), blocking |-> conflict.blocking, ours |-> TRUE] : conflict \in raw.conflicts}
  BY <1>5
<1> QED
  BY <1>4, <1>6, <1>7, <1>8

\* Neither the local ids nor the order of a draft's updates decide anything.
THEOREM WordingForgotten ==
  ASSUME NEW U, NEW raw, raw.updates \in Seq(U), DraftShaped(raw), NEW ctx, \A row \in ctx.canon : row.id \notin MadeUpIds
  PROVE  /\ Accepts(Reworded(raw), ctx) <=> Accepts(raw, ctx)
         /\ Accepts(raw, ctx) => NormalPlan(Reworded(raw), ctx) = NormalPlan(raw, ctx)
<1> DEFINE other == Reworded(raw)
<1>1. /\ other.candidate = raw.candidate /\ other.ours = raw.ours /\ other.conflicts = raw.conflicts
      /\ \E p : Restated(other.updates, raw.updates, p)
  BY RewordedIs
<1> HIDE DEF other
<1>2. PICK p : Restated(other.updates, raw.updates, p)
  BY <1>1
<1>3. \A i \in DOMAIN raw.updates : DraftRow(raw.updates[i].resource)
  BY DEF DraftShaped
<1>4. Restated(raw.updates, other.updates, p) /\ \A i \in DOMAIN other.updates : DraftRow(other.updates[i].resource)
  <2> DEFINE updates == raw.updates
             others == other.updates
  <2>1. Restated(others, updates, p) /\ \A i \in DOMAIN updates : DraftRow(updates[i].resource)
    BY <1>2, <1>3
  <2> HIDE DEF updates, others
  <2>2. Restated(updates, others, p) /\ \A i \in DOMAIN others : DraftRow(others[i].resource)
    BY <2>1, RestatedBack
  <2> QED
    BY <2>2 DEF updates, others
<1>5. ASSUME Accepts(raw, ctx)
      PROVE  Accepts(other, ctx) /\ Referenced(raw.updates, ctx) /\ LocalIdsDiffer(raw.updates)
  BY <1>1, <1>2, <1>3, <1>5, RestatedAccepted
<1>6. ASSUME Accepts(other, ctx) PROVE Accepts(raw, ctx)
  BY <1>1, <1>4, <1>6, RestatedAccepted
<1>7. ASSUME Accepts(raw, ctx) PROVE NormalPlan(other, ctx) = NormalPlan(raw, ctx)
  BY <1>1, <1>2, <1>3, <1>5, <1>7, RestatedPlan
<1> QED
  BY <1>5, <1>6, <1>7 DEF other

\* The elements of a finite set, each once.
LEMMA ListedOnce ==
  ASSUME NEW S, IsFiniteSet(S)
  PROVE  LET s == SetToSeq(S) IN
           /\ s \in Seq(S) /\ Len(s) = Cardinality(S)
           /\ \A i, j \in DOMAIN s : i # j => s[i] # s[j]
           /\ \A e \in S : \E i \in DOMAIN s : s[i] = e
<1> DEFINE n == Cardinality(S)
           I == 1..n
           s == SetToSeq(S)
<1>1. n \in Nat /\ ExistsBijection(I, S)
  BY FS_CardinalityType
<1>2. PICK f \in Bijection(I, S) : TRUE
  BY <1>1 DEF ExistsBijection
<1>3. f \in [I -> S] /\ IsInjective(f)
  BY <1>2 DEF Bijection, Injection, Surjection, IsInjective
<1>4. s = CHOOSE g \in [I -> S] : IsInjective(g)
  BY DEF SetToSeq
<1> HIDE DEF s
<1>5. s \in [I -> S] /\ IsInjective(s)
  BY <1>3, <1>4
<1>6. s \in Injection(I, S)
  BY <1>5 DEF Injection, IsInjective
<1>7. IsFiniteSet(I) /\ Cardinality(I) = n
  <2> DEFINE first == 1
  <2>1. first \in Int /\ n \in Int
    BY <1>1
  <2> HIDE DEF first, n
  <2>2. IsFiniteSet(first..n) /\ Cardinality(first..n) = IF first > n THEN 0 ELSE n - first + 1
    BY <2>1, FS_Interval
  <2> QED
    BY <1>1, <2>2 DEF first
<1>8. s \in Surjection(I, S)
  <2> HIDE DEF I
  <2> QED
    BY <1>6, <1>7, FS_Injection
<1>9. \A e \in S : \E i \in I : s[i] = e
  BY <1>8 DEF Surjection
<1>10. \A i, j \in I : i # j => s[i] # s[j]
  BY <1>5 DEF IsInjective
<1> HIDE DEF n
<1>11. s \in Seq(S) /\ Len(s) = n /\ DOMAIN s = I
  BY <1>1, <1>5
<1> QED
  BY <1>9, <1>10, <1>11 DEF s, n

LEMMA ProblemHas ==
  ASSUME NEW code, NEW blocking, NEW ids
  PROVE  Problem(code, blocking, ids).code = code
BY DEF Problem

\* A name of a planned profile that is taken is a conflict of identities.
LEMMA NameFound ==
  ASSUME NEW U, NEW updates \in Seq(U), NEW canon, LocalIdsDiffer(updates), NEW i \in DOMAIN updates,
         updates[i].resource.kind = "profile", NEW name \in updates[i].resource.names,
         \/ \E row \in OfKind(canon, "profile") : name \in row.names /\ row.id # updates[i].resource.id
         \/ \E j \in SameKind(updates, i) : j < i /\ name \in updates[j].resource.names
  PROVE  \E problem \in NameProblems(updates, canon, i) : problem.code = "ENTITY_IDENTITY_CONFLICT"
<1> DEFINE one == updates[i].resource
           earlier == {j \in SameKind(updates, i) : j < i /\ name \in updates[j].resource.names}
<1>1. \E other \in Claimants(updates, canon, i, name) : other.id # one.id
  <2>1. CASE earlier = {}
    <3>1. PICK row \in OfKind(canon, "profile") : name \in row.names /\ row.id # one.id
      BY <2>1
    <3>2. row \in Claimants(updates, canon, i, name)
      BY <2>1, <3>1 DEF Claimants
    <3> QED
      BY <3>1, <3>2
  <2>2. CASE earlier # {}
    <3>1. PICK j \in SameKind(updates, i) : j < i /\ name \in updates[j].resource.names
      BY <2>2
    <3>2. PICK k \in SameKind(updates, i) : k < i /\ Claimants(updates, canon, i, name) = {updates[k].resource}
      BY <3>1, ClaimantIs
    <3>3. k \in DOMAIN updates /\ k # i /\ updates[k].resource.kind = one.kind
      BY <3>2 DEF SameKind
    <3>4. updates[k].resource.id # one.id
      BY <3>3 DEF LocalIdsDiffer
    <3> QED
      BY <3>2, <3>4
  <2> QED
    BY <2>1, <2>2
<1>2. PICK other \in Claimants(updates, canon, i, name) : other.id # one.id
  BY <1>1
<1> DEFINE problem == BlockingProblem(NameCode(one, other), {one.id, other.id})
<1>3. problem \in NameProblems(updates, canon, i)
  BY <1>2 DEF NameProblems
<1>4. NameCode(one, other) = "ENTITY_IDENTITY_CONFLICT"
  BY DEF NameCode
<1>5. problem.code = "ENTITY_IDENTITY_CONFLICT"
  BY <1>4, ProblemHas DEF BlockingProblem
<1> QED
  BY <1>3, <1>5

LEMMA IdentityConflicts ==
  ASSUME NEW U, NEW updates \in Seq(U), NEW canon, LocalIdsDiffer(updates), NamesOwnedOnce(canon),
         ~NamesOwnedOnce(Planned(updates) \cup canon)
  PROVE  \E i \in DOMAIN updates : \E problem \in NameProblems(updates, canon, i) : problem.code = "ENTITY_IDENTITY_CONFLICT"
<1> DEFINE r(i) == updates[i].resource
           rows == Planned(updates) \cup canon
<1>1. PICK one \in OfKind(rows, "profile"), other \in OfKind(rows, "profile") : one.id # other.id /\ one.names \cap other.names # {}
  BY DEF NamesOwnedOnce
<1>2. PICK name : name \in one.names /\ name \in other.names
  BY <1>1
<1>3. /\ one.kind = "profile" /\ (one \in canon \/ \E i \in DOMAIN updates : one = r(i))
      /\ other.kind = "profile" /\ (other \in canon \/ \E i \in DOMAIN updates : other = r(i))
  BY DEF OfKind, Planned
<1>4. ASSUME NEW i \in DOMAIN updates, NEW row \in canon, r(i).kind = "profile", row.kind = "profile", r(i).id # row.id,
             name \in r(i).names, name \in row.names
      PROVE  \E problem \in NameProblems(updates, canon, i) : problem.code = "ENTITY_IDENTITY_CONFLICT"
  <2>1. row \in OfKind(canon, "profile")
    BY <1>4 DEF OfKind
  <2> QED
    BY <1>4, <2>1, NameFound
<1>5. ASSUME NEW i \in DOMAIN updates, NEW j \in DOMAIN updates, j < i, r(i).kind = "profile", r(j).kind = "profile",
             name \in r(i).names, name \in r(j).names
      PROVE  \E problem \in NameProblems(updates, canon, i) : problem.code = "ENTITY_IDENTITY_CONFLICT"
  <2>1. j \in SameKind(updates, i)
    BY <1>5 DEF SameKind
  <2> QED
    BY <1>5, <2>1, NameFound
<1>6. CASE one \in canon /\ other \in canon
  BY <1>1, <1>6 DEF NamesOwnedOnce, OfKind
<1>7. CASE one \in canon /\ \E i \in DOMAIN updates : other = r(i)
  BY <1>1, <1>2, <1>3, <1>4, <1>7
<1>8. CASE other \in canon /\ \E i \in DOMAIN updates : one = r(i)
  BY <1>1, <1>2, <1>3, <1>4, <1>8
<1>9. ASSUME NEW i \in DOMAIN updates, NEW j \in DOMAIN updates, one = r(i), other = r(j)
      PROVE  \E k \in DOMAIN updates : \E problem \in NameProblems(updates, canon, k) : problem.code = "ENTITY_IDENTITY_CONFLICT"
  <2>1. i # j /\ i \in Nat /\ j \in Nat
    BY <1>1, <1>9
  <2>2. i < j \/ j < i
    BY <2>1
  <2> QED
    BY <1>2, <1>3, <1>5, <1>9, <2>2
<1> QED
  BY <1>3, <1>6, <1>7, <1>8, <1>9

Untold == {"ID_DUPLICATE", "REFERENCE_INVALID", "TIMELINE_ANCHOR_MISSING", "INVALID_EVIDENCE"}

LEMMA NameCodes ==
  ASSUME NEW updates, NEW canon, NEW i, NEW problem \in NameProblems(updates, canon, i)
  PROVE  problem.code \in {"ENTITY_IDENTITY_CONFLICT", "WORLD_RULE_CONFLICT", "WORLD_RULE_DUPLICATE"}
<1>1. PICK one, other : problem = BlockingProblem(NameCode(one, other), {one.id, other.id})
  BY DEF NameProblems
<1>2. problem.code = NameCode(one, other)
  BY <1>1, ProblemHas DEF BlockingProblem
<1>3. CASE one.kind = "profile"
  BY <1>2, <1>3 DEF NameCode
<1>4. CASE one.kind # "profile"
  BY <1>2, <1>4 DEF NameCode
<1> QED
  BY <1>3, <1>4

\* Where each problem of a plan comes from.
LEMMA ProblemFrom ==
  ASSUME NEW plan, NEW canon, NEW events, NEW problem \in Problems(plan, canon, events, TRUE)
  PROVE  \/ \E i \in DOMAIN plan.updates :
                problem \in NameProblems(plan.updates, canon, i) \/ problem \in ResourceProblems(plan.updates, canon, events, i)
         \/ problem.code \in {"RELATIONSHIP_CONFLICT", "DECLARED_DETERMINISTIC_CONFLICT", "UNKNOWN_SEMANTIC_CONFLICT"}
         \/ problem \in ValidatorProblems(plan.updates, canon) /\ problem.code = "CANONICAL_CONFLICT"
<1> DEFINE each == UNION {NameProblems(plan.updates, canon, i) \cup ResourceProblems(plan.updates, canon, events, i) : i \in DOMAIN plan.updates}
           broken == {BlockingProblem("PRODUCTION_LINEAGE_INVALID", {}) : b \in {FALSE} \cap {TRUE}}
           clashes == RelationshipProblems(plan.updates, canon)
           verdict == ValidatorProblems(plan.updates, canon)
           declared == DeclaredProblems(plan)
<1>1. broken = {}
  OBVIOUS
<1>2. problem \in each => \E i \in DOMAIN plan.updates :
                problem \in NameProblems(plan.updates, canon, i) \/ problem \in ResourceProblems(plan.updates, canon, events, i)
  OBVIOUS
<1>3. problem \in clashes => problem.code = "RELATIONSHIP_CONFLICT"
  <2> SUFFICES ASSUME problem \in clashes PROVE problem.code = "RELATIONSHIP_CONFLICT"
    OBVIOUS
  <2>1. \E blocking, ids : problem = Problem("RELATIONSHIP_CONFLICT", blocking, ids)
    BY DEF RelationshipProblems
  <2> QED
    BY <2>1, ProblemHas
<1>4. problem \in verdict => problem.code = "CANONICAL_CONFLICT"
  <2> SUFFICES ASSUME problem \in verdict PROVE problem.code = "CANONICAL_CONFLICT"
    OBVIOUS
  <2>1. \E ids : problem = BlockingProblem("CANONICAL_CONFLICT", ids)
    BY DEF ValidatorProblems
  <2> QED
    BY <2>1, ProblemHas DEF BlockingProblem
<1>5. problem \in declared => problem.code \in {"DECLARED_DETERMINISTIC_CONFLICT", "UNKNOWN_SEMANTIC_CONFLICT"}
  <2> SUFFICES ASSUME problem \in declared
               PROVE  problem.code \in {"DECLARED_DETERMINISTIC_CONFLICT", "UNKNOWN_SEMANTIC_CONFLICT"}
    OBVIOUS
  <2>1. \E blocking, ids, code :
            /\ problem = Problem(code, blocking, ids)
            /\ code \in {"DECLARED_DETERMINISTIC_CONFLICT", "UNKNOWN_SEMANTIC_CONFLICT"}
    <3>1. PICK conflict \in plan.conflicts : \E blocking, ids :
            problem = Problem(IF conflict.blocking THEN "DECLARED_DETERMINISTIC_CONFLICT" ELSE "UNKNOWN_SEMANTIC_CONFLICT", blocking, ids)
      BY DEF DeclaredProblems
    <3> QED
      BY <3>1
  <2> QED
    BY <2>1, ProblemHas
<1> HIDE DEF each, clashes, verdict, declared
<1>6. Problems(plan, canon, events, TRUE) = broken \cup each \cup clashes \cup verdict \cup declared
  BY DEF Problems, each, clashes, verdict, declared
<1> HIDE DEF broken
<1>7. problem \in each \/ problem \in clashes \/ problem \in verdict \/ problem \in declared
  BY <1>1, <1>6
<1> QED
  BY <1>2, <1>3, <1>4, <1>5, <1>7 DEF verdict

\* A plan whose resources are fine by themselves has only conflicts, and
\* the validator's word is about names, states and statuses.
LEMMA OnlyConflicts ==
  ASSUME NEW U, NEW plan, plan.updates \in Seq(U), NEW canon, NEW events, LocalIdsDiffer(plan.updates), NamesOwnedOnce(canon),
         \A resource \in Planned(plan.updates) : resource.ours /\ FineAlone(resource, canon \cup Planned(plan.updates), events)
  PROVE  LET problems == Problems(plan, canon, events, TRUE) IN
           /\ \A problem \in problems : problem.code \notin Untold
           /\ "CANONICAL_CONFLICT" \in {problem.code : problem \in problems} =>
                \/ \E resource \in Planned(plan.updates) : ~resource.canonical
                \/ "ENTITY_IDENTITY_CONFLICT" \in {problem.code : problem \in problems}
                \/ ~StatesAgree(plan.updates, canon)
<1> DEFINE updates == plan.updates
           planned == Planned(updates)
           problems == Problems(plan, canon, events, TRUE)
<1>1. \A i \in DOMAIN updates : ResourceProblems(updates, canon, events, i) = {}
  <2> SUFFICES ASSUME NEW i \in DOMAIN updates PROVE ResourceProblems(updates, canon, events, i) = {}
    OBVIOUS
  <2>1. FineAlone(updates[i].resource, canon \cup planned, events)
    BY DEF Planned
  <2> QED
    BY <2>1, ResourcesFine
<1>2. ASSUME NEW problem \in problems
      PROVE  \/ problem.code \in {"ENTITY_IDENTITY_CONFLICT", "WORLD_RULE_CONFLICT", "WORLD_RULE_DUPLICATE"}
             \/ problem.code \in {"RELATIONSHIP_CONFLICT", "DECLARED_DETERMINISTIC_CONFLICT", "UNKNOWN_SEMANTIC_CONFLICT"}
             \/ problem \in ValidatorProblems(updates, canon) /\ problem.code = "CANONICAL_CONFLICT"
  BY <1>1, ProblemFrom, NameCodes
<1>3. \A problem \in problems : problem.code \notin Untold
  BY <1>2 DEF Untold
<1>4. ASSUME NEW problem \in problems, problem.code = "CANONICAL_CONFLICT"
      PROVE  ~ValidPlan(updates, canon, TRUE) /\ \A resource \in planned : resource.sound
  <2>1. problem \in ValidatorProblems(updates, canon)
    BY <1>2, <1>4
  <2> QED
    BY <2>1 DEF ValidatorProblems
<1>5. \A resource \in planned : ToSet(resource.of) \subseteq ProfileIds(planned \cup canon)
  <2>1. planned \cup canon = canon \cup planned
    OBVIOUS
  <2> QED
    BY <2>1 DEF FineAlone
<1>6. ASSUME ~NamesOwnedOnce(planned \cup canon) PROVE "ENTITY_IDENTITY_CONFLICT" \in {problem.code : problem \in problems}
  <2>1. PICK i \in DOMAIN updates : \E problem \in NameProblems(updates, canon, i) : problem.code = "ENTITY_IDENTITY_CONFLICT"
    BY <1>6, IdentityConflicts
  <2>2. PICK problem \in NameProblems(updates, canon, i) : problem.code = "ENTITY_IDENTITY_CONFLICT"
    BY <2>1
  <2> DEFINE each == UNION {NameProblems(updates, canon, k) \cup ResourceProblems(updates, canon, events, k) : k \in DOMAIN updates}
  <2>3. problem \in each
    BY <2>2
  <2> HIDE DEF each
  <2>4. each \subseteq problems
    BY DEF Problems, each
  <2> QED
    BY <2>2, <2>3, <2>4
<1>7. ASSUME NEW problem \in problems, problem.code = "CANONICAL_CONFLICT"
      PROVE  \/ \E resource \in planned : ~resource.canonical
             \/ "ENTITY_IDENTITY_CONFLICT" \in {p.code : p \in problems}
             \/ ~StatesAgree(updates, canon)
  <2>1. ~ValidPlan(updates, canon, TRUE) /\ \A resource \in planned : resource.sound
    BY <1>4, <1>7
  <2> HIDE DEF problems
  <2> QED
    BY <1>5, <1>6, <2>1 DEF ValidPlan
<1> QED
  BY <1>3, <1>7

\* A draft in the order it came in, and what is stored beside it.
DraftGiven(raw, ctx) ==
    /\ DraftShaped(raw) /\ LocalIdsDiffer(raw.updates) /\ Distinct(raw.updates, ctx) /\ Referenced(raw.updates, ctx)
    /\ \A row \in ctx.canon : Plain(row.id)

\* A resource and the row made of it.
MadeFrom(r, made, updates, ctx) ==
    /\ DraftRow(r) /\ IsRow(r) /\ IsRow(made) /\ SameContent(made, r) /\ made.kind = r.kind
    /\ made.of = [k \in DOMAIN r.of |-> Refer(updates, ctx, r.of[k])]
    /\ made.id = IF \E row \in ctx.canon : row.kind = r.kind /\ row.id = r.id THEN r.id ELSE <<r.kind, Semantic(made)>>

\* An update and the row in it.
Carries(update, made) == update.resource = made /\ update.id = <<"update", made.kind, made.id, Semantic(made)>>

MadeOf(raw, ctx, i) == Remade(raw.updates, ctx, raw.updates[i].resource)

LEMMA NormalHas ==
  ASSUME NEW raw, NEW ctx, DraftShaped(raw), NEW i \in DOMAIN raw.updates
  PROVE  /\ MadeFrom(raw.updates[i].resource, MadeOf(raw, ctx, i), raw.updates, ctx)
         /\ Carries(NormalUpdate(raw, ctx, i), MadeOf(raw, ctx, i))
<1> DEFINE r == raw.updates[i].resource
           made == Remade(raw.updates, ctx, r)
           update == NormalUpdate(raw, ctx, i)
<1>1. DraftRow(r) /\ IsRow(r)
  BY DEF DraftShaped, DraftRow
<1>2. update = UpdateOf(made)
  BY DEF NormalUpdate
<1> HIDE DEF r
<1>3. /\ IsRow(made) /\ SameContent(made, r)
      /\ made.of = [k \in DOMAIN r.of |-> Refer(raw.updates, ctx, r.of[k])]
      /\ made.id = IF \E row \in ctx.canon : row.kind = r.kind /\ row.id = r.id THEN r.id ELSE <<r.kind, Semantic(made)>>
  BY <1>1, RemadeHas
<1> HIDE DEF made, update
<1>4. made.kind = r.kind
  BY <1>3, SameFields
<1>5. update.resource = made /\ update.id = <<"update", made.kind, made.id, Semantic(made)>>
  <2> DEFINE id == <<"update", made.kind, made.id, Semantic(made)>>
  <2>1. update = [id |-> id, resource |-> made]
    BY <1>2 DEF UpdateOf
  <2> HIDE DEF id
  <2>2. update.resource = made /\ update.id = id
    BY <2>1
  <2> QED
    BY <2>2 DEF id
<1> QED
  BY <1>1, <1>3, <1>4, <1>5 DEF r, made, update, MadeFrom, Carries, MadeOf

\* Two updates of a draft are called, and make, two things.
LEMMA NormalApart ==
  ASSUME NEW raw, NEW ctx, DraftGiven(raw, ctx), NEW i \in DOMAIN raw.updates, NEW j \in DOMAIN raw.updates, i # j
  PROVE  LET one == NormalUpdate(raw, ctx, i) other == NormalUpdate(raw, ctx, j) IN
           /\ one.id # other.id
           /\ <<one.resource.kind, one.resource.id>> # <<other.resource.kind, other.resource.id>>
<1> DEFINE r == raw.updates[i].resource
           s == raw.updates[j].resource
           one == NormalUpdate(raw, ctx, i)
           other == NormalUpdate(raw, ctx, j)
           x == MadeOf(raw, ctx, i)
           y == MadeOf(raw, ctx, j)
           storedR == \E row \in ctx.canon : row.kind = r.kind /\ row.id = r.id
           storedS == \E row \in ctx.canon : row.kind = s.kind /\ row.id = s.id
<1>1. DraftShaped(raw) /\ Semantic(x) # Semantic(y) /\ <<r.kind, r.id>> # <<s.kind, s.id>>
  BY DEF DraftGiven, Distinct, LocalIdsDiffer, MadeOf
<1> HIDE DEF r, s, one, other, x, y
<1>1a. MadeFrom(r, x, raw.updates, ctx) /\ Carries(one, x)
  BY <1>1, NormalHas DEF r, one, x
<1>1b. MadeFrom(s, y, raw.updates, ctx) /\ Carries(other, y)
  BY <1>1, NormalHas DEF s, other, y
<1>2. /\ x.kind = r.kind /\ x.id = IF storedR THEN r.id ELSE <<r.kind, Semantic(x)>>
      /\ one.resource = x /\ one.id = <<"update", x.kind, x.id, Semantic(x)>>
  BY <1>1a DEF MadeFrom, Carries
<1>3. /\ y.kind = s.kind /\ y.id = IF storedS THEN s.id ELSE <<s.kind, Semantic(y)>>
      /\ other.resource = y /\ other.id = <<"update", y.kind, y.id, Semantic(y)>>
  BY <1>1b DEF MadeFrom, Carries
<1>4. storedR => \A kind, content : r.id # <<kind, content>>
  BY DEF DraftGiven, Plain
<1>5. storedS => \A kind, content : s.id # <<kind, content>>
  BY DEF DraftGiven, Plain
<1> HIDE DEF storedR, storedS
<1>6. one.id # other.id
  BY <1>1, <1>2, <1>3
<1>7. ASSUME x.kind = y.kind, x.id = y.id PROVE FALSE
  <2>1. CASE storedR /\ storedS
    BY <1>1, <1>2, <1>3, <1>7, <2>1
  <2>2. CASE storedR /\ ~storedS
    BY <1>2, <1>3, <1>4, <1>7, <2>2
  <2>3. CASE ~storedR /\ storedS
    BY <1>2, <1>3, <1>5, <1>7, <2>3
  <2>4. CASE ~storedR /\ ~storedS
    BY <1>1, <1>2, <1>3, <1>7, <2>4
  <2> QED
    BY <2>1, <2>2, <2>3, <2>4
<1>8. <<one.resource.kind, one.resource.id>> # <<other.resource.kind, other.resource.id>>
  BY <1>2, <1>3, <1>7
<1> QED
  BY <1>6, <1>8 DEF one, other

\* The updates of the plan are those of the draft, each once.
LEMMA NormalListed ==
  ASSUME NEW U, NEW raw, raw.updates \in Seq(U), NEW ctx, DraftGiven(raw, ctx)
  PROVE  LET made == {NormalUpdate(raw, ctx, i) : i \in DOMAIN raw.updates}
             updates == SetToSeq(made)
         IN /\ updates \in Seq(made) /\ Len(updates) = Len(raw.updates)
            /\ \A i, j \in DOMAIN updates : i # j => updates[i] # updates[j]
            /\ \A i \in DOMAIN raw.updates : \E k \in DOMAIN updates : updates[k] = NormalUpdate(raw, ctx, i)
<1> DEFINE n == Len(raw.updates)
           I == 1..n
           made == {NormalUpdate(raw, ctx, i) : i \in DOMAIN raw.updates}
           updates == SetToSeq(made)
           f == [i \in I |-> NormalUpdate(raw, ctx, i)]
<1>1. n \in Nat /\ DOMAIN raw.updates = I
  OBVIOUS
<1>2. \A i, j \in I : i # j => NormalUpdate(raw, ctx, i) # NormalUpdate(raw, ctx, j)
  <2> SUFFICES ASSUME NEW i \in I, NEW j \in I, i # j PROVE NormalUpdate(raw, ctx, i) # NormalUpdate(raw, ctx, j)
    OBVIOUS
  <2>1. i \in DOMAIN raw.updates /\ j \in DOMAIN raw.updates
    BY <1>1
  <2>2. NormalUpdate(raw, ctx, i).id # NormalUpdate(raw, ctx, j).id
    BY <2>1, NormalApart
  <2> QED
    BY <2>2
<1>3. f \in Bijection(I, made)
  <2>1. f \in [I -> made] /\ \A e \in made : \E i \in I : f[i] = e
    BY <1>1
  <2>2. \A i, j \in I : f[i] = f[j] => i = j
    BY <1>2
  <2> HIDE DEF f, made, I
  <2> QED
    BY <2>1, <2>2 DEF Bijection, Injection, Surjection, IsInjective
<1>4. IsFiniteSet(I) /\ Cardinality(I) = n
  <2> DEFINE first == 1
  <2>1. first \in Int /\ n \in Int
    BY <1>1
  <2> HIDE DEF first, n
  <2>2. IsFiniteSet(first..n) /\ Cardinality(first..n) = IF first > n THEN 0 ELSE n - first + 1
    BY <2>1, FS_Interval
  <2> QED
    BY <1>1, <2>2 DEF first
<1> HIDE DEF I, f
<1>5. ExistsBijection(I, made)
  BY <1>3 DEF ExistsBijection
<1> HIDE DEF made
<1>6. IsFiniteSet(made) /\ Cardinality(made) = n
  BY <1>4, <1>5, FS_Bijection
<1>7. /\ updates \in Seq(made) /\ Len(updates) = n
      /\ \A i, j \in DOMAIN updates : i # j => updates[i] # updates[j]
      /\ \A e \in made : \E i \in DOMAIN updates : updates[i] = e
  BY <1>6, ListedOnce
<1> HIDE DEF updates
<1>8. \A i \in DOMAIN raw.updates : NormalUpdate(raw, ctx, i) \in made
  BY DEF made
<1> QED
  BY <1>7, <1>8 DEF updates, made, n

\* A reference of the draft is to a profile stored or made.
LEMMA ReferKnown ==
  ASSUME NEW raw, NEW ctx, DraftShaped(raw), LocalIdsDiffer(raw.updates),
         NEW id \in ProfileIds(ctx.canon \cup Planned(raw.updates))
  PROVE  \/ \E row \in ctx.canon : row.kind = "profile" /\ row.id = Refer(raw.updates, ctx, id)
         \/ \E i \in DOMAIN raw.updates :
                LET made == Remade(raw.updates, ctx, raw.updates[i].resource)
                IN made.kind = "profile" /\ made.id = Refer(raw.updates, ctx, id)
<1>1. ASSUME NEW i \in DOMAIN raw.updates, raw.updates[i].resource.kind = "profile", raw.updates[i].resource.id = id
      PROVE  LET made == Remade(raw.updates, ctx, raw.updates[i].resource)
             IN made.kind = "profile" /\ made.id = Refer(raw.updates, ctx, id)
  <2> DEFINE r == raw.updates[i].resource
             made == MadeOf(raw, ctx, i)
  <2>1. Refer(raw.updates, ctx, id) = SettledId(r, ctx)
    <3> DEFINE updates == raw.updates
    <3>1. LocalIdsDiffer(updates) /\ i \in DOMAIN updates /\ updates[i].resource.kind = "profile" /\ updates[i].resource.id = id
      BY <1>1
    <3>2. r = updates[i].resource
      OBVIOUS
    <3> HIDE DEF updates, r
    <3>3. Refer(updates, ctx, updates[i].resource.id) = SettledId(updates[i].resource, ctx)
      BY <3>1, ProfileMeant
    <3>4. Refer(updates, ctx, id) = SettledId(r, ctx)
      BY <3>1, <3>2, <3>3
    <3> QED
      BY <3>4 DEF updates
  <2>2. MadeFrom(r, made, raw.updates, ctx)
    BY NormalHas
  <2>3. r.kind = "profile"
    BY <1>1
  <2> HIDE DEF r, made
  <2>4. r.of = <<>> /\ made.of = <<>>
    BY <2>2, <2>3 DEF DraftRow, MadeFrom
  <2>5. Semantic(made) = Semantic(r)
    BY <2>2, <2>4, SemanticSame DEF MadeFrom
  <2>6. SettledId(r, ctx) = IF \E row \in ctx.canon : row.kind = r.kind /\ row.id = r.id THEN r.id ELSE <<r.kind, Semantic(r)>>
    BY DEF SettledId
  <2>7. made.kind = "profile" /\ made.id = Refer(raw.updates, ctx, id)
    BY <2>1, <2>2, <2>3, <2>5, <2>6 DEF MadeFrom
  <2> QED
    BY <2>7 DEF made, r, MadeOf
<1>2. CASE \E i \in DOMAIN raw.updates : raw.updates[i].resource.kind = "profile" /\ raw.updates[i].resource.id = id
  BY <1>1, <1>2
<1>3. CASE ~\E i \in DOMAIN raw.updates : raw.updates[i].resource.kind = "profile" /\ raw.updates[i].resource.id = id
  <2> DEFINE updates == raw.updates
             canon == ctx.canon
  <2>1. /\ ~\E i \in DOMAIN updates : updates[i].resource.kind = "profile" /\ updates[i].resource.id = id
        /\ id \in ProfileIds(canon \cup Planned(updates))
    BY <1>3
  <2> HIDE DEF updates, canon
  <2>2. Refer(updates, ctx, id) = id
    BY <2>1, NoneMeant
  <2>3. \/ \E row \in canon : row.kind = "profile" /\ row.id = id
        \/ \E i \in DOMAIN updates : updates[i].resource.kind = "profile" /\ updates[i].resource.id = id
    BY <2>1 DEF ProfileIds, OfKind, Planned
  <2>4. \E row \in canon : row.kind = "profile" /\ row.id = Refer(updates, ctx, id)
    BY <2>1, <2>2, <2>3
  <2> QED
    BY <2>4 DEF updates, canon
<1> QED
  BY <1>2, <1>3

\* What is made of a draft's resources can only be in conflict.
LEMMA MadeFine ==
  ASSUME NEW raw, NEW ctx, DraftShaped(raw), LocalIdsDiffer(raw.updates), Accepts(raw, ctx), Referenced(raw.updates, ctx),
         NEW rows, \A row \in ctx.canon : row \in rows, \A i \in DOMAIN raw.updates : MadeOf(raw, ctx, i) \in rows,
         NEW i \in DOMAIN raw.updates
  PROVE  MadeOf(raw, ctx, i).ours /\ FineAlone(MadeOf(raw, ctx, i), rows, ctx.events)
<1> DEFINE r == raw.updates[i].resource
           made == MadeOf(raw, ctx, i)
           updates == raw.updates
<1>1. MadeFrom(r, made, updates, ctx)
  BY NormalHas
<1>2. r.ours /\ r.sound /\ (r.kind \in {"state", "relationship"} => TemporalSound(r, ctx))
  BY DEF Accepts, Planned
<1>3. \A k \in DOMAIN r.of : r.of[k] \in ProfileIds(ctx.canon \cup Planned(updates))
  BY DEF Referenced
<1>4. ASSUME NEW id \in ProfileIds(ctx.canon \cup Planned(updates)) PROVE Refer(updates, ctx, id) \in ProfileIds(rows)
  <2>1. \/ \E row \in ctx.canon : row.kind = "profile" /\ row.id = Refer(updates, ctx, id)
        \/ \E j \in DOMAIN raw.updates : MadeOf(raw, ctx, j).kind = "profile" /\ MadeOf(raw, ctx, j).id = Refer(updates, ctx, id)
    BY ReferKnown DEF MadeOf
  <2> HIDE DEF updates
  <2>2. \E row \in rows : row.kind = "profile" /\ row.id = Refer(updates, ctx, id)
    BY <2>1
  <2> QED
    BY <2>2 DEF ProfileIds, OfKind
<1> HIDE DEF r, made, updates
<1>5. made.ours = r.ours /\ made.sound = r.sound /\ made.kind = r.kind
  BY <1>1, SameFields DEF MadeFrom
<1>6. ToSet(made.of) \subseteq ProfileIds(rows)
  <2>1. made.of = [k \in DOMAIN r.of |-> Refer(updates, ctx, r.of[k])]
    BY <1>1 DEF MadeFrom
  <2>2. \A k \in DOMAIN made.of : made.of[k] \in ProfileIds(rows)
    BY <1>3, <1>4, <2>1
  <2> QED
    BY <2>2 DEF ToSet
<1>7. made.kind \in {"state", "relationship"} => EventsOf(made) \subseteq ctx.events
  <2>1. SameContent(r, made)
    BY <1>1 DEF MadeFrom, SameContent
  <2>2. TemporalSound(r, ctx) => TemporalSound(made, ctx)
    BY <2>1, TimesAlike
  <2> QED
    BY <1>2, <1>5, <2>2 DEF TemporalSound
<1>8. made.ours /\ made.sound # FALSE
  BY <1>2, <1>5
<1> QED
  BY <1>6, <1>7, <1>8 DEF FineAlone, made

\* The affected updates of a declared conflict are updates of the plan.
LEMMA NormalReviewable ==
  ASSUME NEW U, NEW raw, raw.updates \in Seq(U), NEW ctx, DraftGiven(raw, ctx)
  PROVE  Reviewable(NormalPlan(raw, ctx))
<1> DEFINE plan == NormalPlan(raw, ctx)
           updates == SetToSeq({NormalUpdate(raw, ctx, i) : i \in DOMAIN raw.updates})
           some(conflict) == {i \in DOMAIN raw.updates : raw.updates[i].id \in ToSet(conflict.affected)}
           affected(conflict) == {NormalUpdate(raw, ctx, i).id : i \in some(conflict)}
<1>1. plan.updates = updates
  BY DEF NormalPlan
<1>2. \A declared \in plan.conflicts : \E conflict \in raw.conflicts : declared.affected = SetToSeq(affected(conflict))
  <2> DEFINE made(conflict) == [affected |-> SetToSeq(affected(conflict)), blocking |-> conflict.blocking, ours |-> TRUE]
  <2>1. plan.conflicts = {made(conflict) : conflict \in raw.conflicts}
    BY DEF NormalPlan
  <2> HIDE DEF affected
  <2>2. \A conflict : made(conflict).affected = SetToSeq(affected(conflict))
    OBVIOUS
  <2> QED
    BY <2>1, <2>2
<1>3. \A i \in DOMAIN raw.updates : \E k \in DOMAIN updates : updates[k] = NormalUpdate(raw, ctx, i)
  BY NormalListed
<1> HIDE DEF plan, updates
<1>4. ASSUME NEW conflict PROVE ToSet(SetToSeq(affected(conflict))) \subseteq {updates[k].id : k \in DOMAIN updates}
  <2> DEFINE I == some(conflict)
             A == affected(conflict)
             n == Len(raw.updates)
             f == [i \in I |-> NormalUpdate(raw, ctx, i).id]
  <2>1. I \subseteq 1..n /\ n \in Nat
    OBVIOUS
  <2>2. IsFiniteSet(1..n)
    <3> DEFINE first == 1
    <3>1. first \in Int /\ n \in Int
      BY <2>1
    <3> HIDE DEF first, n
    <3>2. IsFiniteSet(first..n)
      BY <3>1, FS_Interval
    <3> QED
      BY <3>2 DEF first
  <2>3. IsFiniteSet(I)
    <3> HIDE DEF I
    <3> QED
      BY <2>1, <2>2, FS_Subset
  <2>4. f \in Surjection(I, A)
    <3>1. f \in [I -> A] /\ \A e \in A : \E i \in I : f[i] = e
      OBVIOUS
    <3> HIDE DEF I, A, f
    <3> QED
      BY <3>1 DEF Surjection
  <2>5. IsFiniteSet(A)
    <3> HIDE DEF I, A, f
    <3> QED
      BY <2>3, <2>4, FS_Surjection
  <2>6. \A id \in A : \E k \in DOMAIN updates : updates[k].id = id
    BY <1>3
  <2> HIDE DEF A
  <2>7. SetToSeq(A) \in Seq(A)
    BY <2>5, ListedOnce
  <2>8. ToSet(SetToSeq(A)) \subseteq A
    BY <2>7 DEF ToSet
  <2> QED
    BY <2>6, <2>8 DEF A
<1> HIDE DEF affected
<1> QED
  BY <1>1, <1>2, <1>4 DEF Reviewable, plan

\* What an accepted draft is normalised into can be reviewed, and has only
\* conflicts left to find.
THEOREM NormalisedIsReviewable ==
  ASSUME NEW U, NEW raw, raw.updates \in Seq(U), DraftShaped(raw), NEW ctx, \A row \in ctx.canon : Plain(row.id),
         NamesOwnedOnce(ctx.canon), Accepts(raw, ctx)
  PROVE  LET plan == NormalPlan(raw, ctx)
             problems == Problems(plan, ctx.canon, ctx.events, TRUE)
         IN /\ Reviewable(plan) /\ LocalIdsDiffer(plan.updates) /\ Len(plan.updates) = Len(raw.updates)
            /\ \A problem \in problems : problem.code \notin Untold
            /\ "CANONICAL_CONFLICT" \in {problem.code : problem \in problems} =>
                \/ \E resource \in Planned(plan.updates) : ~resource.canonical
                \/ "ENTITY_IDENTITY_CONFLICT" \in {problem.code : problem \in problems}
                \/ ~StatesAgree(plan.updates, ctx.canon)
<1> DEFINE plan == NormalPlan(raw, ctx)
           made == {NormalUpdate(raw, ctx, i) : i \in DOMAIN raw.updates}
           updates == SetToSeq(made)
           planned == Planned(updates)
<1>1. LocalIdsDiffer(raw.updates) /\ Distinct(raw.updates, ctx) /\ Referenced(raw.updates, ctx)
  <2>1. \A i \in DOMAIN raw.updates : DraftRow(raw.updates[i].resource)
    BY DEF DraftShaped
  <2>2. \A resource \in Planned(raw.updates) :
            resource.kind \in {"state", "relationship"} => ToSet(resource.of) \subseteq ProfileIds(ctx.canon \cup Planned(raw.updates))
    BY DEF Accepts
  <2>3. Referenced(raw.updates, ctx)
    BY <2>1, <2>2, AcceptedRefers
  <2> QED
    BY <2>3 DEF Accepts
<1>2. DraftGiven(raw, ctx)
  BY <1>1 DEF DraftGiven
<1>3. plan.updates = updates
  BY DEF NormalPlan
<1>4. Reviewable(plan)
  BY <1>2, NormalReviewable
<1>5. /\ updates \in Seq(made) /\ Len(updates) = Len(raw.updates)
      /\ \A i, j \in DOMAIN updates : i # j => updates[i] # updates[j]
      /\ \A i \in DOMAIN raw.updates : \E k \in DOMAIN updates : updates[k] = NormalUpdate(raw, ctx, i)
  BY <1>2, NormalListed
<1>6. \A update \in made : \E i \in DOMAIN raw.updates : update = NormalUpdate(raw, ctx, i)
  OBVIOUS
<1> HIDE DEF plan, made, updates
<1>7. \A k \in DOMAIN updates : \E i \in DOMAIN raw.updates : updates[k] = NormalUpdate(raw, ctx, i)
  <2>1. \A k \in DOMAIN updates : updates[k] \in made
    BY <1>5
  <2> QED
    BY <1>6, <2>1
<1>8. LocalIdsDiffer(updates)
  <2> SUFFICES ASSUME NEW k \in DOMAIN updates, NEW l \in DOMAIN updates, k # l
               PROVE  /\ updates[k].id # updates[l].id
                      /\ <<updates[k].resource.kind, updates[k].resource.id>> # <<updates[l].resource.kind, updates[l].resource.id>>
    BY DEF LocalIdsDiffer
  <2>1. PICK i \in DOMAIN raw.updates : updates[k] = NormalUpdate(raw, ctx, i)
    BY <1>7
  <2>2. PICK j \in DOMAIN raw.updates : updates[l] = NormalUpdate(raw, ctx, j)
    BY <1>7
  <2>3. i # j
    BY <1>5, <2>1, <2>2
  <2> DEFINE one == NormalUpdate(raw, ctx, i)
             other == NormalUpdate(raw, ctx, j)
  <2>4. one.id # other.id /\ <<one.resource.kind, one.resource.id>> # <<other.resource.kind, other.resource.id>>
    BY <1>2, <2>3, NormalApart
  <2> HIDE DEF one, other
  <2> QED
    BY <2>1, <2>2, <2>4 DEF one, other
<1>9. \A i \in DOMAIN raw.updates : NormalUpdate(raw, ctx, i).resource = MadeOf(raw, ctx, i)
  BY NormalHas DEF Carries
<1>10. \A i \in DOMAIN raw.updates : MadeOf(raw, ctx, i) \in planned
  <2> SUFFICES ASSUME NEW i \in DOMAIN raw.updates PROVE MadeOf(raw, ctx, i) \in planned
    OBVIOUS
  <2>1. PICK k \in DOMAIN updates : updates[k] = NormalUpdate(raw, ctx, i)
    BY <1>5
  <2>2. updates[k].resource = MadeOf(raw, ctx, i)
    BY <1>9, <2>1
  <2> QED
    BY <2>2 DEF Planned
<1>11. \A resource \in planned : \E i \in DOMAIN raw.updates : resource = MadeOf(raw, ctx, i)
  <2> SUFFICES ASSUME NEW k \in DOMAIN updates PROVE \E i \in DOMAIN raw.updates : updates[k].resource = MadeOf(raw, ctx, i)
    BY DEF Planned
  <2> QED
    BY <1>7, <1>9
<1> HIDE DEF planned
<1>12. ASSUME NEW resource \in planned PROVE resource.ours /\ FineAlone(resource, ctx.canon \cup planned, ctx.events)
  <2> DEFINE rows == ctx.canon \cup planned
  <2>1. PICK i \in DOMAIN raw.updates : resource = MadeOf(raw, ctx, i)
    BY <1>11
  <2>2. (\A row \in ctx.canon : row \in rows) /\ \A j \in DOMAIN raw.updates : MadeOf(raw, ctx, j) \in rows
    BY <1>10
  <2> HIDE DEF rows
  <2>3. MadeOf(raw, ctx, i).ours /\ FineAlone(MadeOf(raw, ctx, i), rows, ctx.events)
    BY <1>1, <2>2, MadeFine
  <2> QED
    BY <2>1, <2>3 DEF rows
<1>13. LET problems == Problems(plan, ctx.canon, ctx.events, TRUE) IN
         /\ \A problem \in problems : problem.code \notin Untold
         /\ "CANONICAL_CONFLICT" \in {problem.code : problem \in problems} =>
                \/ \E resource \in Planned(plan.updates) : ~resource.canonical
                \/ "ENTITY_IDENTITY_CONFLICT" \in {problem.code : problem \in problems}
                \/ ~StatesAgree(plan.updates, ctx.canon)
  <2> DEFINE canon == ctx.canon
             events == ctx.events
  <2>1. /\ plan.updates \in Seq(made) /\ LocalIdsDiffer(plan.updates) /\ NamesOwnedOnce(canon)
        /\ \A resource \in Planned(plan.updates) : resource.ours /\ FineAlone(resource, canon \cup Planned(plan.updates), events)
    BY <1>3, <1>5, <1>8, <1>12 DEF planned
  <2> HIDE DEF canon, events
  <2>2. LET problems == Problems(plan, canon, events, TRUE) IN
         /\ \A problem \in problems : problem.code \notin Untold
         /\ "CANONICAL_CONFLICT" \in {problem.code : problem \in problems} =>
                \/ \E resource \in Planned(plan.updates) : ~resource.canonical
                \/ "ENTITY_IDENTITY_CONFLICT" \in {problem.code : problem \in problems}
                \/ ~StatesAgree(plan.updates, canon)
    BY <2>1, OnlyConflicts
  <2> QED
    BY <2>2 DEF canon, events
<1> QED
  BY <1>3, <1>4, <1>5, <1>8, <1>13 DEF plan

LEMMA ResourceIsRow ==
  ASSUME NEW kind, NEW id, NEW of, NEW names, NEW facts
  PROVE  IsRow(Resource(kind, id, of, names, facts))
<1> DEFINE open == Open
           none == NoEvent
           first == 1
           made == [kind |-> kind, id |-> id, of |-> of, names |-> names, facts |-> facts, from |-> open, until |-> open,
                    trigger |-> none, rev |-> first, canonical |-> TRUE, sound |-> TRUE, ours |-> TRUE]
<1>1. Resource(kind, id, of, names, facts) = made
  BY DEF Resource
<1> HIDE DEF open, none, first
<1>2. DOMAIN made = ResourceFields
  BY DEF ResourceFields
<1>3. made = [field \in DOMAIN made |-> made[field]]
  OBVIOUS
<1> QED
  BY <1>1, <1>2, <1>3 DEF IsRow

LEMMA KindsAreRows ==
  /\ \A id, names : IsRow(Profile(id, names))
  /\ \A id, of, facts : IsRow(EntityState(id, of, facts))
  /\ \A id, of, facts : IsRow(Relationship(id, of, facts))
  /\ \A id, name, facts : IsRow(Rule(id, name, facts))
BY ResourceIsRow DEF Profile, EntityState, Relationship, Rule

LEMMA PlainIds ==
  ASSUME NEW x
  PROVE  Plain(<<x>>)
BY DEF Plain

LEMMA StillDraftRow ==
  ASSUME NEW r, DraftRow(r), NEW s, IsRow(s), s.kind = r.kind, s.of = r.of
  PROVE  DraftRow(s)
BY DEF DraftRow

LEMMA DraftProfile ==
  ASSUME NEW id, NEW names
  PROVE  DraftRow(Profile(id, names))
<1> DEFINE r == Profile(id, names)
<1>1. IsRow(r) /\ r.kind = "profile" /\ r.of = <<>>
  BY KindsAreRows, ProfileHas
<1> HIDE DEF r
<1>2. r.of = [k \in DOMAIN r.of |-> r.of[k]] /\ \A k \in DOMAIN r.of : Plain(r.of[k])
  BY <1>1
<1> QED
  BY <1>1, <1>2 DEF DraftRow, Kinds, r

LEMMA DraftRule ==
  ASSUME NEW id, NEW name, NEW facts
  PROVE  DraftRow(Rule(id, name, facts))
<1> DEFINE r == Rule(id, name, facts)
<1>1. IsRow(r) /\ r.kind = "rule" /\ r.of = <<>>
  BY KindsAreRows, RuleHas
<1> HIDE DEF r
<1>2. r.of = [k \in DOMAIN r.of |-> r.of[k]] /\ \A k \in DOMAIN r.of : Plain(r.of[k])
  BY <1>1
<1> QED
  BY <1>1, <1>2 DEF DraftRow, Kinds, r

LEMMA DraftState ==
  ASSUME NEW id, NEW of, Plain(of), NEW facts
  PROVE  DraftRow(EntityState(id, of, facts))
<1> DEFINE r == EntityState(id, of, facts)
           about == <<of>>
<1>1. IsRow(r) /\ r.kind = "state" /\ r.of = about
  BY KindsAreRows, EntityStateHas
<1>2. about = [k \in DOMAIN about |-> about[k]] /\ \A k \in DOMAIN about : Plain(about[k])
  OBVIOUS
<1> HIDE DEF r, about
<1> QED
  BY <1>1, <1>2 DEF DraftRow, Kinds, r

LEMMA DraftRelationship ==
  ASSUME NEW id, NEW one, Plain(one), NEW other, Plain(other), NEW facts
  PROVE  DraftRow(Relationship(id, <<one, other>>, facts))
<1> DEFINE about == <<one, other>>
           r == Relationship(id, about, facts)
<1>1. about = [k \in DOMAIN about |-> about[k]] /\ \A k \in DOMAIN about : Plain(about[k])
  OBVIOUS
<1> HIDE DEF about
<1>2. IsRow(r) /\ r.kind = "relationship" /\ r.of = about
  BY KindsAreRows, RelationshipHas
<1> HIDE DEF r
<1> QED
  BY <1>1, <1>2 DEF DraftRow, Kinds, r, about

LEMMA FieldKept ==
  ASSUME NEW r, IsRow(r), NEW field \in ResourceFields \ {"kind", "of"}, NEW x
  PROVE  LET s == [r EXCEPT ![field] = x] IN IsRow(s) /\ s.kind = r.kind /\ s.of = r.of
<1>1. "kind" \in ResourceFields /\ "of" \in ResourceFields
  BY DEF ResourceFields
<1> HIDE DEF ResourceFields
<1> QED
  BY <1>1 DEF IsRow

LEMMA SpannedKept ==
  ASSUME NEW r, IsRow(r), NEW span
  PROVE  LET s == Spanned(r, span) IN IsRow(s) /\ s.kind = r.kind /\ s.of = r.of
<1> DEFINE from == "from"
           until == "until"
           start == span.from
           end == span.until
           m == [r EXCEPT ![from] = start]
           s == [m EXCEPT ![until] = end]
<1>1. Spanned(r, span) = s
  BY DEF Spanned
<1>2. from \in ResourceFields \ {"kind", "of"} /\ until \in ResourceFields \ {"kind", "of"}
  BY DEF ResourceFields
<1> HIDE DEF from, until, start, end
<1>3. IsRow(m) /\ m.kind = r.kind /\ m.of = r.of
  BY <1>2, FieldKept
<1> HIDE DEF m
<1>4. IsRow(s) /\ s.kind = m.kind /\ s.of = m.of
  BY <1>2, <1>3, FieldKept
<1> QED
  BY <1>1, <1>3, <1>4

\* Every resource of the drafts asked about is one a Curator can send.
LEMMA DraftResourcesAre == \A r \in DraftResources : DraftRow(r)
<1> DEFINE Persons == {Profile(id, {name}) : id \in {<<"l1">>, <<"l2">>, <<"c1">>}, name \in {1, 3}}
           Conditions == {Spanned(EntityState(id, of, Fact(1, 1)), span) :
                        id \in {<<"l1">>, <<"l2">>, <<"s1">>}, of \in {<<"c1">>, <<"l1">>}, span \in DraftSpans}
           Ties == {Relationship(id, of, Fact(1, 1)) : id \in {<<"l1">>, <<"l2">>}, of \in {<<<<"c1">>, <<"c2">>>>, <<<<"c1">>, <<"l1">>>>}}
           Laws == {Rule(id, 1, Fact(1, 1)) : id \in {<<"l1">>, <<"l2">>}}
           triggered == [EntityState(<<"l1">>, <<"c1">>, Fact(1, 1)) EXCEPT !.trigger = 9]
           unsound == [Rule(<<"l1">>, 2, Fact(1, 1)) EXCEPT !.sound = FALSE]
           foreign == [Rule(<<"l1">>, 2, Fact(1, 1)) EXCEPT !.ours = FALSE]
           planned == [Rule(<<"l1">>, 2, Fact(1, 1)) EXCEPT !.canonical = FALSE]
<1>1. DraftResources = Persons \cup Conditions \cup Ties \cup Laws \cup {triggered, unsound, foreign, planned}
  BY DEF DraftResources
<1>2. \A r \in Persons : DraftRow(r)
  BY DraftProfile
<1>3. \A r \in Laws : DraftRow(r)
  BY DraftRule
<1>4. Plain(<<"c1">>) /\ Plain(<<"c2">>) /\ Plain(<<"l1">>)
  BY PlainIds
<1>5. ASSUME NEW r \in Conditions PROVE DraftRow(r)
  <2>1. PICK id \in {<<"l1">>, <<"l2">>, <<"s1">>}, of \in {<<"c1">>, <<"l1">>}, span \in DraftSpans :
            r = Spanned(EntityState(id, of, Fact(1, 1)), span)
    OBVIOUS
  <2> DEFINE fact == Fact(1, 1)
             s == EntityState(id, of, fact)
  <2>2. Plain(of)
    BY <1>4
  <2>3. r = Spanned(s, span)
    BY <2>1
  <2> HIDE DEF fact
  <2>4. DraftRow(s)
    BY <2>2, DraftState
  <2> HIDE DEF s
  <2>5. IsRow(r) /\ r.kind = s.kind /\ r.of = s.of
    BY <2>3, <2>4, SpannedKept DEF DraftRow
  <2> QED
    BY <2>4, <2>5, StillDraftRow
<1>6. ASSUME NEW r \in Ties PROVE DraftRow(r)
  <2> DEFINE fact == Fact(1, 1)
             c1 == <<"c1">>
             c2 == <<"c2">>
             l1 == <<"l1">>
  <2>1. PICK id \in {<<"l1">>, <<"l2">>}, of \in {<<c1, c2>>, <<c1, l1>>} : r = Relationship(id, of, fact)
    OBVIOUS
  <2>2. Plain(c1) /\ Plain(c2) /\ Plain(l1)
    BY <1>4
  <2> HIDE DEF fact, c1, c2, l1
  <2>3. DraftRow(Relationship(id, <<c1, c2>>, fact)) /\ DraftRow(Relationship(id, <<c1, l1>>, fact))
    BY <2>2, DraftRelationship
  <2> QED
    BY <2>1, <2>3
<1>7. DraftRow(triggered)
  <2> DEFINE id == <<"l1">>
             of == <<"c1">>
             fact == Fact(1, 1)
             s == EntityState(id, of, fact)
             field == "trigger"
             value == 9
             t == [s EXCEPT ![field] = value]
  <2>1. triggered = t
    OBVIOUS
  <2>2. Plain(of) /\ field \in ResourceFields \ {"kind", "of"}
    BY <1>4 DEF ResourceFields
  <2> HIDE DEF id, of, fact, field, value, triggered
  <2>3. DraftRow(s)
    BY <2>2, DraftState
  <2> HIDE DEF s
  <2>4. IsRow(t) /\ t.kind = s.kind /\ t.of = s.of
    BY <2>2, <2>3, FieldKept DEF DraftRow
  <2> HIDE DEF t
  <2> QED
    BY <2>1, <2>3, <2>4, StillDraftRow
<1>8. ASSUME NEW field \in {"sound", "ours", "canonical"}
      PROVE  DraftRow([Rule(<<"l1">>, 2, Fact(1, 1)) EXCEPT ![field] = FALSE])
  <2> DEFINE id == <<"l1">>
             name == 2
             fact == Fact(1, 1)
             value == FALSE
             s == Rule(id, name, fact)
             t == [s EXCEPT ![field] = value]
  <2>1. field \in ResourceFields \ {"kind", "of"}
    BY DEF ResourceFields
  <2> HIDE DEF id, name, fact, value
  <2>2. DraftRow(s)
    BY DraftRule
  <2> HIDE DEF s
  <2>3. IsRow(t) /\ t.kind = s.kind /\ t.of = s.of
    BY <2>1, <2>2, FieldKept DEF DraftRow
  <2> HIDE DEF t
  <2>4. DraftRow(t)
    BY <2>2, <2>3, StillDraftRow
  <2> QED
    BY <2>4 DEF t, s, id, name, fact, value
<1>9. DraftRow(unsound) /\ DraftRow(foreign) /\ DraftRow(planned)
  <2> DEFINE r == Rule(<<"l1">>, 2, Fact(1, 1))
  <2>1. \A field \in {"sound", "ours", "canonical"} : DraftRow([r EXCEPT ![field] = FALSE])
    BY <1>8
  <2> HIDE DEF r
  <2>2. DraftRow([r EXCEPT !["sound"] = FALSE]) /\ DraftRow([r EXCEPT !["ours"] = FALSE]) /\ DraftRow([r EXCEPT !["canonical"] = FALSE])
    BY <2>1
  <2> QED
    BY <2>2 DEF r
<1> HIDE DEF Persons, Conditions, Ties, Laws, triggered, unsound, foreign, planned
<1> QED
  BY <1>1, <1>2, <1>3, <1>5, <1>6, <1>7, <1>9

\* What is stored when a draft is asked about.
LEMMA StoredForDrafts ==
  /\ \A row \in People \cup {StoredState} : row.id \notin MadeUpIds /\ Plain(row.id)
  /\ NamesOwnedOnce(People \cup {StoredState})
<1> DEFINE c1 == <<"c1">>
           c2 == <<"c2">>
           s1 == <<"s1">>
           name1 == {1}
           name2 == {2}
           fact == Fact(1, 1)
           one == Profile(c1, name1)
           two == Profile(c2, name2)
           state == StoredState
<1>1. People = {one, two} /\ state = EntityState(s1, c1, fact)
  BY DEF People, StoredState
<1>2. name1 \cap name2 = {}
  OBVIOUS
<1>3. /\ c1 \notin MadeUpIds /\ Plain(c1) /\ c2 \notin MadeUpIds /\ Plain(c2)
      /\ s1 \notin MadeUpIds /\ Plain(s1)
  BY PlainIds DEF MadeUpIds
<1> HIDE DEF c1, c2, s1, name1, name2, fact, state
<1>4. one.kind = "profile" /\ one.id = c1 /\ one.names = name1
  BY ProfileHas
<1>5. two.kind = "profile" /\ two.id = c2 /\ two.names = name2
  BY ProfileHas
<1>6. state.kind = "state" /\ state.id = s1
  BY <1>1, EntityStateHas
<1> HIDE DEF one, two
<1>7. NamesOwnedOnce({one, two} \cup {state})
  <2>1. \A row : row \in OfKind({one, two} \cup {state}, "profile") => row \in {one, two}
    BY <1>6 DEF OfKind
  <2> QED
    BY <1>2, <1>4, <1>5, <2>1 DEF NamesOwnedOnce
<1> QED
  BY <1>1, <1>3, <1>4, <1>5, <1>6, <1>7 DEF state

DraftUpdates == [id : Nat, resource : DraftResources]

\* What is asked about a draft, and answered.
DraftIsAsked ==
    topic = "draft" =>
        /\ DraftShaped(question.raw) /\ question.raw.updates \in Seq(DraftUpdates)
        /\ question.context.canon = People \cup {StoredState}
        /\ answered =>
            /\ answer.accepted = Accepts(question.raw, question.context)
            /\ answer.plan = IF Accepts(question.raw, question.context) THEN NormalPlan(question.raw, question.context) ELSE <<>>

LEMMA DraftedHas ==
  ASSUME NEW resources \in Seq(DraftResources), Len(resources) \in 1..2, NEW conflicts
  PROVE  LET raw == Drafted(resources, <<1, 2>>, conflicts) IN DraftShaped(raw) /\ raw.updates \in Seq(DraftUpdates)
<1> DEFINE ids == <<1, 2>>
           n == Len(resources)
           updates == [i \in DOMAIN resources |-> [id |-> ids[i], resource |-> resources[i]]]
           raw == [candidate |-> TRUE, ours |-> TRUE, conflicts |-> conflicts, updates |-> updates]
<1>1. Drafted(resources, ids, conflicts) = raw
  BY DEF Drafted
<1>2. n \in Nat /\ DOMAIN resources = 1..n /\ \A i \in 1..n : resources[i] \in DraftResources
  OBVIOUS
<1>3. \A i \in 1..n : ids[i] \in Nat
  <2>1. ids[1] \in Nat /\ ids[2] \in Nat
    OBVIOUS
  <2>2. \A i \in 1..n : i = 1 \/ i = 2
    BY <1>2
  <2> SUFFICES ASSUME NEW i \in 1..n PROVE ids[i] \in Nat
    OBVIOUS
  <2>3. i = 1 \/ i = 2
    BY <2>2
  <2> HIDE DEF ids
  <2> QED
    BY <2>1, <2>3
<1> HIDE DEF ids, n
<1>4. updates \in [1..n -> DraftUpdates]
  BY <1>2, <1>3 DEF DraftUpdates
<1>5. \A i \in 1..n : DOMAIN updates[i] = {"id", "resource"} /\ updates[i].resource = resources[i]
  BY <1>2
<1>6. DOMAIN updates = 1..n
  BY <1>2
<1> HIDE DEF updates
<1>7. updates \in Seq(DraftUpdates)
  BY <1>2, <1>4
<1>8. raw.updates = updates /\ DOMAIN raw = {"candidate", "ours", "conflicts", "updates"}
  OBVIOUS
<1> HIDE DEF raw
<1>9. \A i \in 1..n : DraftRow(updates[i].resource)
  BY <1>2, <1>5, DraftResourcesAre
<1> QED
  BY <1>1, <1>5, <1>6, <1>7, <1>8, <1>9 DEF DraftShaped, ids

LEMMA DraftsAsked ==
  ASSUME AskDraft
  PROVE  /\ DraftShaped(question.raw) /\ question.raw.updates \in Seq(DraftUpdates)
         /\ question.context.canon = People \cup {StoredState}
<1> DEFINE canon == People \cup {StoredState}
           ids == <<1, 2>>
           events == {1, 2}
<1>1. PICK resources \in {<<one>> : one \in DraftResources} \cup (DraftResources \X DraftResources) :
        \E conflicts, relations : Ask("draft", [raw |-> Drafted(resources, ids, conflicts), context |-> Context(canon, events, relations)])
  BY DEF AskDraft
<1>2. PICK conflicts, relations :
        Ask("draft", [raw |-> Drafted(resources, ids, conflicts), context |-> Context(canon, events, relations)])
  BY <1>1
<1>3. resources \in Seq(DraftResources) /\ Len(resources) \in 1..2
  <2>1. CASE resources \in {<<one>> : one \in DraftResources}
    <3>1. PICK one \in DraftResources : resources = <<one>>
      BY <2>1
    <3> QED
      BY <3>1
  <2>2. CASE resources \in DraftResources \X DraftResources
    <3>1. PICK one \in DraftResources, two \in DraftResources : resources = <<one, two>>
      BY <2>2
    <3> QED
      BY <3>1
  <2> QED
    BY <1>1, <2>1, <2>2
<1> DEFINE raw == Drafted(resources, ids, conflicts)
           context == Context(canon, events, relations)
<1>4. DraftShaped(raw) /\ raw.updates \in Seq(DraftUpdates)
  BY <1>3, DraftedHas
<1>5. context.canon = canon
  <2> DEFINE before == Predecessors(events, relations)
             order == TrustedOrder(before)
  <2>1. context = [canon |-> canon, events |-> events, before |-> before, order |-> order]
    BY DEF Context
  <2> HIDE DEF before, order, events, canon, context
  <2> QED
    BY <2>1
<1>6. question = [raw |-> raw, context |-> context]
  BY <1>2 DEF Ask
<1> HIDE DEF raw, context, canon
<1>7. question.raw = raw /\ question.context = context
  BY <1>6
<1> QED
  BY <1>4, <1>5, <1>7 DEF canon

\* A draft is normalised whatever its wording, into a plan that can be
\* reviewed, and is ambiguous only if two of its resources are taken for one.
LEMMA DraftsAreSound == DraftIsAsked => LocalIdsForgotten /\ NormalisedReviewable /\ TakenForOne
<1> SUFFICES ASSUME DraftIsAsked, topic = "draft", answered PROVE LocalIdsForgotten /\ NormalisedReviewable /\ TakenForOne
  BY DEF LocalIdsForgotten, NormalisedReviewable, TakenForOne, Replied
<1> DEFINE raw == question.raw
           ctx == question.context
           canon == ctx.canon
<1>1. /\ DraftShaped(raw) /\ raw.updates \in Seq(DraftUpdates) /\ canon = People \cup {StoredState}
      /\ answer.accepted = Accepts(raw, ctx)
      /\ answer.plan = IF Accepts(raw, ctx) THEN NormalPlan(raw, ctx) ELSE <<>>
  BY DEF DraftIsAsked
<1>2. (\A row \in ctx.canon : row.id \notin MadeUpIds /\ Plain(row.id)) /\ NamesOwnedOnce(ctx.canon)
  BY <1>1, StoredForDrafts
<1> HIDE DEF raw, ctx
<1>3. LocalIdsForgotten
  <2>1. /\ Accepts(Reworded(raw), ctx) <=> Accepts(raw, ctx)
        /\ Accepts(raw, ctx) => NormalPlan(Reworded(raw), ctx) = NormalPlan(raw, ctx)
    BY <1>1, <1>2, WordingForgotten
  <2> QED
    BY <1>1, <2>1 DEF LocalIdsForgotten, raw, ctx
<1>4. NormalisedReviewable
  <2> SUFFICES ASSUME answer.accepted
               PROVE  LET plan == answer.plan
                          problems == Problems(plan, ctx.canon, ctx.events, TRUE)
                      IN /\ Reviewable(plan) /\ LocalIdsDiffer(plan.updates) /\ Len(plan.updates) = Len(raw.updates)
                         /\ \A problem \in problems : problem.code \notin Untold
                         /\ "CANONICAL_CONFLICT" \in {problem.code : problem \in problems} =>
                                \/ \E resource \in Planned(plan.updates) : ~resource.canonical
                                \/ "ENTITY_IDENTITY_CONFLICT" \in {problem.code : problem \in problems}
                                \/ ~StatesAgree(plan.updates, ctx.canon)
    BY DEF NormalisedReviewable, raw, ctx, Untold
  <2>1. Accepts(raw, ctx) /\ answer.plan = NormalPlan(raw, ctx)
    BY <1>1
  <2> QED
    BY <1>1, <1>2, <2>1, NormalisedIsReviewable
<1>5. TakenForOne
  <2> SUFFICES ASSUME LocalIdsDiffer(raw.updates), ~Distinct(raw.updates, ctx)
               PROVE  \E i, j \in DOMAIN raw.updates : i # j /\ TakenAlike(raw.updates[i].resource, raw.updates[j].resource)
    BY DEF TakenForOne, TakenAlike, raw, ctx
  <2> DEFINE updates == raw.updates
  <2>1. \A i \in DOMAIN updates : DraftRow(updates[i].resource)
    BY <1>1 DEF DraftShaped
  <2>2. LocalIdsDiffer(updates) /\ ~Distinct(updates, ctx)
    OBVIOUS
  <2> HIDE DEF updates
  <2>3. \E i, j \in DOMAIN updates : i # j /\ TakenAlike(updates[i].resource, updates[j].resource)
    BY <2>1, <2>2, AmbiguousDraftsAlike
  <2> QED
    BY <2>3 DEF updates
<1> QED
  BY <1>3, <1>4, <1>5

Positive == Nat \ {0}

\* Products of numbers, as far as they are needed.
LEMMA Multiples ==
  ASSUME NEW b \in Nat, NEW i \in Nat, NEW j \in Nat
  PROVE  /\ b * i \in Nat /\ b * (i + 1) = b * i + b
         /\ i <= j => b * i <= b * j
<1>1. b * i \in Nat /\ b * (i + 1) = b * i + b
  OBVIOUS
<1>2. ASSUME i <= j
      PROVE  b * i <= b * j
  <2>1. j - i \in Nat /\ b * j = b * i + b * (j - i)
    BY <1>2
  <2>2. b * (j - i) \in Nat
    BY <2>1
  <2>3. b * i \in Nat /\ b * j \in Nat
    OBVIOUS
  <2> QED
    BY <2>1, <2>2, <2>3
<1> QED
  BY <1>1, <1>2

\* A number is a multiple of the divisor and a rest, in one way.
LEMMA Division ==
  ASSUME NEW x \in Nat, NEW b \in Positive
  PROVE  /\ x \div b \in Nat /\ x % b \in 0..(b - 1) /\ b * (x \div b) \in Nat
         /\ x = b * (x \div b) + (x % b)
<1>1. x \div b \in Nat /\ x % b \in 0..(b - 1) /\ x = b * (x \div b) + (x % b)
  BY DEF Positive
<1>2. b * (x \div b) \in Nat
  <2> DEFINE d == x \div b
  <2>1. d \in Nat
    BY <1>1
  <2> HIDE DEF d
  <2>2. b * d \in Nat
    BY <2>1, Multiples DEF Positive
  <2> QED
    BY <2>2 DEF d
<1> QED
  BY <1>1, <1>2

LEMMA DivisionOnce ==
  ASSUME NEW x \in Nat, NEW b \in Positive, NEW q \in Nat, NEW r \in 0..(b - 1), x = b * q + r
  PROVE  q = x \div b /\ r = x % b
<1> DEFINE d == x \div b
           m == x % b
<1>1. d \in Nat /\ m \in 0..(b - 1) /\ x = b * d + m
  BY Division
<1> HIDE DEF d, m
<1>2. b \in Nat /\ b * d \in Nat /\ b * q \in Nat
  BY <1>1, Multiples DEF Positive
<1>3. CASE q < d
  <2>1. b * (q + 1) = b * q + b /\ b * (q + 1) <= b * d
    BY <1>1, <1>2, <1>3, Multiples
  <2> QED
    BY <1>1, <1>2, <2>1
<1>4. CASE d < q
  <2>1. b * (d + 1) = b * d + b /\ b * (d + 1) <= b * q
    BY <1>1, <1>2, <1>4, Multiples
  <2> QED
    BY <1>1, <1>2, <2>1
<1>5. CASE d = q
  BY <1>1, <1>2, <1>5 DEF d, m
<1> QED
  BY <1>1, <1>3, <1>4, <1>5

\* Every question and every answer is of its topic alone.
LEMMA Topics ==
  /\ Init => /\ ~answered
             /\ topic = "review" => AskReview
             /\ topic = "order" => AskOrder
             /\ topic = "draft" => AskDraft
             /\ topic = "plan" => AskPlan
             /\ topic = "pairs" => AskPairs
             /\ topic = "pair" => AskPair
             /\ topic = "gate3" => AskGate3
  /\ Next => /\ topic' = topic /\ question' = question
             /\ topic = "review" => AnswerReview
             /\ topic = "order" => AnswerOrder
             /\ topic = "draft" => AnswerDraft
             /\ topic = "plan" => AnswerPlan
             /\ topic = "pairs" => AnswerPairs
             /\ topic = "pair" => AnswerPair
             /\ topic = "gate3" => AnswerGate3
<1> DEFINE others == {"windows", "evidence", "slice", "event", "claim", "knowledge", "change", "changes", "signal",
                      "call", "negotiation", "event advice", "signal advice", "text", "audit", "import"}
<1>1. /\ AskReview => topic = "review"
      /\ AskPairs => topic = "pairs"
      /\ AskPair => topic = "pair"
      /\ AskGate3 => topic = "gate3"
  BY DEF AskReview, AskPairs, AskPair, AskGate3, Ask
<1>2. /\ AskOrder => topic = "order"
      /\ AskDraft => topic = "draft"
      /\ AskPlan => topic = "plan"
  BY DEF AskOrder, AskDraft, AskPlan, Ask
<1>3. AskWindows \/ AskEvidence \/ AskSlice \/ AskEvent \/ AskClaim \/ AskState => topic \in others
  BY DEF AskWindows, AskEvidence, AskSlice, AskEvent, AskClaim, AskState, Ask
<1>4. AskChange \/ AskChanges \/ AskSignal \/ AskCall \/ AskNegotiation => topic \in others
  BY DEF AskChange, AskChanges, AskSignal, AskCall, AskNegotiation, Ask
<1>5. AskAdvice \/ AskText \/ AskAudit \/ AskImport => topic \in others
  BY DEF AskAdvice, AskText, AskAudit, AskImport, Ask
<1>6. /\ AnswerReview => topic = "review"
      /\ AnswerPairs => topic = "pairs"
      /\ AnswerPair => topic = "pair"
      /\ AnswerGate3 => topic = "gate3"
  BY DEF AnswerReview, AnswerPairs, AnswerPair, AnswerGate3
<1>7. /\ AnswerOrder => topic = "order"
      /\ AnswerDraft => topic = "draft"
      /\ AnswerPlan => topic = "plan"
  BY DEF AnswerOrder, AnswerDraft, AnswerPlan
<1>8. AnswerWindows \/ AnswerEvidence \/ AnswerSlice \/ AnswerEvent \/ AnswerClaim \/ AnswerState => topic \in others
  BY DEF AnswerWindows, AnswerEvidence, AnswerSlice, AnswerEvent, AnswerClaim, AnswerState
<1>9. AnswerChange \/ AnswerChanges \/ AnswerSignal \/ AnswerCall \/ AnswerNegotiation => topic \in others
  BY DEF AnswerChange, AnswerChanges, AnswerSignal, AnswerCall, AnswerNegotiation
<1>10. AnswerAdvice \/ AnswerText \/ AnswerAudit \/ AnswerImport => topic \in others
  BY DEF AnswerAdvice, AnswerText, AnswerAudit, AnswerImport
<1> QED
  BY <1>1, <1>2, <1>3, <1>4, <1>5, <1>6, <1>7, <1>8, <1>9, <1>10 DEF Init, Next

(***************************************************************************)
(* Aggregation, Gate 2 and what the Timeline gets of them.                 *)
(***************************************************************************)

\* Proposals as the agents of the windows make them; every id of a link
\* of an event or a claim is local, and, except for a mention that came
\* with an id, of the kind it is looked up under.
ProposalKinds == {"entity", "event", "claim", "knowledge", "change"}

IsLink(link) == ~link.preset => link = Link(link.path, link.among, link.kind, link.id, link.text)

IsProposal(p) ==
    /\ p = Proposal(p.kind, p.id, p.text, p.speaker, p.layer, p.evidence, p.links)
    /\ p.kind \in ProposalKinds /\ p.id[1] \in Nat /\ p.id = <<p.id[1]>>
    /\ \A link \in p.links : IsLink(link)
    /\ p.kind = "entity" => p.links = {}
    /\ p.kind \in {"event", "claim"} => \A link \in p.links : link.id = NoId \/ link.id = <<link.id[1]>>
    /\ \A link \in p.links : link.preset => link.id # NoId
    /\ p.kind = "event" => \A link \in p.links :
          link.among = {"entity"} /\ (link.id # NoId /\ ~link.preset => link.kind = "entity")
    /\ p.kind = "claim" => \A link \in p.links : link.id # NoId /\ ~link.preset =>
          IF link.path # "source" THEN link.kind = "event"
          ELSE p.speaker = "CHARACTER" => link.kind = "entity"
    /\ p.kind # "event" => \A link \in p.links : link.path # "participant"

\* What the windows of a run found.
Batch(S) ==
    /\ IsFiniteSet(S)
    /\ \A s \in S : s = Source(s.window, s.proposal) /\ s.window \in Nat /\ IsProposal(s.proposal)
    /\ \A s, t \in S : IdOf(s) = IdOf(t) => s = t

LEMMA Tuples ==
  ASSUME NEW a, NEW b, NEW c, NEW n
  PROVE  <<a, b, c>> # NoId /\ <<n>> # NoId /\ <<n>> # <<a, b, c>>
BY DEF NoId

LEMMA LinkWith ==
  ASSUME NEW link, IsLink(link), ~link.preset, NEW i
  PROVE  /\ [link EXCEPT !.id = i] = Link(link.path, link.among, link.kind, i, link.text)
         /\ [link EXCEPT !.id = NoId, !.kind = NoKind, !.text = i]
               = Link(link.path, link.among, NoKind, NoId, i)
<1> DEFINE a == link.path
           b == link.among
           c == link.kind
           d == link.id
           e == link.text
           no == FALSE
           With(f, g, h) == [path |-> a, among |-> b, kind |-> f, id |-> g, text |-> h, preset |-> no]
<1>1. \A f, g, h : Link(a, b, f, g, h) = With(f, g, h)
  BY DEF Link
<1>2. link = With(c, d, e)
  BY <1>1 DEF IsLink
<1> HIDE DEF a, b, c, d, e, no
<1>3. [link EXCEPT !.id = i] = With(c, i, e)
  BY <1>2
<1> DEFINE one == [link EXCEPT !.id = NoId]
           two == [one EXCEPT !.kind = NoKind]
           three == [two EXCEPT !.text = i]
<1>4. one = With(c, NoId, e)
  BY <1>2
<1> HIDE DEF one
<1>5. two = With(NoKind, NoId, e)
  BY <1>4
<1> HIDE DEF two
<1>6. three = With(NoKind, NoId, i)
  BY <1>5
<1>7. [link EXCEPT !.id = NoId, !.kind = NoKind, !.text = i]
        = three
  BY DEF one, two
<1> HIDE DEF With, three
<1> QED
  BY <1>1, <1>3, <1>6, <1>7 DEF a, b, c, d, e

\* What two proposals share when they are merged.
LEMMA KeyOf ==
  ASSUME NEW s, NEW t, s.proposal.kind \in ProposalKinds, t.proposal.kind \in ProposalKinds
  PROVE  /\ SameKey(s, t) =>
              /\ s.proposal.kind = t.proposal.kind
              /\ s.proposal.kind = "entity" => s.proposal.text = t.proposal.text
         /\ (/\ s.proposal.kind = t.proposal.kind /\ s.proposal.kind \in {"event", "claim"}
             /\ s.proposal.text = t.proposal.text /\ s.proposal.evidence = t.proposal.evidence
             /\ s.proposal.kind = "claim" => s.proposal.speaker = t.proposal.speaker) => SameKey(s, t)
<1> DEFINE p == s.proposal
           q == t.proposal
<1>1. MergeKey(p)[1] = p.kind /\ MergeKey(q)[1] = q.kind
  BY DEF MergeKey, ProposalKinds
<1>2. p.kind = "entity" => MergeKey(p) = <<"entity", p.text>>
  BY DEF MergeKey
<1>3. q.kind = "entity" => MergeKey(q) = <<"entity", q.text>>
  BY DEF MergeKey
<1>4. p.kind = "event" /\ q.kind = "event" /\ p.text = q.text /\ p.evidence = q.evidence =>
        MergeKey(p) = MergeKey(q)
  BY DEF MergeKey
<1>5. p.kind = "claim" /\ q.kind = "claim" /\ p.text = q.text /\ p.evidence = q.evidence
        /\ p.speaker = q.speaker => MergeKey(p) = MergeKey(q)
  BY DEF MergeKey
<1> HIDE DEF p, q
<1>6. SameKey(s, t) <=> MergeKey(p) = MergeKey(q)
  BY DEF SameKey, p, q
<1>7. ASSUME MergeKey(p) = MergeKey(q)
      PROVE  p.kind = q.kind /\ (p.kind = "entity" => p.text = q.text)
  BY <1>1, <1>2, <1>3, <1>7
<1>8. p.kind = q.kind /\ p.kind \in {"event", "claim"} /\ p.text = q.text /\ p.evidence = q.evidence
        /\ (p.kind = "claim" => p.speaker = q.speaker) => MergeKey(p) = MergeKey(q)
  BY <1>4, <1>5
<1> QED
  BY <1>6, <1>7, <1>8 DEF p, q

\* Of the proposals that are merged one leads.
LEMMA LeaderIs ==
  ASSUME NEW S, Batch(S), NEW s \in S
  PROVE  /\ Leading(s, S) \in S /\ SameKey(Leading(s, S), s)
         /\ \A other \in S : SameKey(other, s) /\ other # Leading(s, S) => Before(Leading(s, S), other)
<1> DEFINE T == {t \in S : SameKey(t, s)}
           W == {t.window : t \in T}
<1>0. \A t \in S : /\ t.window \in Nat /\ t.proposal.kind \in ProposalKinds /\ t.proposal.id[1] \in Nat
                   /\ t.proposal.id = <<t.proposal.id[1]>>
  BY DEF Batch, IsProposal
<1>1. s \in T
  BY DEF SameKey
<1>2. W \in SUBSET Nat /\ W # {}
  BY <1>0, <1>1
<1>3. PICK w \in W : \A v \in W : w <= v
  <2> HIDE DEF W
  <2> QED
    BY <1>2, LeastOf
<1> DEFINE U == {t \in T : t.window = w}
           N == {t.proposal.id[1] : t \in U}
<1>4. N \in SUBSET Nat /\ N # {}
  BY <1>0, <1>3
<1>5. PICK n \in N : \A m \in N : n <= m
  <2> HIDE DEF N
  <2> QED
    BY <1>4, LeastOf
<1>6. PICK first \in U : first.proposal.id[1] = n
  BY <1>5
<1>7. ASSUME NEW other \in S, SameKey(other, s), other # first
      PROVE  Before(first, other)
  <2>1. other \in T /\ w <= other.window /\ first.window = w /\ first \in S
    BY <1>3, <1>6, <1>7
  <2>2. CASE other.window = w
    <3>1. n <= other.proposal.id[1]
      BY <1>5, <2>1, <2>2
    <3>2. other.proposal.id[1] # n
      <4> SUFFICES ASSUME other.proposal.id[1] = n PROVE FALSE
        OBVIOUS
      <4>1. other.proposal.id = first.proposal.id
        BY <1>0, <1>6, <2>1
      <4>2. SameKey(first, other)
        BY <1>6, <1>7 DEF SameKey
      <4>3. other.proposal.kind = first.proposal.kind
        BY <1>0, <2>1, <4>2, KeyOf
      <4>4. IdOf(other) = IdOf(first)
        BY <2>1, <2>2, <4>1, <4>3 DEF IdOf
      <4> QED
        BY <1>7, <2>1, <4>4 DEF Batch
    <3> QED
      BY <1>0, <1>6, <2>1, <2>2, <3>1, <3>2 DEF Before
  <2>3. CASE other.window # w
    BY <1>0, <2>1, <2>3 DEF Before
  <2> QED
    BY <2>2, <2>3
<1>8. first \in S /\ SameKey(first, s)
  BY <1>6
<1> QED
  BY <1>7, <1>8 DEF Leading

LEMMA LeaderOnce ==
  ASSUME NEW S, Batch(S), NEW s \in S, NEW t \in S, SameKey(s, t)
  PROVE  Leading(s, S) = Leading(t, S)
<1> DEFINE a == Leading(s, S)
           b == Leading(t, S)
<1>1. /\ a \in S /\ SameKey(a, s) /\ \A o \in S : SameKey(o, s) /\ o # a => Before(a, o)
      /\ b \in S /\ SameKey(b, t) /\ \A o \in S : SameKey(o, t) /\ o # b => Before(b, o)
  BY LeaderIs
<1> HIDE DEF a, b
<1>2. SameKey(b, s) /\ SameKey(a, t)
  BY <1>1 DEF SameKey
<1>3. a # b => Before(a, b) /\ Before(b, a)
  BY <1>1, <1>2
<1>4. a.window \in Nat /\ b.window \in Nat /\ a.proposal.id[1] \in Nat /\ b.proposal.id[1] \in Nat
  BY <1>1 DEF Batch, IsProposal
<1>5. a = b
  BY <1>3, <1>4 DEF Before
<1> QED
  BY <1>5 DEF a, b

LEMMA AliasIs ==
  ASSUME NEW S, Batch(S), NEW s \in S
  PROVE  Alias(IdOf(s), S) = IdOf(Leading(s, S))
<1> DEFINE named == {t \in S : IdOf(t) = IdOf(s)}
<1>1. named = {s}
  BY DEF Batch
<1>2. named # {} /\ (CHOOSE t \in named : TRUE) = s
  BY <1>1
<1> HIDE DEF named
<1>3. Alias(IdOf(s), S) = IF named = {} THEN IdOf(s) ELSE IdOf(Leading(CHOOSE t \in named : TRUE, S))
  BY DEF Alias, named
<1> QED
  BY <1>2, <1>3

LEMMA ProposalHas ==
  ASSUME NEW p, IsProposal(p)
  PROVE  p = Proposal(p.kind, p.id, p.text, p.speaker, p.layer, p.evidence, p.links)
BY DEF IsProposal

\* The aggregate of a leader is its proposal under a global id, with other links.
LEMMA AggregateIs ==
  ASSUME NEW S, Batch(S), NEW s \in S
  PROVE  LET a == Aggregate(s, S)
             p == s.proposal
             links == {Aliased(Mentioned(p, Namespaced(s, link, S), S), S) : link \in p.links}
         IN /\ a.proposal = Proposal(p.kind, IdOf(s), p.text, p.speaker, p.layer, p.evidence, links)
            /\ a.runs = {Run(t) : t \in {u \in S : SameKey(u, s)}}
            /\ a.evidence = {t.proposal.evidence : t \in {u \in S : SameKey(u, s)}}
<1> DEFINE a == Aggregate(s, S)
           p == s.proposal
           normal == {Mentioned(p, Namespaced(s, link, S), S) : link \in p.links}
           links == {Aliased(Mentioned(p, Namespaced(s, link, S), S), S) : link \in p.links}
           n == Normal(s, S)
<1>1. p = Proposal(p.kind, p.id, p.text, p.speaker, p.layer, p.evidence, p.links)
  BY ProposalHas DEF Batch
<1>2. a.proposal = [n EXCEPT !.links = {Aliased(link, S) : link \in n.links}]
      /\ a.runs = {Run(t) : t \in {u \in S : SameKey(u, s)}}
      /\ a.evidence = {t.proposal.evidence : t \in {u \in S : SameKey(u, s)}}
  BY DEF Aggregate
<1>3. n = [p EXCEPT !.id = IdOf(s), !.links = normal]
  BY DEF Normal
<1>4. links = {Aliased(link, S) : link \in normal}
  OBVIOUS
<1> DEFINE pk == p.kind
           pt == p.text
           ps == p.speaker
           py == p.layer
           pe == p.evidence
           pi == p.id
           pl == p.links
           i == IdOf(s)
<1>5. p = Proposal(pk, pi, pt, ps, py, pe, pl)
  BY <1>1
<1> HIDE DEF n, normal, links, a, i
<1>6. n = [p EXCEPT !.id = i, !.links = normal]
  BY <1>3 DEF i
<1> DEFINE one == [p EXCEPT !.id = i]
           two == [one EXCEPT !.links = normal]
<1>7. n = two
  BY <1>6
<1> HIDE DEF p, pk, pi, pt, ps, py, pe, pl
<1>8. one = Proposal(pk, i, pt, ps, py, pe, pl)
  BY <1>5 DEF Proposal
<1> HIDE DEF one
<1>9. two = Proposal(pk, i, pt, ps, py, pe, normal)
  BY <1>8 DEF Proposal
<1> HIDE DEF two
<1>10. n.links = normal
  BY <1>7, <1>9 DEF Proposal
<1>11. a.proposal = [n EXCEPT !.links = links]
  BY <1>2, <1>4, <1>10
<1>12. [n EXCEPT !.links = links] = Proposal(pk, i, pt, ps, py, pe, links)
  BY <1>7, <1>9 DEF Proposal
<1> QED
  BY <1>2, <1>11, <1>12 DEF a, links, p, i, pk, pt, ps, py, pe

LEMMA IdsAre ==
  ASSUME NEW S, NEW kinds, NEW i
  PROVE  i \in IdsOf(S, kinds) <=> \E s \in S : s.proposal.kind \in kinds /\ i = IdOf(s)
BY DEF IdsOf

\* A local id is none of the global ones.
LEMMA LocalIds ==
  ASSUME NEW S, NEW kinds, NEW i, i = <<i[1]>>
  PROVE  i \notin IdsOf(S, kinds) /\ i # NoId
<1>1. ASSUME NEW s \in S PROVE i # IdOf(s)
  BY Tuples DEF IdOf, GlobalId
<1>2. i # NoId
  BY Tuples
<1> QED
  BY <1>1, <1>2, IdsAre

\* A mention that came with an id stays what it is.
LEMMA PresetStays ==
  ASSUME NEW S, NEW s, NEW link, link.preset
  PROVE  Aliased(Mentioned(s.proposal, Namespaced(s, link, S), S), S) = link
<1>1. Namespaced(s, link, S) = link
  BY DEF Namespaced
<1>2. Mentioned(s.proposal, link, S) = link
  BY DEF Mentioned
<1>3. Aliased(link, S) = link
  BY DEF Aliased
<1> QED
  BY <1>1, <1>2, <1>3

\* What becomes of any other link of an event or a claim.
LEMMA LinkBecomes ==
  ASSUME NEW S, Batch(S), NEW s \in S, NEW link \in s.proposal.links, ~link.preset,
         NEW k, k = Aliased(Mentioned(s.proposal, Namespaced(s, link, S), S), S)
  PROVE  /\ IsLink(k) /\ ~k.preset /\ k.path = link.path /\ k.among = link.among
         /\ s.proposal.kind \in {"event", "claim"} =>
               \/ k.id = NoId
               \/ /\ k.kind = link.kind /\ k.kind \in k.among /\ link.id # NoId
                  /\ k.kind \in {"entity", "event"}
                  /\ \E t \in S : /\ t.window = s.window /\ t.proposal.kind = k.kind
                                  /\ t.proposal.id = link.id /\ k.id = IdOf(Leading(t, S))
         /\ \A named \in S :
               s.proposal.kind = "event" /\ named.window = s.window /\ named.proposal.kind = "entity"
                 /\ link.id = named.proposal.id => k.id = IdOf(Leading(named, S))
<1> DEFINE p == s.proposal
           kind == LookupKind(p, link)
           id == GlobalId(s.window, kind, link.id)
           space == Namespaced(s, link, S)
           men == Mentioned(p, space, S)
<1>1. IsLink(link) /\ IsProposal(p)
  BY DEF Batch, IsProposal
<1>2. space = IF link.id # NoId /\ id \in IdsOf(S, {kind}) THEN [link EXCEPT !.id = id] ELSE link
  BY DEF Namespaced
<1>3. [link EXCEPT !.id = id] = Link(link.path, link.among, link.kind, id, link.text)
  BY <1>1, LinkWith
<1> HIDE DEF id, kind, space
<1>4. /\ IsLink(space) /\ ~space.preset /\ space.path = link.path /\ space.among = link.among /\ space.kind = link.kind
      /\ space.id = IF link.id # NoId /\ id \in IdsOf(S, {kind}) THEN id ELSE link.id
  <2>1. CASE link.id # NoId /\ id \in IdsOf(S, {kind})
    BY <1>2, <1>3, <2>1 DEF Link, IsLink
  <2>2. CASE ~(link.id # NoId /\ id \in IdsOf(S, {kind}))
    <3>1. space = link
      BY <1>2, <2>2
    <3> QED
      BY <1>1, <2>2, <3>1
  <2> QED
    BY <2>1, <2>2
<1>5. men = IF p.kind \in {"event", "claim"} /\ space.id # NoId /\ space.id \notin IdsOf(S, space.among)
            THEN [space EXCEPT !.id = NoId, !.kind = NoKind, !.text = space.id] ELSE space
  BY <1>4 DEF Mentioned
<1>6. [space EXCEPT !.id = NoId, !.kind = NoKind, !.text = space.id]
        = Link(space.path, space.among, NoKind, NoId, space.id)
  <2> DEFINE i == space.id
  <2> HIDE DEF i
  <2>1. [space EXCEPT !.id = NoId, !.kind = NoKind, !.text = i]
          = Link(space.path, space.among, NoKind, NoId, i)
    BY <1>4, LinkWith
  <2> QED
    BY <2>1 DEF i
<1> HIDE DEF men
<1>7. /\ IsLink(men) /\ ~men.preset /\ men.path = link.path /\ men.among = link.among
      /\ \/ men.id = NoId
         \/ men = space
      /\ (p.kind \in {"event", "claim"} /\ men.id # NoId) => men.id \in IdsOf(S, link.among)
      /\ space.id \in IdsOf(S, link.among) => men = space
  <2>1. CASE p.kind \in {"event", "claim"} /\ space.id # NoId /\ space.id \notin IdsOf(S, space.among)
    BY <1>4, <1>5, <1>6, <2>1 DEF Link, IsLink
  <2>2. CASE ~(p.kind \in {"event", "claim"} /\ space.id # NoId /\ space.id \notin IdsOf(S, space.among))
    <3>1. men = space
      BY <1>5, <2>2
    <3> QED
      BY <1>4, <2>2, <3>1
  <2> QED
    BY <2>1, <2>2
<1>8. k = IF men.id = NoId THEN men ELSE [men EXCEPT !.id = Alias(men.id, S)]
  BY <1>7 DEF Aliased, men, space
<1>9. [men EXCEPT !.id = Alias(men.id, S)] = Link(men.path, men.among, men.kind, Alias(men.id, S), men.text)
  BY <1>7, LinkWith
<1>10. /\ IsLink(k) /\ ~k.preset /\ k.path = link.path /\ k.among = link.among /\ k.kind = men.kind
       /\ k.id = IF men.id = NoId THEN NoId ELSE Alias(men.id, S)
  <2>1. CASE men.id = NoId
    BY <1>7, <1>8, <2>1
  <2>2. CASE men.id # NoId
    <3>1. k = Link(men.path, men.among, men.kind, Alias(men.id, S), men.text)
      BY <1>8, <1>9, <2>2
    <3>2. /\ k.path = men.path /\ k.among = men.among /\ ~k.preset /\ k.kind = men.kind /\ k.text = men.text
          /\ k.id = Alias(men.id, S)
      BY <3>1 DEF Link
    <3> QED
      BY <1>7, <2>2, <3>1, <3>2 DEF IsLink
  <2> QED
    BY <2>1, <2>2
<1>11. ASSUME p.kind \in {"event", "claim"}, k.id # NoId
       PROVE  /\ k.kind = link.kind /\ k.kind \in k.among /\ link.id # NoId
              /\ k.kind \in {"entity", "event"}
              /\ \E t \in S : /\ t.window = s.window /\ t.proposal.kind = k.kind
                              /\ t.proposal.id = link.id /\ k.id = IdOf(Leading(t, S))
  <2>1. men.id # NoId /\ men = space /\ men.id \in IdsOf(S, link.among)
    BY <1>7, <1>10, <1>11
  <2>2. link.id = NoId \/ link.id = <<link.id[1]>>
    BY <1>1, <1>11 DEF IsProposal
  <2>3. link.id # NoId
    BY <1>4, <2>1
  <2>4. space.id = id /\ id \in IdsOf(S, {kind})
    <3>1. link.id \notin IdsOf(S, link.among)
      BY <2>2, <2>3, LocalIds
    <3> QED
      BY <1>4, <2>1, <3>1
  <2>5. PICK t \in S : t.proposal.kind \in link.among /\ id = IdOf(t)
    BY <2>1, <2>4, IdsAre
  <2>6. t.window = s.window /\ t.proposal.kind = kind /\ t.proposal.id = link.id
    BY <2>5 DEF IdOf, GlobalId, id
  <2>7. kind = link.kind /\ kind \in {"entity", "event"}
    <3>1. CASE p.kind = "event"
      <4>1. link.kind = "entity"
        BY <1>1, <2>3, <3>1 DEF IsProposal
      <4> QED
        BY <3>1, <4>1 DEF LookupKind, kind
    <3>2. CASE p.kind = "claim"
      <4>1. IF link.path # "source" THEN link.kind = "event"
            ELSE p.speaker = "CHARACTER" => link.kind = "entity"
        BY <1>1, <2>3, <3>2 DEF IsProposal
      <4>2. CASE link.path # "source"
        BY <3>2, <4>1, <4>2 DEF LookupKind, kind
      <4>3. CASE link.path = "source" /\ p.speaker = "CHARACTER"
        BY <3>2, <4>1, <4>3 DEF LookupKind, kind
      <4>4. CASE link.path = "source" /\ p.speaker # "CHARACTER"
        <5>1. kind = "none"
          BY <3>2, <4>4 DEF LookupKind, kind, NoKind
        <5>2. t.proposal.kind \in ProposalKinds
          BY DEF Batch, IsProposal
        <5> QED
          BY <2>6, <5>1, <5>2 DEF ProposalKinds
      <4> QED
        BY <4>2, <4>3, <4>4
    <3> QED
      BY <1>11, <3>1, <3>2
  <2>8. k.id = IdOf(Leading(t, S)) /\ k.kind = link.kind
    <3>1. Alias(IdOf(t), S) = IdOf(Leading(t, S))
      BY AliasIs
    <3> QED
      BY <1>4, <1>10, <2>1, <2>4, <2>5, <3>1
  <2> QED
    BY <1>10, <2>3, <2>5, <2>6, <2>7, <2>8
<1>12. ASSUME NEW named \in S, p.kind = "event", named.window = s.window,
              named.proposal.kind = "entity", link.id = named.proposal.id
       PROVE  k.id = IdOf(Leading(named, S))
  <2>1. link.among = {"entity"} /\ kind = "entity"
    BY <1>1, <1>12 DEF IsProposal, LookupKind, kind
  <2>2. link.id # NoId
    <3>1. link.id = <<link.id[1]>>
      BY <1>12 DEF Batch, IsProposal
    <3> QED
      BY <3>1, Tuples
  <2>3. id = IdOf(named)
    BY <1>12, <2>1 DEF id, IdOf, GlobalId
  <2>4. id \in IdsOf(S, {"entity"})
    BY <1>12, <2>3, IdsAre
  <2>5. space.id = id /\ men = space
    BY <1>4, <1>7, <2>1, <2>2, <2>4
  <2>6. men.id # NoId
    BY <2>3, <2>5, Tuples DEF IdOf, GlobalId
  <2>7. Alias(IdOf(named), S) = IdOf(Leading(named, S))
    BY AliasIs
  <2> QED
    BY <1>10, <2>3, <2>5, <2>6, <2>7
<1> QED
  BY <1>10, <1>11, <1>12

\* Envelopes and the proposals that lead them.
LEMMA EnvelopesAre ==
  ASSUME NEW S, Batch(S)
  PROVE  /\ \A e : e \in Aggregated(S) <=> \E s \in S : Leading(s, S) = s /\ e = Aggregate(s, S)
         /\ \A s \in S : /\ Leading(s, S) \in S /\ SameKey(Leading(s, S), s)
                         /\ Leading(Leading(s, S), S) = Leading(s, S)
                         /\ Aggregate(Leading(s, S), S) \in Aggregated(S)
                         /\ Leading(s, S).proposal.kind = s.proposal.kind
                         /\ s.proposal.kind = "entity" =>
                               Leading(s, S).proposal.text = s.proposal.text
         /\ IsFiniteSet(Aggregated(S))
<1>1. \A e : e \in Aggregated(S) <=> \E s \in S : Leading(s, S) = s /\ e = Aggregate(s, S)
  BY DEF Aggregated
<1>2. ASSUME NEW s \in S
      PROVE  /\ Leading(s, S) \in S /\ SameKey(Leading(s, S), s)
             /\ Leading(Leading(s, S), S) = Leading(s, S)
             /\ Aggregate(Leading(s, S), S) \in Aggregated(S)
             /\ Leading(s, S).proposal.kind = s.proposal.kind
             /\ s.proposal.kind = "entity" => Leading(s, S).proposal.text = s.proposal.text
  <2> DEFINE l == Leading(s, S)
  <2>1. l \in S /\ SameKey(l, s)
    BY LeaderIs
  <2> HIDE DEF l
  <2>2. Leading(l, S) = l
    BY <2>1, LeaderOnce DEF l
  <2>3. l.proposal.kind \in ProposalKinds /\ s.proposal.kind \in ProposalKinds
    BY <2>1 DEF Batch, IsProposal
  <2>4. l.proposal.kind = s.proposal.kind /\ (s.proposal.kind = "entity" => l.proposal.text = s.proposal.text)
    BY <2>1, <2>3, KeyOf
  <2> QED
    BY <1>1, <2>1, <2>2, <2>4 DEF l
<1>3. IsFiniteSet(Aggregated(S))
  <2> DEFINE D == {s \in S : Leading(s, S) = s}
             f == [s \in D |-> Aggregate(s, S)]
  <2>1. IsFiniteSet(D)
    BY FS_Subset DEF Batch
  <2>2. f \in Surjection(D, Aggregated(S))
    <3>1. f \in [D -> Aggregated(S)]
      BY <1>1
    <3>2. ASSUME NEW e \in Aggregated(S) PROVE \E s \in D : f[s] = e
      BY <1>1
    <3> QED
      BY <3>1, <3>2 DEF Surjection
  <2> HIDE DEF D, f
  <2> QED
    BY <2>1, <2>2, FS_Surjection
<1> QED
  BY <1>1, <1>2, <1>3

LEMMA EnvelopeHas ==
  ASSUME NEW S, Batch(S), NEW s \in S
  PROVE  LET a == Aggregate(s, S)
             p == s.proposal
         IN /\ a.proposal.id = IdOf(s) /\ a.proposal.kind = p.kind /\ a.proposal.text = p.text
            /\ a.proposal.speaker = p.speaker /\ a.proposal.layer = p.layer
            /\ a.proposal.evidence = p.evidence
            /\ \A k : k \in a.proposal.links <=>
                  \E link \in p.links : k = Aliased(Mentioned(p, Namespaced(s, link, S), S), S)
            /\ \A r : r \in a.runs <=> \E u \in S : SameKey(u, s) /\ r = Run(u)
            /\ a.runs # {} /\ a.evidence # {}
<1> DEFINE a == Aggregate(s, S)
           p == s.proposal
           links == {Aliased(Mentioned(p, Namespaced(s, link, S), S), S) : link \in p.links}
<1>1. a.proposal = Proposal(p.kind, IdOf(s), p.text, p.speaker, p.layer, p.evidence, links)
      /\ a.runs = {Run(t) : t \in {u \in S : SameKey(u, s)}}
      /\ a.evidence = {t.proposal.evidence : t \in {u \in S : SameKey(u, s)}}
  BY AggregateIs
<1>2. SameKey(s, s)
  BY DEF SameKey
<1> HIDE DEF a
<1>3. a.runs # {} /\ a.evidence # {} /\ \A r : r \in a.runs <=> \E u \in S : SameKey(u, s) /\ r = Run(u)
  BY <1>1, <1>2
<1>4. /\ a.proposal.id = IdOf(s) /\ a.proposal.kind = p.kind /\ a.proposal.text = p.text
      /\ a.proposal.speaker = p.speaker /\ a.proposal.layer = p.layer
      /\ a.proposal.evidence = p.evidence /\ a.proposal.links = links
  BY <1>1 DEF Proposal
<1>5. \A k : k \in a.proposal.links <=>
                  \E link \in p.links : k = Aliased(Mentioned(p, Namespaced(s, link, S), S), S)
  BY <1>4
<1> QED
  BY <1>3, <1>4, <1>5 DEF a

LEMMA EnvelopeOnce ==
  ASSUME NEW S, Batch(S), NEW e \in Aggregated(S), NEW f \in Aggregated(S), e.proposal.id = f.proposal.id
  PROVE  e = f
<1>1. PICK s \in S : e = Aggregate(s, S)
  BY EnvelopesAre
<1>2. PICK t \in S : f = Aggregate(t, S)
  BY EnvelopesAre
<1>3. e.proposal.id = IdOf(s) /\ f.proposal.id = IdOf(t)
  BY <1>1, <1>2, EnvelopeHas
<1>4. s = t
  BY <1>3 DEF Batch
<1> QED
  BY <1>1, <1>2, <1>4

\* Every proposal is in one aggregate, which counts its run.
LEMMA RunsAreKept ==
  ASSUME NEW S, Batch(S), NEW source \in S
  PROVE  Cardinality({envelope \in Aggregated(S) :
              /\ envelope.proposal.kind = source.proposal.kind
              /\ envelope.proposal.id = Alias(IdOf(source), S)
              /\ Run(source) \in envelope.runs}) = 1
<1> DEFINE l == Leading(source, S)
           e == Aggregate(l, S)
           M == {envelope \in Aggregated(S) :
                  /\ envelope.proposal.kind = source.proposal.kind
                  /\ envelope.proposal.id = Alias(IdOf(source), S)
                  /\ Run(source) \in envelope.runs}
<1>1. l \in S /\ SameKey(l, source) /\ e \in Aggregated(S) /\ l.proposal.kind = source.proposal.kind
  BY EnvelopesAre
<1>2. Alias(IdOf(source), S) = IdOf(l)
  BY AliasIs
<1>3. SameKey(source, l)
  BY <1>1 DEF SameKey
<1> HIDE DEF l
<1>4. e.proposal.id = IdOf(l) /\ e.proposal.kind = l.proposal.kind /\ Run(source) \in e.runs
  BY <1>1, <1>3, EnvelopeHas
<1> HIDE DEF e
<1>5. e \in M
  BY <1>1, <1>2, <1>4
<1>6. \A f \in M : f = e
  BY <1>1, <1>2, <1>4, EnvelopeOnce
<1>7. M = {e}
  BY <1>5, <1>6
<1>8. Cardinality({e}) = 1
  BY FS_Singleton
<1> QED
  BY <1>7, <1>8

\* A participant is, in the aggregate, the entity it named or its namesake.
LEMMA LinksAreFaithful ==
  ASSUME NEW S, Batch(S), NEW source \in S, NEW named \in S, NEW link \in source.proposal.links,
         named.window = source.window, named.proposal.kind = "entity", ~link.preset,
         link.path = "participant", link.id = named.proposal.id, Leading(source, S) = source
  PROVE  \E envelope, target \in Aggregated(S) :
            /\ envelope.proposal.id = IdOf(source)
            /\ target.proposal.kind = "entity"
            /\ target.proposal.text = named.proposal.text
            /\ \E kept \in envelope.proposal.links : kept.id = target.proposal.id
<1> DEFINE e == Aggregate(source, S)
           l == Leading(named, S)
           t == Aggregate(l, S)
           k == Aliased(Mentioned(source.proposal, Namespaced(source, link, S), S), S)
<1>1. e \in Aggregated(S) /\ t \in Aggregated(S) /\ l \in S
      /\ l.proposal.kind = "entity" /\ l.proposal.text = named.proposal.text
  BY EnvelopesAre
<1>2. source.proposal.kind = "event"
  BY DEF Batch, IsProposal
<1>3. k.id = IdOf(l)
  BY <1>2, LinkBecomes
<1>4. e.proposal.id = IdOf(source) /\ k \in e.proposal.links
  BY EnvelopeHas
<1> HIDE DEF l, k, e
<1>5. t.proposal.id = IdOf(l) /\ t.proposal.kind = "entity" /\ t.proposal.text = named.proposal.text
  BY <1>1, EnvelopeHas
<1> QED
  BY <1>1, <1>3, <1>4, <1>5

\* What the proposal of an envelope is.
LEMMA EnvelopeLinks ==
  ASSUME NEW S, Batch(S), NEW e \in Aggregated(S)
  PROVE  LET p == e.proposal IN
           /\ p.kind \in ProposalKinds
           /\ p.kind = "entity" => p.links = {}
           /\ p.kind = "event" => \A k \in p.links : k.among = {"entity"}
           /\ p.kind \in {"event", "claim"} => \A k \in p.links : k.id # NoId /\ ~k.preset =>
                 /\ k.kind \in k.among /\ k.kind \in {"entity", "event"}
                 /\ \E f \in Aggregated(S) : f.proposal.kind = k.kind /\ f.proposal.id = k.id
           /\ p.kind \in {"event", "claim"} => \A k \in p.links : k.preset =>
                 k.id # NoId /\ \A f \in Aggregated(S) : f.proposal.id # k.id
<1> DEFINE p == e.proposal
<1>1. PICK s \in S : e = Aggregate(s, S)
  BY EnvelopesAre
<1>2. /\ p.kind = s.proposal.kind
      /\ \A k : k \in p.links <=> \E link \in s.proposal.links :
                     k = Aliased(Mentioned(s.proposal, Namespaced(s, link, S), S), S)
  BY <1>1, EnvelopeHas
<1>3. IsProposal(s.proposal)
  BY DEF Batch
<1> HIDE DEF p
<1>4. p.kind \in ProposalKinds /\ (p.kind = "entity" => p.links = {})
  BY <1>2, <1>3 DEF IsProposal
<1>5. ASSUME p.kind = "event", NEW k \in p.links PROVE k.among = {"entity"}
  <2>1. PICK link \in s.proposal.links : k = Aliased(Mentioned(s.proposal, Namespaced(s, link, S), S), S)
    BY <1>2
  <2>2. k.among = link.among
    BY <2>1, LinkBecomes, PresetStays
  <2> QED
    BY <1>2, <1>3, <1>5, <2>2 DEF IsProposal
<1>6. ASSUME p.kind \in {"event", "claim"}, NEW k \in p.links, k.id # NoId, ~k.preset
      PROVE  /\ k.kind \in k.among /\ k.kind \in {"entity", "event"}
             /\ \E f \in Aggregated(S) : f.proposal.kind = k.kind /\ f.proposal.id = k.id
  <2>1. PICK link \in s.proposal.links : k = Aliased(Mentioned(s.proposal, Namespaced(s, link, S), S), S)
    BY <1>2
  <2>7. ~link.preset
    BY <1>6, <2>1, PresetStays
  <2>2. /\ k.kind = link.kind /\ k.kind \in k.among /\ link.id # NoId
        /\ k.kind \in {"entity", "event"}
        /\ \E t \in S : /\ t.window = s.window /\ t.proposal.kind = k.kind
                        /\ t.proposal.id = link.id /\ k.id = IdOf(Leading(t, S))
    BY <1>2, <1>6, <2>1, <2>7, LinkBecomes
  <2>3. PICK t \in S : t.proposal.kind = k.kind /\ k.id = IdOf(Leading(t, S))
    BY <2>2
  <2> DEFINE l == Leading(t, S)
             f == Aggregate(l, S)
  <2>4. l \in S /\ f \in Aggregated(S) /\ l.proposal.kind = t.proposal.kind
    BY EnvelopesAre
  <2> HIDE DEF l
  <2>5. f.proposal.id = IdOf(l) /\ f.proposal.kind = l.proposal.kind
    BY <2>4, EnvelopeHas
  <2>6. \E g \in Aggregated(S) : g.proposal.kind = k.kind /\ g.proposal.id = k.id
    <3>1. k.id = IdOf(l)
      BY <2>3 DEF l
    <3> HIDE DEF f
    <3> QED
      BY <2>3, <2>4, <2>5, <3>1
  <2> QED
    BY <2>2, <2>6
<1>7. ASSUME p.kind \in {"event", "claim"}, NEW k \in p.links, k.preset
      PROVE  k.id # NoId /\ \A f \in Aggregated(S) : f.proposal.id # k.id
  <2>1. PICK link \in s.proposal.links : k = Aliased(Mentioned(s.proposal, Namespaced(s, link, S), S), S)
    BY <1>2
  <2>2. k = link
    BY <1>7, <2>1, LinkBecomes, PresetStays
  <2>3. k.id # NoId /\ k.id = <<k.id[1]>>
    BY <1>2, <1>3, <1>7, <2>2 DEF IsProposal
  <2>4. ASSUME NEW f \in Aggregated(S) PROVE f.proposal.id # k.id
    <3>1. PICK t \in S : f = Aggregate(t, S)
      BY EnvelopesAre
    <3>2. f.proposal.id = IdOf(t)
      BY <3>1, EnvelopeHas
    <3> QED
      BY <2>3, <3>2, Tuples DEF IdOf, GlobalId
  <2> QED
    BY <2>3, <2>4
<1> QED
  BY <1>4, <1>5, <1>6, <1>7 DEF p

\* The codes of a link to nothing.
ToNothing == {"REFERENCE_TARGET_NOT_FOUND", "REFERENCE_SCHEMA_MISMATCH"}

\* What a reference keeps of its link, of the catalog and of its contract.
Sane(r, proposal, link, catalog) ==
    /\ ReferenceContract(r) /\ r.path = link.path /\ r.among = link.among
    /\ \A target \in r.selected :
          target \in catalog /\ target.kind \in link.among /\ RealityMatches(proposal, target)
    /\ \A issue \in r.issues : issue.severity \in {Blocking, ReviewRequired}

LEMMA RefusedIs ==
  ASSUME NEW proposal, NEW link, NEW catalog, NEW code
  PROVE  /\ Sane(Refused(link, code), proposal, link, catalog)
         /\ \A issue \in Refused(link, code).issues : issue.code = code
<1> DEFINE i == Issue(code, Blocking, link.path)
           r == Refused(link, code)
<1>1. i.severity = Blocking /\ i.code = code
  BY DEF Issue
<1>2. /\ r.path = link.path /\ r.among = link.among /\ r.status = "REJECTED"
      /\ r.selected = {} /\ r.candidates = {} /\ r.issues = {i}
  BY DEF Refused, Decision
<1> HIDE DEF r, i
<1>3. Severe(r.issues, Blocking)
  BY <1>1, <1>2 DEF Severe
<1>4. ReferenceContract(r)
  BY <1>2, <1>3 DEF ReferenceContract
<1> QED
  BY <1>1, <1>2, <1>4 DEF Sane, r

LEMMA ResolvedIs ==
  ASSUME NEW proposal, NEW link, NEW catalog, NEW target \in catalog, target.kind \in link.among
  PROVE  /\ Sane(Resolved(proposal, link, target), proposal, link, catalog)
         /\ \A issue \in Resolved(proposal, link, target).issues : issue.code \notin ToNothing
<1> DEFINE r == Resolved(proposal, link, target)
<1>1. CASE RealityMatches(proposal, target)
  <2>1. r = Decision(link, "RESOLVED", {target}, {target}, {})
    BY <1>1 DEF Resolved
  <2>2. /\ r.path = link.path /\ r.among = link.among /\ r.status = "RESOLVED"
        /\ r.selected = {target} /\ r.candidates = {target} /\ r.issues = {}
    BY <2>1 DEF Decision
  <2>3. Cardinality({target}) = 1
    BY FS_Singleton
  <2> HIDE DEF r
  <2>4. ReferenceContract(r)
    BY <2>2, <2>3 DEF ReferenceContract
  <2> QED
    BY <1>1, <2>2, <2>4 DEF Sane, r
<1>2. CASE ~RealityMatches(proposal, target)
  <2>1. r = Refused(link, "CROSS_REALITY_LAYER_REFERENCE")
    BY <1>2 DEF Resolved
  <2> HIDE DEF r
  <2> QED
    BY <2>1, RefusedIs DEF ToNothing, r
<1> QED
  BY <1>1, <1>2

\* A link that names an id.
LEMMA ExplicitIs ==
  ASSUME NEW proposal, NEW link, NEW catalog
  PROVE  /\ Sane(Explicit(proposal, link, catalog), proposal, link, catalog)
         /\ link.kind \in link.among /\ (\E t \in catalog : t.kind = link.kind /\ t.id = link.id) =>
               \A issue \in Explicit(proposal, link, catalog).issues : issue.code \notin ToNothing
<1> DEFINE named == {target \in catalog : target.kind = link.kind /\ target.id = link.id}
           r == Explicit(proposal, link, catalog)
           t == CHOOSE target \in named : TRUE
<1>1. CASE link.kind \notin link.among
  <2>1. r = Refused(link, "REFERENCE_SCHEMA_MISMATCH")
    BY <1>1 DEF Explicit
  <2> HIDE DEF r
  <2> QED
    BY <1>1, <2>1, RefusedIs DEF r
<1>2. CASE link.kind \in link.among /\ named = {}
  <2>1. r = Refused(link, "REFERENCE_TARGET_NOT_FOUND")
    BY <1>2 DEF Explicit
  <2> HIDE DEF r
  <2> QED
    BY <1>2, <2>1, RefusedIs DEF r
<1>3. CASE link.kind \in link.among /\ named # {}
  <2>1. r = Resolved(proposal, link, t)
    BY <1>3 DEF Explicit
  <2>2. t \in named
    BY <1>3
  <2> HIDE DEF t
  <2>3. t \in catalog /\ t.kind \in link.among
    BY <1>3, <2>2
  <2> HIDE DEF r, named
  <2> QED
    BY <2>1, <2>3, ResolvedIs DEF r
<1> QED
  BY <1>1, <1>2, <1>3

\* A mention.
LEMMA MentionIs ==
  ASSUME NEW proposal, NEW link, NEW catalog, IsFiniteSet(catalog)
  PROVE  /\ Sane(ByMention(proposal, link, catalog), proposal, link, catalog)
         /\ \A issue \in ByMention(proposal, link, catalog).issues : issue.code \notin ToNothing
<1> DEFINE alike == {target \in catalog : target.kind \in link.among /\ target.text = link.text}
           r == ByMention(proposal, link, catalog)
           t == CHOOSE target \in alike : TRUE
           n == Cardinality(alike)
<1>1. IsFiniteSet(alike)
  BY FS_Subset
<1>2. n \in Nat /\ (alike = {} <=> n = 0) /\ (n = 1 => alike # {})
  <2> HIDE DEF alike
  <2>1. n \in Nat
    BY <1>1, FS_CardinalityType
  <2>2. n = 0 <=> alike = {}
    BY <1>1, FS_EmptySet
  <2> QED
    BY <2>1, <2>2
<1>3. CASE n = 1
  <2>1. r = Resolved(proposal, link, t)
    BY <1>2, <1>3 DEF ByMention
  <2>2. t \in alike
    BY <1>2, <1>3
  <2> HIDE DEF t
  <2>3. t \in catalog /\ t.kind \in link.among
    BY <2>2
  <2> HIDE DEF r, alike
  <2> QED
    BY <2>1, <2>3, ResolvedIs DEF r
<1>4. CASE n # 1 /\ (alike = {} \/ (n > 1 /\ link.path = "location"))
  <2>1. r = Decision(link, "UNRESOLVED", {}, {}, {})
    BY <1>4 DEF ByMention
  <2>2. /\ r.path = link.path /\ r.among = link.among /\ r.status = "UNRESOLVED"
        /\ r.selected = {} /\ r.candidates = {} /\ r.issues = {}
    BY <2>1 DEF Decision
  <2> HIDE DEF r
  <2>3. ReferenceContract(r)
    BY <2>2 DEF ReferenceContract
  <2> QED
    BY <2>2, <2>3 DEF Sane, r
<1>5. CASE n # 1 /\ ~(alike = {} \/ (n > 1 /\ link.path = "location"))
  <2> DEFINE code == IF link.among = {"event"} THEN "AMBIGUOUS_EVENT_REFERENCE"
                     ELSE "AMBIGUOUS_ENTITY_REFERENCE"
             i == Issue(code, ReviewRequired, link.path)
  <2>1. r = Decision(link, "AMBIGUOUS", {}, alike, {i})
    BY <1>5 DEF ByMention
  <2>2. i.severity = ReviewRequired /\ i.code = code /\ code \notin ToNothing
    BY DEF Issue, ToNothing
  <2> HIDE DEF i, code, alike, r
  <2>3. /\ r.path = link.path /\ r.among = link.among /\ r.status = "AMBIGUOUS"
        /\ r.selected = {} /\ r.candidates = alike /\ r.issues = {i}
    BY <2>1 DEF Decision
  <2>4. n >= 2
    BY <1>2, <1>5
  <2>5. Severe(r.issues, ReviewRequired)
    BY <2>2, <2>3 DEF Severe
  <2>6. ReferenceContract(r)
    BY <2>3, <2>4, <2>5 DEF ReferenceContract
  <2> QED
    BY <2>2, <2>3, <2>6 DEF Sane, r
<1> QED
  BY <1>3, <1>4, <1>5

LEMMA ReferenceIs ==
  ASSUME NEW proposal, NEW link, NEW catalog, IsFiniteSet(catalog)
  PROVE  /\ Sane(ResolveReference(proposal, link, catalog), proposal, link, catalog)
         /\ (link.id # NoId => /\ link.kind \in link.among
                               /\ \E t \in catalog : t.kind = link.kind /\ t.id = link.id) =>
               \A issue \in ResolveReference(proposal, link, catalog).issues : issue.code \notin ToNothing
<1>1. CASE link.id # NoId
  BY <1>1, ExplicitIs DEF ResolveReference
<1>2. CASE link.id = NoId
  BY <1>2, MentionIs DEF ResolveReference
<1> QED
  BY <1>1, <1>2

\* An id that nothing in the catalog has is refused.
LEMMA LostIs ==
  ASSUME NEW proposal, NEW link, NEW catalog, link.id # NoId, \A t \in catalog : t.id # link.id
  PROVE  \E issue \in ResolveReference(proposal, link, catalog).issues : issue.code \in ToNothing
<1> DEFINE r == ResolveReference(proposal, link, catalog)
<1>1. {target \in catalog : target.kind = link.kind /\ target.id = link.id} = {}
  OBVIOUS
<1>2. PICK code \in ToNothing : r = Refused(link, code)
  BY <1>1 DEF ResolveReference, Explicit, ToNothing
<1> DEFINE i == Issue(code, Blocking, link.path)
<1>3. i.code = code
  BY DEF Issue
<1> HIDE DEF r, i
<1>4. r.issues = {i}
  BY <1>2 DEF Refused, Decision, i
<1> QED
  BY <1>3, <1>4 DEF r

\* Whatever is wrong with a proposal itself forbids it.
LEMMA OwnIssues ==
  ASSUME NEW e, NEW E, NEW known, NEW sound,
         NEW issue \in ProvenanceIssues(e, known) \cup EvidenceFindings(e, sound) \cup DuplicateIssues(e, E)
  PROVE  issue.severity = Blocking /\ issue.code \notin ToNothing
<1>1. PICK code \in {"PROVENANCE_MISSING", "AGENT_RUN_NOT_FOUND", "EVIDENCE_QUOTE_NOT_FOUND",
                    "EVIDENCE_MISSING", "EXACT_DUPLICATE"}, path \in {"", "agent_run_ids"} :
        issue = Issue(code, Blocking, path)
  BY DEF ProvenanceIssues, EvidenceFindings, DuplicateIssues
<1> DEFINE made == Issue(code, Blocking, path)
<1>2. made.code = code /\ made.severity = Blocking
  BY DEF Issue
<1> HIDE DEF made
<1>3. issue = made
  BY <1>1 DEF made
<1> QED
  BY <1>2, <1>3 DEF ToNothing

\* What Gate 2 decides of a proposal, its contract, and why it says so.
LEMMA Judged ==
  ASSUME NEW E, NEW e \in E, NEW known, NEW sound, IsFiniteSet(Catalog(E)),
         NEW d, d = ReviewProposal(e, E, known, sound)
  PROVE  /\ DecisionContract(d) /\ d.proposal = e.proposal
         /\ d.decision \in {"APPROVED", "NEEDS_HUMAN_REVIEW", "REJECTED"}
         /\ \A r : r \in d.references <=>
               \E link \in e.proposal.links : r = ResolveReference(e.proposal, link, Catalog(E))
         /\ \A issue \in d.issues :
               issue.code \in ToNothing => \E r \in d.references : issue \in r.issues
         /\ \A r \in d.references : r.issues \subseteq d.issues
<1> DEFINE C == Catalog(E)
           refs == References(e.proposal, C)
           linked == UNION {r.issues : r \in refs}
           dup == DuplicateIssues(e, E)
           prov == ProvenanceIssues(e, known)
           evid == EvidenceFindings(e, sound)
           all == prov \cup evid \cup linked \cup dup
<1>1. /\ d.proposal = e.proposal /\ d.decision = Verdict(all) /\ d.issues = all
      /\ d.schema = SchemaStatus(linked, dup) /\ d.provenance = Failing(prov)
      /\ d.evidence = Failing(evid) /\ d.references = refs
  BY DEF ReviewProposal
<1>2. \A r : r \in refs <=> \E link \in e.proposal.links : r = ResolveReference(e.proposal, link, C)
  BY DEF References
<1>3. \A issue \in prov : issue.severity = Blocking /\ issue.code \notin ToNothing
  BY OwnIssues
<1>4. \A issue \in evid : issue.severity = Blocking /\ issue.code \notin ToNothing
  BY OwnIssues
<1>5. \A issue \in dup : issue.severity = Blocking /\ issue.code \notin ToNothing
  BY OwnIssues
<1>6. /\ \A issue \in linked : \E r \in refs : issue \in r.issues
      /\ \A r \in refs : r.issues \subseteq linked
  OBVIOUS
<1> HIDE DEF C, refs, linked, dup, prov, evid
<1>7. ASSUME NEW r \in refs
      PROVE  /\ ReferenceContract(r)
             /\ \A issue \in r.issues : issue.severity \in {Blocking, ReviewRequired}
  <2>1. PICK link \in e.proposal.links : r = ResolveReference(e.proposal, link, C)
    BY <1>2
  <2>2. IsFiniteSet(C)
    BY DEF C
  <2>3. Sane(ResolveReference(e.proposal, link, C), e.proposal, link, C)
    BY <2>2, ReferenceIs
  <2> QED
    BY <2>1, <2>3 DEF Sane
<1>8. \A issue \in linked : issue.severity \in {Blocking, ReviewRequired}
  BY <1>6, <1>7
<1>9. Blocking # ReviewRequired
  BY DEF Blocking, ReviewRequired
<1>10. \A issue \in all : issue.severity \in {Blocking, ReviewRequired}
  BY <1>3, <1>4, <1>5, <1>8
<1>11. Verdict(all) \in {"APPROVED", "NEEDS_HUMAN_REVIEW", "REJECTED"}
  BY DEF Verdict
<1>12. ASSUME Verdict(all) = "APPROVED"
       PROVE  {d.schema, d.provenance, d.evidence} = {"PASSED"} /\ d.issues = {}
  <2>1. ~Severe(all, Blocking) /\ ~Severe(all, ReviewRequired)
    BY <1>12 DEF Verdict
  <2>2. all = {}
    BY <1>10, <2>1 DEF Severe
  <2>3. linked \cup dup = {} /\ prov = {} /\ evid = {}
    BY <2>2
  <2>4. d.schema = "PASSED" /\ d.provenance = "PASSED" /\ d.evidence = "PASSED"
    BY <1>1, <2>3 DEF SchemaStatus, Failing, Severe
  <2> QED
    BY <1>1, <2>2, <2>4
<1>13. ASSUME Verdict(all) = "REJECTED"
       PROVE  "FAILED" \in {d.schema, d.provenance, d.evidence}
  <2>1. Severe(all, Blocking)
    BY <1>12, <1>13 DEF Verdict
  <2>2. Severe(prov, Blocking) \/ Severe(evid, Blocking) \/ Severe(linked \cup dup, Blocking)
    BY <2>1 DEF Severe
  <2> QED
    BY <1>1, <2>2 DEF SchemaStatus, Failing
<1>14. ASSUME Verdict(all) = "NEEDS_HUMAN_REVIEW"
       PROVE  d.schema = "NEEDS_HUMAN_REVIEW" /\ ~Severe(d.issues, Blocking)
  <2>1. ~Severe(all, Blocking) /\ Severe(all, ReviewRequired)
    BY <1>14 DEF Verdict
  <2>2. Severe(linked \cup dup, ReviewRequired) /\ ~Severe(linked \cup dup, Blocking)
    BY <1>3, <1>4, <1>9, <2>1 DEF Severe
  <2> QED
    BY <1>1, <2>1, <2>2 DEF SchemaStatus
<1>15. DecisionContract(d)
  BY <1>1, <1>7, <1>12, <1>13, <1>14 DEF DecisionContract
<1>16. \A issue \in all : issue.code \in ToNothing => issue \in linked
  BY <1>3, <1>4, <1>5
<1> QED
  BY <1>1, <1>2, <1>6, <1>11, <1>15, <1>16 DEF C

\* The decisions of a review, and what a run that goes on has passed.
LEMMA ReviewIs ==
  ASSUME NEW E, NEW known, NEW sound, IsFiniteSet(Catalog(E)), NEW R, R = Review(E, known, sound)
  PROVE  /\ \A d : d \in R.decisions <=> \E e \in E : d = ReviewProposal(e, E, known, sound)
         /\ Route(R) = "APPROVED" =>
               /\ R.bundle = {e.proposal : e \in E}
               /\ \A d \in R.decisions : d.decision = "APPROVED"
<1> DEFINE D == {ReviewProposal(e, E, known, sound) : e \in E}
           pending == Decided(D, "NEEDS_HUMAN_REVIEW") # {}
<1>1. /\ R.decisions = D
      /\ R.status = IF pending THEN "NEEDS_HUMAN_REVIEW" ELSE "COMPLETED"
      /\ R.bundle = IF pending THEN {} ELSE {d.proposal : d \in Decided(D, "APPROVED")}
  BY DEF Review
<1>2. \A d : d \in D <=> \E e \in E : d = ReviewProposal(e, E, known, sound)
  OBVIOUS
<1> HIDE DEF D
<1>3. ASSUME NEW e \in E, NEW d, d = ReviewProposal(e, E, known, sound)
      PROVE  d.proposal = e.proposal /\ d.decision \in {"APPROVED", "NEEDS_HUMAN_REVIEW", "REJECTED"}
  BY <1>3, Judged
<1>4. ASSUME Route(R) = "APPROVED"
      PROVE  R.bundle = {e.proposal : e \in E} /\ \A d \in D : d.decision = "APPROVED"
  <2>1. ~pending
    BY <1>1, <1>4 DEF Route
  <2>2. Decided(D, "REJECTED") = {}
    BY <1>1, <1>4, <2>1 DEF Route
  <2>3. \A d \in D : d.decision # "NEEDS_HUMAN_REVIEW" /\ d.decision # "REJECTED"
    BY <2>1, <2>2 DEF Decided
  <2>4. \A d \in D : d.decision = "APPROVED"
    BY <1>2, <1>3, <2>3
  <2>5. Decided(D, "APPROVED") = D
    BY <2>4 DEF Decided
  <2>6. R.bundle = {d.proposal : d \in D}
    BY <1>1, <2>1, <2>5
  <2>7. {d.proposal : d \in D} = {e.proposal : e \in E}
    <3>1. ASSUME NEW p PROVE (\E d \in D : p = d.proposal) <=> \E e \in E : p = e.proposal
      BY <1>2, <1>3
    <3> QED
      BY <3>1
  <2> QED
    BY <2>4, <2>6, <2>7
<1> QED
  BY <1>1, <1>2, <1>4

LEMMA CatalogIs ==
  ASSUME NEW E, IsFiniteSet(E)
  PROVE  /\ IsFiniteSet(Catalog(E))
         /\ \A p : p \in Catalog(E) <=>
               \E e \in E : e.proposal = p /\ p.kind \in {"entity", "event", "claim"}
<1> DEFINE D == {e \in E : e.proposal.kind \in {"entity", "event", "claim"}}
           f == [e \in D |-> e.proposal]
           C == Catalog(E)
<1>1. \A p : p \in C <=> \E e \in E : e.proposal = p /\ p.kind \in {"entity", "event", "claim"}
  BY DEF Catalog
<1>2. IsFiniteSet(D)
  BY FS_Subset
<1> HIDE DEF C
<1>3. f \in Surjection(D, C)
  <2>1. f \in [D -> C]
    BY <1>1
  <2>2. ASSUME NEW p \in C PROVE \E e \in D : f[e] = p
    BY <1>1
  <2> QED
    BY <2>1, <2>2 DEF Surjection
<1> HIDE DEF D, f
<1>4. IsFiniteSet(C)
  BY <1>2, <1>3, FS_Surjection
<1> QED
  BY <1>1, <1>4 DEF C

\* The review of what the windows of a run found.
LEMMA ReviewOf ==
  ASSUME NEW S, Batch(S), NEW known, NEW sound,
         NEW E, E = Aggregated(S), NEW R, R = Review(E, known, sound)
  PROVE  /\ IsFiniteSet(Catalog(E))
         /\ \A p : p \in Catalog(E) <=>
               \E e \in E : e.proposal = p /\ p.kind \in {"entity", "event", "claim"}
         /\ \A d : d \in R.decisions <=> \E e \in E : d = ReviewProposal(e, E, known, sound)
         /\ Route(R) = "APPROVED" =>
               /\ R.bundle = {e.proposal : e \in E}
               /\ \A d \in R.decisions : d.decision = "APPROVED"
<1>1. IsFiniteSet(E)
  BY EnvelopesAre
<1>2. /\ IsFiniteSet(Catalog(E))
      /\ \A p : p \in Catalog(E) <=>
               \E e \in E : e.proposal = p /\ p.kind \in {"entity", "event", "claim"}
  BY <1>1, CatalogIs
<1>3. /\ \A d : d \in R.decisions <=> \E e \in E : d = ReviewProposal(e, E, known, sound)
      /\ Route(R) = "APPROVED" =>
            /\ R.bundle = {e.proposal : e \in E}
            /\ \A d \in R.decisions : d.decision = "APPROVED"
  BY <1>2, ReviewIs
<1> QED
  BY <1>2, <1>3

\* The reference that Gate 2 makes of a link.
LEMMA DecisionRefs ==
  ASSUME NEW S, Batch(S), NEW known, NEW sound,
         NEW E, E = Aggregated(S), NEW e \in E, NEW d, d = ReviewProposal(e, E, known, sound)
  PROVE  /\ DecisionContract(d) /\ d.proposal = e.proposal
         /\ \A issue \in d.issues :
               issue.code \in ToNothing => \E r \in d.references : issue \in r.issues
         /\ \A link \in e.proposal.links :
               link.id # NoId /\ (\A t \in Catalog(E) : t.id # link.id) =>
                  \E issue \in d.issues : issue.code \in ToNothing
         /\ \A r \in d.references : \E link \in e.proposal.links :
               /\ Sane(r, e.proposal, link, Catalog(E))
               /\ (link.id # NoId => /\ link.kind \in link.among
                                     /\ \E t \in Catalog(E) : t.kind = link.kind /\ t.id = link.id) =>
                     \A issue \in r.issues : issue.code \notin ToNothing
<1>1. IsFiniteSet(Catalog(E))
  <2>1. IsFiniteSet(E)
    BY EnvelopesAre
  <2> QED
    BY <2>1, CatalogIs
<1>2. /\ DecisionContract(d) /\ d.proposal = e.proposal
      /\ \A r : r \in d.references <=>
               \E link \in e.proposal.links : r = ResolveReference(e.proposal, link, Catalog(E))
      /\ \A issue \in d.issues :
               issue.code \in ToNothing => \E r \in d.references : issue \in r.issues
      /\ \A r \in d.references : r.issues \subseteq d.issues
  BY <1>1, Judged
<1>4. ASSUME NEW link \in e.proposal.links, link.id # NoId, \A t \in Catalog(E) : t.id # link.id
      PROVE  \E issue \in d.issues : issue.code \in ToNothing
  <2> DEFINE r == ResolveReference(e.proposal, link, Catalog(E))
  <2>1. r \in d.references
    BY <1>2
  <2>2. \E issue \in r.issues : issue.code \in ToNothing
    BY <1>4, LostIs
  <2> HIDE DEF r
  <2> QED
    BY <1>2, <2>1, <2>2
<1>3. ASSUME NEW r \in d.references
      PROVE  \E link \in e.proposal.links :
               /\ Sane(r, e.proposal, link, Catalog(E))
               /\ (link.id # NoId => /\ link.kind \in link.among
                                     /\ \E t \in Catalog(E) : t.kind = link.kind /\ t.id = link.id) =>
                     \A issue \in r.issues : issue.code \notin ToNothing
  <2>1. PICK link \in e.proposal.links : r = ResolveReference(e.proposal, link, Catalog(E))
    BY <1>2
  <2> DEFINE C == Catalog(E)
             p == e.proposal
             q == ResolveReference(p, link, C)
  <2>2. IsFiniteSet(C)
    BY <1>1
  <2>3. /\ Sane(q, p, link, C)
        /\ (link.id # NoId => link.kind \in link.among /\ \E t \in C : t.kind = link.kind /\ t.id = link.id) =>
              \A issue \in q.issues : issue.code \notin ToNothing
    <3> HIDE DEF C, p
    <3> QED
      BY <2>2, ReferenceIs
  <2>4. r = q
    BY <2>1
  <2> HIDE DEF C, q
  <2> QED
    BY <2>3, <2>4 DEF C
<1> QED
  BY <1>2, <1>3, <1>4

\* Of the links of an event or a claim those lead to nothing that came
\* with an id.
LEMMA LinksLead ==
  ASSUME NEW S, Batch(S), NEW known, NEW sound, NEW E, E = Aggregated(S),
         NEW e \in E, NEW d, d = ReviewProposal(e, E, known, sound),
         d.proposal.kind \in {"event", "claim"}
  PROVE  (\E issue \in d.issues : issue.code \in ToNothing) <=> \E link \in d.proposal.links : link.preset
<1>1. /\ d.proposal = e.proposal
      /\ \A issue \in d.issues : issue.code \in ToNothing => \E r \in d.references : issue \in r.issues
      /\ \A link \in e.proposal.links :
            link.id # NoId /\ (\A t \in Catalog(E) : t.id # link.id) =>
               \E issue \in d.issues : issue.code \in ToNothing
      /\ \A r \in d.references : \E link \in e.proposal.links :
            (link.id # NoId => /\ link.kind \in link.among
                               /\ \E t \in Catalog(E) : t.kind = link.kind /\ t.id = link.id) =>
                  \A i \in r.issues : i.code \notin ToNothing
  BY DecisionRefs
<1>2. IsFiniteSet(E)
  BY EnvelopesAre
<1>3. ASSUME NEW issue \in d.issues, issue.code \in ToNothing
      PROVE  \E link \in d.proposal.links : link.preset
  <2>1. PICK r \in d.references : issue \in r.issues
    BY <1>1, <1>3
  <2>2. PICK link \in e.proposal.links :
            (link.id # NoId => /\ link.kind \in link.among
                               /\ \E t \in Catalog(E) : t.kind = link.kind /\ t.id = link.id) =>
                  \A i \in r.issues : i.code \notin ToNothing
    BY <1>1
  <2>3. link.id # NoId /\ ~(/\ link.kind \in link.among
                            /\ \E t \in Catalog(E) : t.kind = link.kind /\ t.id = link.id)
    BY <1>3, <2>1, <2>2
  <2> SUFFICES ASSUME ~link.preset PROVE FALSE
    BY <1>1
  <2>4. /\ link.kind \in link.among /\ link.kind \in {"entity", "event"}
        /\ \E f \in E : f.proposal.kind = link.kind /\ f.proposal.id = link.id
    BY <1>1, <2>3, EnvelopeLinks
  <2>5. PICK f \in E : f.proposal.kind = link.kind /\ f.proposal.id = link.id
    BY <2>4
  <2>6. f.proposal \in Catalog(E)
    BY <1>2, <2>4, <2>5, CatalogIs
  <2> QED
    BY <2>3, <2>4, <2>5, <2>6
<1>4. ASSUME NEW link \in d.proposal.links, link.preset
      PROVE  \E issue \in d.issues : issue.code \in ToNothing
  <2>1. link.id # NoId /\ \A f \in E : f.proposal.id # link.id
    BY <1>1, <1>4, EnvelopeLinks
  <2>2. \A t \in Catalog(E) : t.id # link.id
    BY <1>2, <2>1, CatalogIs
  <2> QED
    BY <1>1, <1>4, <2>1, <2>2
<1> QED
  BY <1>3, <1>4

\* What a run that goes on passes leads to what it passes.
LEMMA BundleIs ==
  ASSUME NEW S, Batch(S), NEW known, NEW sound,
         NEW E, E = Aggregated(S), NEW R, R = Review(E, known, sound), Route(R) = "APPROVED"
  PROVE  /\ R.bundle = {e.proposal : e \in E}
         /\ \A d \in R.decisions : \A r \in d.references : \A t \in r.selected :
               /\ t \in R.bundle
               /\ t.kind # "entity" => t.layer = d.proposal.layer
<1>1. /\ \A p : p \in Catalog(E) <=>
               \E e \in E : e.proposal = p /\ p.kind \in {"entity", "event", "claim"}
      /\ \A d : d \in R.decisions <=> \E e \in E : d = ReviewProposal(e, E, known, sound)
      /\ R.bundle = {e.proposal : e \in E}
  BY ReviewOf
<1>2. ASSUME NEW d \in R.decisions, NEW r \in d.references, NEW t \in r.selected
      PROVE  t \in R.bundle /\ (t.kind # "entity" => t.layer = d.proposal.layer)
  <2>1. PICK e \in E : d = ReviewProposal(e, E, known, sound)
    BY <1>1
  <2>2. /\ d.proposal = e.proposal
        /\ \E link \in e.proposal.links : Sane(r, e.proposal, link, Catalog(E))
    BY <2>1, DecisionRefs
  <2>3. PICK link \in e.proposal.links : Sane(r, e.proposal, link, Catalog(E))
    BY <2>2
  <2>4. t \in Catalog(E) /\ RealityMatches(e.proposal, t)
    BY <2>3 DEF Sane
  <2>5. e.proposal.kind # "entity"
    BY EnvelopeLinks
  <2>6. t \in R.bundle
    BY <1>1, <2>4
  <2> QED
    BY <2>2, <2>4, <2>5, <2>6 DEF RealityMatches
<1> QED
  BY <1>1, <1>2

\* An approved event has people and places that are approved.
LEMMA NamedAreApproved ==
  ASSUME NEW S, Batch(S), NEW known, NEW sound,
         NEW E, E = Aggregated(S), NEW R, R = Review(E, known, sound), Route(R) = "APPROVED",
         NEW d \in TimelineInput(R, "event"), NEW path
  PROVE  Named(d, path) \subseteq {entity.proposal.id : entity \in TimelineInput(R, "entity")}
<1>1. /\ \A p : p \in Catalog(E) <=>
               \E e \in E : e.proposal = p /\ p.kind \in {"entity", "event", "claim"}
      /\ \A c : c \in R.decisions <=> \E e \in E : c = ReviewProposal(e, E, known, sound)
      /\ \A c \in R.decisions : c.decision = "APPROVED"
  BY ReviewOf
<1>2. d \in R.decisions /\ d.proposal.kind = "event"
  BY DEF TimelineInput, Decided
<1>3. PICK e \in E : d = ReviewProposal(e, E, known, sound)
  BY <1>1, <1>2
<1>4. /\ d.proposal = e.proposal
      /\ \A r \in d.references : \E link \in e.proposal.links : Sane(r, e.proposal, link, Catalog(E))
  BY <1>3, DecisionRefs
<1>5. ASSUME NEW f \in E, f.proposal.kind = "entity"
      PROVE  \E entity \in TimelineInput(R, "entity") : entity.proposal.id = f.proposal.id
  <2> DEFINE c == ReviewProposal(f, E, known, sound)
  <2>1. c \in R.decisions
    BY <1>1
  <2>2. c.proposal = f.proposal
    BY DecisionRefs
  <2> HIDE DEF c
  <2>3. c.decision = "APPROVED"
    BY <1>1, <2>1
  <2>4. c \in TimelineInput(R, "entity")
    BY <1>5, <2>1, <2>2, <2>3 DEF TimelineInput, Decided
  <2> QED
    BY <2>2, <2>4
<1>6. /\ \A k \in e.proposal.links : k.among = {"entity"}
      /\ \A k \in e.proposal.links : k.id # NoId /\ ~k.preset =>
            /\ k.kind \in k.among
            /\ \E f \in E : f.proposal.kind = k.kind /\ f.proposal.id = k.id
  BY <1>2, <1>4, EnvelopeLinks
<1>7. ASSUME NEW link \in d.proposal.links, link.id # NoId, ~link.preset
      PROVE  \E entity \in TimelineInput(R, "entity") : entity.proposal.id = link.id
  <2>1. link \in e.proposal.links
    BY <1>4
  <2>2. PICK f \in E : f.proposal.kind = "entity" /\ f.proposal.id = link.id
    BY <1>6, <1>7, <2>1
  <2> QED
    BY <1>5, <2>2
<1>8. ASSUME NEW r \in d.references, NEW t \in r.selected
      PROVE  \E entity \in TimelineInput(R, "entity") : entity.proposal.id = t.id
  <2>1. PICK link \in e.proposal.links : Sane(r, e.proposal, link, Catalog(E))
    BY <1>4
  <2>2. t \in Catalog(E) /\ t.kind = "entity"
    BY <1>6, <2>1 DEF Sane
  <2>3. PICK f \in E : f.proposal = t
    BY <1>1, <2>2
  <2> QED
    BY <1>5, <2>2, <2>3
<1>9. ASSUME NEW i \in Named(d, path)
      PROVE  \/ \E link \in d.proposal.links : link.id # NoId /\ ~link.preset /\ i = link.id
             \/ \E r \in d.references : \E t \in r.selected : i = t.id
  BY DEF Named
<1>10. ASSUME NEW i \in Named(d, path)
       PROVE  \E entity \in TimelineInput(R, "entity") : entity.proposal.id = i
  BY <1>7, <1>8, <1>9
<1> QED
  BY <1>10

\* Two aggregates that say the same were quoted from two places.
LEMMA DuplicatesDiffer ==
  ASSUME NEW S, Batch(S), NEW known, NEW sound,
         NEW E, E = Aggregated(S), NEW R, R = Review(E, known, sound),
         NEW kind \in {"event", "claim"}, NEW pair \in Duplicated(R, kind)
  PROVE  pair[1].proposal.evidence # pair[2].proposal.evidence
<1> SUFFICES ASSUME pair[1].proposal.evidence = pair[2].proposal.evidence PROVE FALSE
  OBVIOUS
<1> DEFINE a == pair[1]
           b == pair[2]
<1>1. /\ a # b /\ TimelineKey(a) = TimelineKey(b)
      /\ a \in TimelineInput(R, kind) /\ b \in TimelineInput(R, kind)
  BY DEF Duplicated
<1>2. a.proposal.evidence = b.proposal.evidence
  OBVIOUS
<1> HIDE DEF a, b
<1>3. /\ a \in R.decisions /\ a.proposal.kind = kind
      /\ b \in R.decisions /\ b.proposal.kind = kind
  BY <1>1 DEF TimelineInput, Decided
<1>4. \A d : d \in R.decisions <=> \E e \in E : d = ReviewProposal(e, E, known, sound)
  BY ReviewOf
<1>5. PICK e \in E : a = ReviewProposal(e, E, known, sound)
  BY <1>3, <1>4
<1>6. PICK f \in E : b = ReviewProposal(f, E, known, sound)
  BY <1>3, <1>4
<1>7. a.proposal = e.proposal
  BY <1>5, DecisionRefs
<1>8. b.proposal = f.proposal
  BY <1>6, DecisionRefs
<1>9. PICK s \in S : Leading(s, S) = s /\ e = Aggregate(s, S)
  BY EnvelopesAre
<1>10. PICK t \in S : Leading(t, S) = t /\ f = Aggregate(t, S)
  BY EnvelopesAre
<1>11. /\ e.proposal.kind = s.proposal.kind /\ e.proposal.text = s.proposal.text
       /\ e.proposal.speaker = s.proposal.speaker /\ e.proposal.evidence = s.proposal.evidence
  BY <1>9, EnvelopeHas
<1>12. /\ f.proposal.kind = t.proposal.kind /\ f.proposal.text = t.proposal.text
       /\ f.proposal.speaker = t.proposal.speaker /\ f.proposal.evidence = t.proposal.evidence
  BY <1>10, EnvelopeHas
<1>13. /\ a.proposal.text = b.proposal.text
       /\ kind = "claim" => a.proposal.speaker = b.proposal.speaker
  <2>1. CASE kind = "event"
    BY <1>1, <1>3, <2>1 DEF TimelineKey
  <2>2. CASE kind = "claim"
    BY <1>1, <1>3, <2>2 DEF TimelineKey
  <2> QED
    BY <2>1, <2>2
<1>14. SameKey(s, t)
  <2>1. s.proposal.kind \in ProposalKinds /\ t.proposal.kind \in ProposalKinds
    BY DEF Batch, IsProposal
  <2>2. /\ s.proposal.kind = t.proposal.kind /\ s.proposal.kind \in {"event", "claim"}
        /\ s.proposal.text = t.proposal.text /\ s.proposal.evidence = t.proposal.evidence
        /\ s.proposal.kind = "claim" => s.proposal.speaker = t.proposal.speaker
    BY <1>2, <1>3, <1>7, <1>8, <1>11, <1>12, <1>13
  <2> QED
    BY <2>1, <2>2, KeyOf
<1>15. s = t
  BY <1>9, <1>10, <1>14, LeaderOnce
<1> QED
  BY <1>1, <1>5, <1>6, <1>9, <1>10, <1>15

\* What the review asks of its input.
LEMMA InputHolds ==
  ASSUME NEW S, Batch(S)
  PROVE  InputContract(Aggregated(S))
<1>1. ASSUME NEW e \in Aggregated(S), NEW f \in Aggregated(S),
             e.proposal.id = f.proposal.id
      PROVE  e = f
  BY <1>1, EnvelopeOnce
<1>2. ASSUME NEW e \in Aggregated(S)
      PROVE  e.runs # {} /\ e.evidence # {}
  <2>1. PICK s \in S : e = Aggregate(s, S)
    BY EnvelopesAre
  <2> QED
    BY <2>1, EnvelopeHas
<1> QED
  BY <1>1, <1>2 DEF InputContract

\* How a proposal is made.
LEMMA MadeIs ==
  ASSUME NEW kind \in ProposalKinds, NEW n \in Nat, NEW text, NEW speaker, NEW layer, NEW evidence, NEW links,
         \A link \in links : IsLink(link),
         kind = "entity" => links = {},
         kind \in {"event", "claim"} => \A link \in links : link.id = NoId \/ link.id = <<link.id[1]>>,
         \A link \in links : link.preset => link.id # NoId,
         kind = "event" => \A link \in links :
             link.among = {"entity"} /\ (link.id # NoId /\ ~link.preset => link.kind = "entity"),
         kind = "claim" => \A link \in links : link.id # NoId /\ ~link.preset =>
             IF link.path # "source" THEN link.kind = "event"
             ELSE speaker = "CHARACTER" => link.kind = "entity",
         kind # "event" => \A link \in links : link.path # "participant"
  PROVE  /\ IsProposal(Proposal(kind, <<n>>, text, speaker, layer, evidence, links))
         /\ Proposal(kind, <<n>>, text, speaker, layer, evidence, links).kind = kind
<1> DEFINE p == Proposal(kind, <<n>>, text, speaker, layer, evidence, links)
           id == <<n>>
<1>1. /\ p.kind = kind /\ p.id = id /\ p.text = text /\ p.speaker = speaker /\ p.layer = layer
      /\ p.evidence = evidence /\ p.links = links
  BY DEF Proposal
<1>2. id[1] = n /\ id = <<id[1]>>
  OBVIOUS
<1>3. p = Proposal(kind, id, text, speaker, layer, evidence, links)
  OBVIOUS
<1> HIDE DEF p, id
<1>4. p = Proposal(p.kind, p.id, p.text, p.speaker, p.layer, p.evidence, p.links)
  BY <1>1, <1>3
<1>5. p.id[1] \in Nat /\ p.id = <<p.id[1]>>
  BY <1>1, <1>2
<1>6. IsProposal(p)
  BY <1>1, <1>4, <1>5 DEF IsProposal
<1> QED
  BY <1>1, <1>6 DEF p, id

LEMMA LinkIs ==
  ASSUME NEW path, NEW among, NEW kind, NEW id, NEW text
  PROVE  LET link == Link(path, among, kind, id, text)
         IN /\ IsLink(link) /\ ~link.preset /\ link.path = path /\ link.among = among
            /\ link.kind = kind /\ link.id = id
<1> DEFINE link == Link(path, among, kind, id, text)
<1>1. /\ link.path = path /\ link.among = among /\ link.kind = kind
      /\ link.id = id /\ link.text = text /\ ~link.preset
  BY DEF Link
<1> HIDE DEF link
<1>2. link = Link(path, among, kind, id, text)
  BY DEF link
<1> QED
  BY <1>1, <1>2 DEF IsLink, link

LEMMA PresetIs ==
  ASSUME NEW path, NEW among, NEW kind, NEW id, NEW text
  PROVE  LET link == Preset(path, among, kind, id, text)
         IN IsLink(link) /\ link.preset /\ link.path = path /\ link.among = among /\ link.id = id
<1> DEFINE link == Preset(path, among, kind, id, text)
<1>1. link.preset /\ link.path = path /\ link.among = among /\ link.id = id
  BY DEF Preset, Link
<1> QED
  BY <1>1 DEF IsLink

LEMMA EntitiesAre == \A p \in Entities : IsProposal(p)
<1> TAKE p \in Entities
<1>1. PICK n \in Names, text \in Names : p = Entity(n, text)
  BY DEF Entities
<1>2. n \in Nat
  BY NamesAssumption
<1> DEFINE t == <<text>>
           k == "entity"
           s == ""
           one == 1
<1>3. k \in ProposalKinds /\ k = "entity" /\ k # "event" /\ k # "claim"
  BY DEF ProposalKinds
<1>4. IsProposal(Proposal(k, <<n>>, t, s, s, one, {}))
  <2> HIDE DEF t, k, s, one
  <2> QED
    BY <1>2, <1>3, MadeIs
<1> QED
  BY <1>1, <1>4 DEF Entity

LEMMA EventsAre == \A p \in Events : IsProposal(p)
<1>1. ASSUME NEW links \in EventLinks
      PROVE  \A link \in links :
               /\ IsLink(link) /\ (link.id = NoId \/ link.id = <<link.id[1]>>)
               /\ link.preset => link.id # NoId
               /\ link.among = {"entity"} /\ (link.id # NoId /\ ~link.preset => link.kind = "entity")
  <2> SUFFICES ASSUME NEW link \in links
               PROVE  /\ IsLink(link) /\ (link.id = NoId \/ link.id = <<link.id[1]>>)
                      /\ link.preset => link.id # NoId
                      /\ link.among = {"entity"} /\ (link.id # NoId /\ ~link.preset => link.kind = "entity")
    OBVIOUS
  <2>1. \/ \E id \in Names : link = Link("participant", {"entity"}, "entity", <<id>>, <<id>>)
        \/ \E name \in Names, path \in {"participant", "location"} :
              link = Link(path, {"entity"}, NoKind, NoId, <<name>>)
        \/ \E kind \in {"entity", "event"} : link = Preset("participant", {"entity"}, kind, <<1>>, <<2>>)
    BY <1>1 DEF EventLinks
  <2>2. CASE \E id \in Names : link = Link("participant", {"entity"}, "entity", <<id>>, <<id>>)
    <3>1. PICK id \in Names : link = Link("participant", {"entity"}, "entity", <<id>>, <<id>>)
      BY <2>2
    <3> DEFINE i == <<id>>
    <3>2. i = <<i[1]>>
      OBVIOUS
    <3>3. link = Link("participant", {"entity"}, "entity", i, i)
      BY <3>1
    <3> HIDE DEF i
    <3>4. IsLink(link) /\ ~link.preset /\ link.among = {"entity"} /\ link.kind = "entity" /\ link.id = i
      BY <3>3, LinkIs
    <3> QED
      BY <3>2, <3>4
  <2>3. CASE \E name \in Names, path \in {"participant", "location"} :
              link = Link(path, {"entity"}, NoKind, NoId, <<name>>)
    <3>1. PICK name \in Names, path \in {"participant", "location"} :
              link = Link(path, {"entity"}, NoKind, NoId, <<name>>)
      BY <2>3
    <3> DEFINE i == <<name>>
    <3>2. link = Link(path, {"entity"}, NoKind, NoId, i)
      BY <3>1
    <3> HIDE DEF i
    <3>3. IsLink(link) /\ ~link.preset /\ link.among = {"entity"} /\ link.id = NoId
      BY <3>2, LinkIs
    <3> QED
      BY <3>3
  <2>4. CASE \E kind \in {"entity", "event"} : link = Preset("participant", {"entity"}, kind, <<1>>, <<2>>)
    <3> DEFINE i == <<1>>
               j == <<2>>
    <3>1. PICK kind \in {"entity", "event"} : link = Preset("participant", {"entity"}, kind, i, j)
      BY <2>4
    <3>2. i = <<i[1]>> /\ i # NoId
      BY Tuples
    <3> HIDE DEF i, j
    <3>3. IsLink(link) /\ link.preset /\ link.among = {"entity"} /\ link.id = i
      BY <3>1, PresetIs
    <3> QED
      BY <3>2, <3>3
  <2> QED
    BY <2>1, <2>2, <2>3, <2>4
<1>2. ASSUME NEW layer, NEW evidence, NEW links \in EventLinks
      PROVE  IsProposal(Event(layer, evidence, links))
  <2> DEFINE t == <<2>>
             k == "event"
             s == ""
             one == 1
  <2>1. one \in Nat /\ k \in ProposalKinds /\ k # "entity" /\ k # "claim" /\ k = "event"
    BY DEF ProposalKinds
  <2>2. IsProposal(Proposal(k, <<one>>, t, s, layer, evidence, links))
    <3> HIDE DEF t, k, s, one
    <3> QED
      BY <1>1, <2>1, MadeIs
  <2> QED
    BY <2>2 DEF Event
<1>3. {} \in EventLinks
  BY DEF EventLinks
<1> QED
  BY <1>2, <1>3 DEF Events

\* A proposal with one link, or with one of several.
LEMMA OneLink ==
  ASSUME NEW kind \in ProposalKinds, NEW text, NEW speaker, NEW layer, NEW evidence, NEW link,
         IsLink(link), kind # "entity", kind # "event", link.path # "participant",
         link.preset => link.id # NoId,
         kind = "claim" => /\ link.id = NoId \/ link.id = <<link.id[1]>>
                           /\ link.id # NoId /\ ~link.preset =>
                                IF link.path # "source" THEN link.kind = "event"
                                ELSE speaker = "CHARACTER" => link.kind = "entity"
  PROVE  IsProposal(Proposal(kind, <<1>>, text, speaker, layer, evidence, {link}))
<1> DEFINE links == {link}
           one == 1
<1>1. \A l \in links : l = link
  OBVIOUS
<1>2. one \in Nat
  OBVIOUS
<1> HIDE DEF links, one
<1>3. IsProposal(Proposal(kind, <<one>>, text, speaker, layer, evidence, links))
  BY <1>1, <1>2, MadeIs
<1> QED
  BY <1>3 DEF links, one

LEMMA ClaimsAre == \A p \in Claims : IsProposal(p)
<1>1. ASSUME NEW speaker \in {"CHARACTER", "DOCUMENT"}, NEW links \in ClaimLinks(speaker)
      PROVE  IsProposal(Proposal("claim", <<1>>, <<1>>, speaker, "ACTUAL", 1, links))
  <2> DEFINE b == Speech(speaker)
             c == IF speaker = "CHARACTER" THEN "entity" ELSE NoKind
             i == <<1>>
             j == <<2>>
             e == {"event"}
  <2>1. \/ links = {Link("source", b, c, i, i)}
        \/ links = {Link("source", b, NoKind, NoId, j)}
        \/ links = {Link("target", e, "event", i, j)}
        \/ links = {Link("target", e, NoKind, NoId, j)}
        \/ links = {Preset("target", e, "event", i, j)}
    BY DEF ClaimLinks
  <2>2. i = <<i[1]>> /\ i # NoId /\ (speaker = "CHARACTER" => c = "entity")
    BY Tuples
  <2> HIDE DEF b, c, i, j, e
  <2>3. PICK link : /\ links = {link}
                    /\ \/ link = Link("source", b, c, i, i)
                       \/ link = Link("source", b, NoKind, NoId, j)
                       \/ link = Link("target", e, "event", i, j)
                       \/ link = Link("target", e, NoKind, NoId, j)
                       \/ link = Preset("target", e, "event", i, j)
    BY <2>1
  <2>4. /\ IsLink(link) /\ link.path # "participant"
        /\ link.id = NoId \/ link.id = <<link.id[1]>>
        /\ link.preset => link.id # NoId
        /\ link.id # NoId /\ ~link.preset =>
                             IF link.path # "source" THEN link.kind = "event"
                             ELSE speaker = "CHARACTER" => link.kind = "entity"
    <3>1. CASE link = Link("source", b, c, i, i)
      <4>1. IsLink(link) /\ ~link.preset /\ link.path = "source" /\ link.kind = c /\ link.id = i
        BY <3>1, LinkIs
      <4> QED
        BY <2>2, <4>1
    <3>2. CASE link = Link("source", b, NoKind, NoId, j)
      <4>1. IsLink(link) /\ ~link.preset /\ link.path = "source" /\ link.id = NoId
        BY <3>2, LinkIs
      <4> QED
        BY <4>1
    <3>3. CASE link = Link("target", e, "event", i, j)
      <4>1. IsLink(link) /\ ~link.preset /\ link.path = "target" /\ link.kind = "event" /\ link.id = i
        BY <3>3, LinkIs
      <4> QED
        BY <2>2, <4>1
    <3>4. CASE link = Link("target", e, NoKind, NoId, j)
      <4>1. IsLink(link) /\ ~link.preset /\ link.path = "target" /\ link.id = NoId
        BY <3>4, LinkIs
      <4> QED
        BY <4>1
    <3>5. CASE link = Preset("target", e, "event", i, j)
      <4>1. IsLink(link) /\ link.preset /\ link.path = "target" /\ link.id = i
        BY <3>5, PresetIs
      <4> QED
        BY <2>2, <4>1
    <3> QED
      BY <2>3, <3>1, <3>2, <3>3, <3>4, <3>5
  <2> DEFINE k == "claim"
             l == "ACTUAL"
             v == 1
  <2>5. k \in ProposalKinds /\ k # "entity" /\ k # "event" /\ k = "claim"
    BY DEF ProposalKinds
  <2>6. IsProposal(Proposal(k, <<1>>, i, speaker, l, v, {link}))
    <3> HIDE DEF k, l, v
    <3> QED
      BY <2>4, <2>5, OneLink
  <2> QED
    BY <2>3, <2>6 DEF i
<1> QED
  BY <1>1 DEF Claims

\* The states and changes of the model name their links without a participant.
LEMMA StatesAre == \A p \in States \cup Changes : IsProposal(p)
<1>1. ASSUME NEW layer, NEW evidence, NEW link, IsLink(link), ~link.preset, link.path # "participant"
      PROVE  /\ IsProposal(Knowing(layer, evidence, link))
             /\ IsProposal(Proposal("change", <<1>>, <<1>>, "", layer, evidence, {link}))
  <2> DEFINE k == "knowledge"
             c == "change"
             t == <<1>>
             s == ""
  <2>1. /\ k \in ProposalKinds /\ k # "entity" /\ k # "event" /\ k # "claim"
        /\ c \in ProposalKinds /\ c # "entity" /\ c # "event" /\ c # "claim"
    BY DEF ProposalKinds
  <2> HIDE DEF k, c, t, s
  <2>2. /\ IsProposal(Proposal(k, <<1>>, t, s, layer, evidence, {link}))
        /\ IsProposal(Proposal(c, <<1>>, t, s, layer, evidence, {link}))
    BY <1>1, <2>1, OneLink
  <2> QED
    BY <2>2 DEF k, c, t, s, Knowing
<1>2. ASSUME NEW among, NEW kind, NEW id, NEW text,
             NEW path \in {"subject", "target", "supporting"}
      PROVE  LET link == Link(path, among, kind, id, text)
             IN IsLink(link) /\ ~link.preset /\ link.path # "participant"
  BY LinkIs
<1>3. ASSUME NEW p \in States PROVE IsProposal(p)
  <2> DEFINE L == {Unknown, Link("subject", {"entity"}, "entity", <<1>>, <<1>>),
                   Link("target", {"event"}, "event", <<1>>, <<2>>),
                   Link("supporting", {"claim"}, "claim", <<1>>, <<1>>)}
  <2>1. \A link \in L : IsLink(link) /\ ~link.preset /\ link.path # "participant"
    BY <1>2 DEF Unknown
  <2>2. Unknown \in L
    OBVIOUS
  <2>3. \E layer \in {"DREAM", "ACTUAL"}, evidence \in 1..2, link \in L : p = Knowing(layer, evidence, link)
    BY DEF States
  <2> HIDE DEF L
  <2>4. PICK layer \in {"DREAM", "ACTUAL"}, evidence \in 1..2, link \in L : p = Knowing(layer, evidence, link)
    BY <2>3
  <2> QED
    BY <1>1, <2>1, <2>4
<1>4. ASSUME NEW p \in Changes PROVE IsProposal(p)
  <2> DEFINE link == Link("target", {"entity"}, NoKind, NoId, <<1>>)
  <2>1. PICK evidence \in 1..2 : p = Proposal("change", <<1>>, <<1>>, "", "ACTUAL", evidence, {link})
    BY <1>4 DEF Changes
  <2>2. IsLink(link) /\ ~link.preset /\ link.path # "participant"
    BY <1>2
  <2> HIDE DEF link
  <2> QED
    BY <1>1, <2>1, <2>2
<1> QED
  BY <1>3, <1>4

\* What is asked about the review of an aggregation.
ReviewAsked ==
    topic = "review" =>
        /\ Batch(question.sources)
        /\ answered =>
            /\ answer.sources = OwnedSources(question.sources, <<1, 2>>)
            /\ answer.envelopes = Aggregated(answer.sources)
            /\ answer.review = Review(answer.envelopes, {Run(source) : source \in answer.sources},
                                      question.sound)

LEMMA OwnedBatch ==
  ASSUME NEW S, Batch(S), NEW owner
  PROVE  Batch(OwnedSources(S, owner))
<1> DEFINE T == OwnedSources(S, owner)
<1>1. T \subseteq S
  BY DEF OwnedSources
<1> HIDE DEF T
<1>2. IsFiniteSet(T)
  BY <1>1, FS_Subset DEF Batch
<1> QED
  BY <1>1, <1>2 DEF Batch, T

LEMMA ReviewQuestions == Spec => []ReviewAsked
<1>1. Init => ReviewAsked
  <2> SUFFICES ASSUME Init, topic = "review" PROVE ReviewAsked
    BY DEF ReviewAsked
  <2>1. AskReview /\ ~answered
    BY Topics
  <2>2. PICK one \in Sources, two \in Sources, three \in Sources, sound \in {{1}, {1, 2}} :
        /\ OneBatch(one, two) /\ OneBatch(one, three) /\ OneBatch(two, three)
        /\ question = [sources |-> {one, two, three}, sound |-> sound]
    BY <2>1 DEF AskReview
  <2>3. ASSUME NEW s \in Sources
        PROVE  s = Source(s.window, s.proposal) /\ s.window \in Nat /\ IsProposal(s.proposal)
    <3>1. PICK window \in 1..2, p \in Entities \cup Events \cup Claims \cup States \cup Changes :
            s = Source(window, p)
      BY DEF Sources
    <3>2. s.window = window /\ s.proposal = p /\ window \in Nat
      BY <3>1 DEF Source
    <3>3. IsProposal(p)
      BY EntitiesAre, EventsAre, ClaimsAre, StatesAre
    <3> QED
      BY <3>1, <3>2, <3>3
  <2> DEFINE S == {one, two, three}
  <2>4. IsFiniteSet(S)
    <3>1. IsFiniteSet({one}) /\ IsFiniteSet({two}) /\ IsFiniteSet({three})
      BY FS_Singleton
    <3>2. IsFiniteSet({one} \cup {two})
      BY <3>1, FS_Union
    <3>3. IsFiniteSet(({one} \cup {two}) \cup {three})
      BY <3>1, <3>2, FS_Union
    <3>4. S = ({one} \cup {two}) \cup {three}
      OBVIOUS
    <3> HIDE DEF S
    <3> QED
      BY <3>3, <3>4
  <2>5. \A s \in S, t \in S : IdOf(s) = IdOf(t) => s = t
    BY <2>2 DEF OneBatch
  <2>6. Batch(S)
    <3>1. S \subseteq Sources
      OBVIOUS
    <3> HIDE DEF S
    <3> QED
      BY <2>3, <2>4, <2>5, <3>1 DEF Batch
  <2>7. question.sources = S
    BY <2>2
  <2> QED
    BY <2>1, <2>6, <2>7 DEF ReviewAsked
<1>2. ReviewAsked /\ [Next]_vars => ReviewAsked'
  <2> SUFFICES ASSUME ReviewAsked, [Next]_vars, topic' = "review" PROVE ReviewAsked'
    BY DEF ReviewAsked
  <2>1. CASE UNCHANGED vars
    BY <2>1 DEF vars, ReviewAsked
  <2>2. CASE Next
    <3>1. topic = "review" /\ question' = question /\ AnswerReview
      BY <2>2, Topics
    <3>2. /\ answer'.sources = OwnedSources(question.sources, <<1, 2>>)
          /\ answer'.envelopes = Aggregated(answer'.sources)
          /\ answer'.review = Review(answer'.envelopes, {Run(source) : source \in answer'.sources},
                                     question.sound)
      BY <3>1 DEF AnswerReview
    <3> QED
      BY <3>1, <3>2 DEF ReviewAsked
  <2> QED
    BY <2>1, <2>2
<1> QED
  BY <1>1, <1>2, PTL DEF Spec

\* Between the windows, Gate 2 and the Timeline no proposal is lost, none is
\* joined to what it is not about, an event or a claim is refused for a link
\* to nothing exactly when its extractor gave a mention an id of its own
\* (rewrite_proposal_ids leaves it, _resolve_reference finds nothing by it),
\* the review keeps its contracts, and a run
\* that goes on passes nothing that leads outside of it: for every batch of
\* the proposals of the model, and by the lemmas for every batch whatever
\* (aggregate_narrative_analysis, ReviewGate2Service.review_narrative_analysis, the
\* Timeline's input adapter).
THEOREM ReviewIsSound == Spec => []ReviewSound
<1>1. ReviewAsked => ReviewSound
  <2> SUFFICES ASSUME ReviewAsked PROVE ReviewSound
    OBVIOUS
  <2>1. ASSUME topic = "review", answered
        PROVE  /\ RunsKept /\ LinksFaithful /\ OnlyPresetsLost
               /\ ReviewNeverFails /\ BundleClosed /\ TimelineScoped
    <3> DEFINE S == answer.sources
               E == answer.envelopes
               R == answer.review
               known == {Run(source) : source \in S}
               sound == question.sound
    <3>1. Batch(S) /\ E = Aggregated(S) /\ R = Review(E, known, sound)
      <4>1. Batch(question.sources) /\ S = OwnedSources(question.sources, <<1, 2>>)
        BY <2>1 DEF ReviewAsked
      <4>2. Batch(OwnedSources(question.sources, <<1, 2>>))
        BY <4>1, OwnedBatch
      <4> QED
        BY <2>1, <4>1, <4>2 DEF ReviewAsked
    <3> HIDE DEF S, E, R, known, sound
    <3>2. RunsKept
      <4>1. \A source \in S :
              Cardinality({envelope \in E :
                /\ envelope.proposal.kind = source.proposal.kind
                /\ envelope.proposal.id = Alias(IdOf(source), S)
                /\ Run(source) \in envelope.runs}) = 1
        BY <3>1, RunsAreKept
      <4> QED
        BY <4>1 DEF RunsKept, S, E
    <3>3. LinksFaithful
      <4>1. ASSUME NEW source \in S, NEW named \in S, NEW link \in source.proposal.links,
                   named.window = source.window, named.proposal.kind = "entity",
                   link.path = "participant", ~link.preset, link.id = named.proposal.id, Leading(source, S) = source
            PROVE  \E envelope, target \in E :
                      /\ envelope.proposal.id = IdOf(source)
                      /\ target.proposal.kind = "entity"
                      /\ target.proposal.text = named.proposal.text
                      /\ \E kept \in envelope.proposal.links : kept.id = target.proposal.id
        BY <3>1, <4>1, LinksAreFaithful
      <4> QED
        BY <4>1 DEF LinksFaithful, S, E
    <3>4. \A d : d \in R.decisions <=> \E e \in E : d = ReviewProposal(e, E, known, sound)
      BY <3>1, ReviewOf
    <3>5. OnlyPresetsLost
      <4>1. ASSUME NEW d \in R.decisions, d.proposal.kind \in {"event", "claim"}
            PROVE  (\E issue \in d.issues : issue.code \in ToNothing)
                     <=> \E link \in d.proposal.links : link.preset
        BY <3>1, <3>4, <4>1, LinksLead
      <4> QED
        BY <4>1 DEF OnlyPresetsLost, ToNothing, R
    <3>6. ReviewNeverFails
      <4>1. InputContract(E)
        BY <3>1, InputHolds
      <4>2. \A d \in R.decisions : DecisionContract(d)
        BY <3>1, <3>4, DecisionRefs
      <4> QED
        BY <4>1, <4>2 DEF ReviewNeverFails, E, R
    <3>7. BundleClosed
      <4>1. ASSUME Route(R) = "APPROVED"
            PROVE  /\ R.bundle = {e.proposal : e \in E}
                   /\ \A d \in R.decisions : \A r \in d.references : \A t \in r.selected :
                         t \in R.bundle /\ (t.kind # "entity" => t.layer = d.proposal.layer)
        BY <3>1, <4>1, BundleIs
      <4> QED
        BY <4>1 DEF BundleClosed, E, R
    <3>8. TimelineScoped
      <4>1. ASSUME Route(R) = "APPROVED", NEW d \in TimelineInput(R, "event"),
                   NEW path \in {"participant", "location"}
            PROVE  Named(d, path) \subseteq {entity.proposal.id : entity \in TimelineInput(R, "entity")}
        BY <3>1, <4>1, NamedAreApproved
      <4>2. ASSUME NEW pair \in Duplicated(R, "event") \cup Duplicated(R, "claim")
            PROVE  pair[1].proposal.evidence # pair[2].proposal.evidence
        BY <3>1, DuplicatesDiffer
      <4> QED
        BY <4>1, <4>2 DEF TimelineScoped, R
    <3> QED
      BY <3>2, <3>3, <3>5, <3>6, <3>7, <3>8
  <2>2. ASSUME ~(topic = "review" /\ answered)
        PROVE  /\ RunsKept /\ LinksFaithful /\ OnlyPresetsLost
               /\ ReviewNeverFails /\ BundleClosed /\ TimelineScoped
    BY <2>2 DEF RunsKept, LinksFaithful, OnlyPresetsLost, ReviewNeverFails, BundleClosed, TimelineScoped
  <2> QED
    BY <2>1, <2>2 DEF ReviewSound
<1> QED
  BY <1>1, ReviewQuestions, PTL

\* The relation of the same pair that comes last before another.
LEMMA EarlierIs ==
  ASSUME NEW S, NEW relations \in Seq(S), NEW i \in DOMAIN relations, NEW events
  PROVE  LET earlier == SamePairBefore(relations, i, events)
             same(j) == /\ KnownEnds(relations[j], events)
                        /\ relations[j].source = relations[i].source
                        /\ relations[j].target = relations[i].target
         IN /\ earlier = 0 => \A j \in 1..(i - 1) : ~same(j)
            /\ earlier # 0 => /\ earlier \in 1..(i - 1) /\ same(earlier)
                              /\ \A j \in 1..(i - 1) : same(j) => j <= earlier
<1> DEFINE same(j) == /\ KnownEnds(relations[j], events)
                      /\ relations[j].source = relations[i].source
                      /\ relations[j].target = relations[i].target
           E == {0} \cup {j \in 1..(i - 1) : same(j)}
           earlier == SamePairBefore(relations, i, events)
<1>1. earlier = Max(E)
  BY DEF SamePairBefore
<1>2. i \in Nat /\ E \in SUBSET (0..i) /\ E # {} /\ 0 \in E
  OBVIOUS
<1>3. Max(E) \in E /\ \A y \in E : Max(E) >= y
  <2> HIDE DEF E
  <2> QED
    BY <1>2, MaxIn
<1>4. \A j \in 1..(i - 1) : same(j) => j \in E
  OBVIOUS
<1>5. \A j \in E : j # 0 => j \in 1..(i - 1) /\ same(j)
  OBVIOUS
<1>6. \A j \in 1..(i - 1) : j > 0 /\ j \in Nat
  OBVIOUS
<1> HIDE DEF E, same
<1>7. earlier = 0 => \A j \in 1..(i - 1) : ~same(j)
  BY <1>1, <1>3, <1>4, <1>6
<1>8. earlier # 0 => /\ earlier \in 1..(i - 1) /\ same(earlier)
                     /\ \A j \in 1..(i - 1) : same(j) => j <= earlier
  <2>1. earlier # 0 => earlier \in 1..(i - 1) /\ same(earlier)
    BY <1>1, <1>3, <1>5
  <2>2. earlier # 0 => \A j \in 1..(i - 1) : same(j) => j <= earlier
    BY <1>1, <1>3, <1>4, <1>6, <2>1
  <2> QED
    BY <2>1, <2>2
<1> HIDE DEF earlier
<1> QED
  BY <1>7, <1>8 DEF same, earlier

\* Two relations of one pair of known events that are not the same kind.
Contrary(one, other, events) ==
    /\ KnownEnds(one, events) /\ one.source = other.source /\ one.target = other.target
    /\ one.kind # other.kind

\* The review, which compares each relation with the last of its pair, misses none.
LEMMA ContrariesFound ==
  ASSUME NEW S, NEW relations \in Seq(S), NEW events
  PROVE  (\E i \in DOMAIN relations :
            LET earlier == SamePairBefore(relations, i, events)
            IN KnownEnds(relations[i], events) /\ earlier # 0 /\ relations[earlier].kind # relations[i].kind)
         <=> \E one, other \in ToSet(relations) : Contrary(one, other, events)
<1> DEFINE Found(i) == LET earlier == SamePairBefore(relations, i, events)
                       IN /\ KnownEnds(relations[i], events) /\ earlier # 0
                          /\ relations[earlier].kind # relations[i].kind
           same(j, i) == /\ KnownEnds(relations[j], events)
                         /\ relations[j].source = relations[i].source
                         /\ relations[j].target = relations[i].target
           kind(i) == relations[i].kind
<1>1. DOMAIN relations = 1..Len(relations) /\ Len(relations) \in Nat
  OBVIOUS
<1>2. ASSUME NEW i \in DOMAIN relations
      PROVE  LET earlier == SamePairBefore(relations, i, events)
             IN /\ earlier = 0 => \A j \in 1..(i - 1) : ~same(j, i)
                /\ earlier # 0 => /\ earlier \in 1..(i - 1) /\ same(earlier, i)
                                  /\ \A j \in 1..(i - 1) : same(j, i) => j <= earlier
  BY EarlierIs
<1>3. ASSUME NEW i \in DOMAIN relations, Found(i)
      PROVE  \E one, other \in ToSet(relations) : Contrary(one, other, events)
  <2> DEFINE earlier == SamePairBefore(relations, i, events)
  <2>1. earlier # 0 /\ KnownEnds(relations[i], events) /\ kind(earlier) # kind(i)
    BY <1>3
  <2>2. earlier \in 1..(i - 1) /\ same(earlier, i)
    BY <1>2, <2>1
  <2>3. earlier \in DOMAIN relations
    BY <1>1, <2>2
  <2> HIDE DEF earlier
  <2>4. relations[earlier] \in ToSet(relations) /\ relations[i] \in ToSet(relations)
    BY <2>3 DEF ToSet
  <2>5. Contrary(relations[earlier], relations[i], events)
    BY <2>1, <2>2 DEF Contrary
  <2> QED
    BY <2>4, <2>5
<1>4. ASSUME NEW i \in DOMAIN relations, NEW j \in DOMAIN relations, i < j, same(i, j), kind(i) # kind(j)
      PROVE  \E m \in DOMAIN relations : Found(m)
  <2> DEFINE T == {m \in DOMAIN relations : i < m /\ same(i, m) /\ kind(m) # kind(i)}
  <2>1. T \in SUBSET Nat /\ j \in T
    BY <1>1, <1>4
  <2>2. PICK m \in T : \A n \in T : m <= n
    <3> HIDE DEF T
    <3> QED
      BY <2>1, LeastOf
  <2>3. m \in DOMAIN relations /\ i < m /\ same(i, m) /\ kind(m) # kind(i)
    BY <2>2
  <2> DEFINE earlier == SamePairBefore(relations, m, events)
  <2>4. i \in 1..(m - 1)
    BY <1>1, <2>3
  <2>5. earlier # 0 /\ earlier \in 1..(m - 1) /\ same(earlier, m) /\ i <= earlier
    BY <1>2, <2>3, <2>4
  <2>6. earlier \in DOMAIN relations /\ earlier < m
    BY <1>1, <2>3, <2>5
  <2> HIDE DEF earlier
  <2>7. kind(earlier) = kind(i)
    <3> SUFFICES ASSUME kind(earlier) # kind(i) PROVE FALSE
      OBVIOUS
    <3>1. earlier # i /\ i < earlier
      BY <1>1, <2>5, <2>6
    <3>2. same(i, earlier)
      BY <2>3, <2>5
    <3>3. earlier \in T
      BY <2>6, <3>1, <3>2
    <3> QED
      BY <1>1, <2>2, <2>3, <2>6, <3>3
  <2>8. KnownEnds(relations[m], events)
    BY <2>3 DEF KnownEnds
  <2> QED
    BY <2>3, <2>5, <2>7, <2>8 DEF earlier
<1>5. ASSUME NEW one \in ToSet(relations), NEW other \in ToSet(relations), Contrary(one, other, events)
      PROVE  \E m \in DOMAIN relations : Found(m)
  <2>1. PICK i \in DOMAIN relations : one = relations[i]
    BY DEF ToSet
  <2>2. PICK j \in DOMAIN relations : other = relations[j]
    BY DEF ToSet
  <2>3. i # j /\ kind(i) # kind(j) /\ same(i, j) /\ same(j, i)
    BY <1>5, <2>1, <2>2 DEF Contrary, KnownEnds
  <2>4. i < j \/ j < i
    BY <1>1, <2>3
  <2> HIDE DEF Found, same, kind
  <2> QED
    BY <1>4, <2>3, <2>4
<1> QED
  BY <1>3, <1>5

\* What is wrong with relations, and what is left open in them, whatever their order.
Faulty(relations, events, allowed) ==
    \/ \E r \in relations : ~KnownEnds(r, events)
    \/ \E r \in relations : ~(r.evidence \subseteq allowed)
    \/ \E one, other \in relations : Contrary(one, other, events)
    \/ HasCycle(EdgesOf({r \in relations : KnownEnds(r, events)}), events)

LeftOpen(relations) == \E r \in relations : r.kind = "UNKNOWN"

\* Every issue is of one of these.
LEMMA Gate3IssueHas ==
  ASSUME NEW code, NEW of
  PROVE  LET issue == Gate3Issue(code, of) IN
           /\ issue.code = code /\ issue.of = of
           /\ (issue.severity = Blocking) <=> (code # "AMBIGUOUS_ORDERING")
BY DEF Gate3Issue, Blocking, ReviewRequired

LEMMA Gate3IssuesAre ==
  ASSUME NEW relations, NEW events, NEW allowed, NEW issue
  PROVE  issue \in Gate3Issues(relations, events, allowed) <=>
           \/ \E i \in DOMAIN relations :
                \/ ~KnownEnds(relations[i], events) /\ issue = Gate3Issue("UNKNOWN_EVENT_REFERENCE", i)
                \/ /\ KnownEnds(relations[i], events) /\ ~(relations[i].evidence \subseteq allowed)
                   /\ issue = Gate3Issue("EVIDENCE_OUT_OF_SCOPE", i)
                \/ /\ KnownEnds(relations[i], events)
                   /\ SamePairBefore(relations, i, events) # 0
                   /\ relations[SamePairBefore(relations, i, events)].kind # relations[i].kind
                   /\ issue = Gate3Issue("CONFLICTING_RELATIONS", i)
                \/ /\ KnownEnds(relations[i], events) /\ relations[i].kind = "UNKNOWN"
                   /\ issue = Gate3Issue("AMBIGUOUS_ORDERING", i)
           \/ HasCycle(Edges(relations, events), events) /\ issue = Gate3Issue("TEMPORAL_CYCLE", 0)
<1> DEFINE wrong(i) == RelationIssues(relations, i, events, allowed)
           said(i) ==
             \/ ~KnownEnds(relations[i], events) /\ issue = Gate3Issue("UNKNOWN_EVENT_REFERENCE", i)
             \/ /\ KnownEnds(relations[i], events) /\ ~(relations[i].evidence \subseteq allowed)
                /\ issue = Gate3Issue("EVIDENCE_OUT_OF_SCOPE", i)
             \/ /\ KnownEnds(relations[i], events)
                /\ SamePairBefore(relations, i, events) # 0
                /\ relations[SamePairBefore(relations, i, events)].kind # relations[i].kind
                /\ issue = Gate3Issue("CONFLICTING_RELATIONS", i)
             \/ /\ KnownEnds(relations[i], events) /\ relations[i].kind = "UNKNOWN"
                /\ issue = Gate3Issue("AMBIGUOUS_ORDERING", i)
           all == UNION {wrong(i) : i \in DOMAIN relations}
           cycle == IF HasCycle(Edges(relations, events), events) THEN {Gate3Issue("TEMPORAL_CYCLE", 0)} ELSE {}
<1>1. Gate3Issues(relations, events, allowed) = all \cup cycle
  BY DEF Gate3Issues
<1>2. ASSUME NEW i \in DOMAIN relations
      PROVE  issue \in wrong(i) <=> said(i)
  BY DEF RelationIssues
<1> HIDE DEF wrong
<1>3. issue \in cycle <=>
        HasCycle(Edges(relations, events), events) /\ issue = Gate3Issue("TEMPORAL_CYCLE", 0)
  OBVIOUS
<1> HIDE DEF cycle, said
<1>4. issue \in Gate3Issues(relations, events, allowed) <=>
        \/ \E i \in DOMAIN relations : said(i)
        \/ HasCycle(Edges(relations, events), events) /\ issue = Gate3Issue("TEMPORAL_CYCLE", 0)
  <2>1. issue \in all <=> \E i \in DOMAIN relations : issue \in wrong(i)
    OBVIOUS
  <2>2. (\E i \in DOMAIN relations : issue \in wrong(i)) <=> \E i \in DOMAIN relations : said(i)
    BY <1>2
  <2> HIDE DEF all
  <2>3. issue \in Gate3Issues(relations, events, allowed) <=> issue \in all \/ issue \in cycle
    BY <1>1
  <2> QED
    BY <1>3, <2>1, <2>2, <2>3
<1> QED
  BY <1>4 DEF said

LEMMA EdgesAre ==
  ASSUME NEW relations, NEW events
  PROVE  Edges(relations, events) = EdgesOf({r \in ToSet(relations) : KnownEnds(r, events)})
<1> DEFINE R == ToSet(relations)
           known == {r \in R : KnownEnds(r, events)}
<1>1. Edges(relations, events) = {Edge(r) : r \in {r \in R : KnownEnds(r, events) /\ r.kind \in {"BEFORE", "AFTER"}}}
  BY DEF Edges
<1>2. EdgesOf(known) = {Edge(r) : r \in {r \in known : r.kind \in {"BEFORE", "AFTER"}}}
  BY DEF EdgesOf
<1>3. {r \in R : KnownEnds(r, events) /\ r.kind \in {"BEFORE", "AFTER"}} = {r \in known : r.kind \in {"BEFORE", "AFTER"}}
  OBVIOUS
<1> HIDE DEF R
<1> QED
  BY <1>1, <1>2, <1>3 DEF R

\* The decision is about the set of relations alone.
LEMMA Gate3Finds ==
  ASSUME NEW S, NEW relations \in Seq(S), NEW events, NEW allowed
  PROVE  LET issues == Gate3Issues(relations, events, allowed) IN
           /\ Severe(issues, Blocking) <=> Faulty(ToSet(relations), events, allowed)
           /\ (issues # {}) <=> (Faulty(ToSet(relations), events, allowed) \/ LeftOpen(ToSet(relations)))
<1> DEFINE issues == Gate3Issues(relations, events, allowed)
           R == ToSet(relations)
           known(i) == KnownEnds(relations[i], events)
           clash(i) == /\ known(i) /\ SamePairBefore(relations, i, events) # 0
                       /\ relations[SamePairBefore(relations, i, events)].kind # relations[i].kind
           bad(i) == known(i) /\ ~(relations[i].evidence \subseteq allowed)
           open(i) == known(i) /\ relations[i].kind = "UNKNOWN"
           cycle == HasCycle(Edges(relations, events), events)
           I == DOMAIN relations
<1>1. \A issue : issue \in issues <=>
          \/ \E i \in I :
                \/ ~known(i) /\ issue = Gate3Issue("UNKNOWN_EVENT_REFERENCE", i)
                \/ bad(i) /\ issue = Gate3Issue("EVIDENCE_OUT_OF_SCOPE", i)
                \/ clash(i) /\ issue = Gate3Issue("CONFLICTING_RELATIONS", i)
                \/ open(i) /\ issue = Gate3Issue("AMBIGUOUS_ORDERING", i)
          \/ cycle /\ issue = Gate3Issue("TEMPORAL_CYCLE", 0)
  BY Gate3IssuesAre
<1>2. \A r : r \in R <=> \E i \in I : r = relations[i]
  BY DEF ToSet
<1>3. (\E i \in I : ~known(i)) <=> (\E r \in R : ~KnownEnds(r, events))
  BY <1>2
<1>4. (\E i \in I : clash(i)) <=> (\E one, other \in R : Contrary(one, other, events))
  BY ContrariesFound
<1>5. cycle <=> HasCycle(EdgesOf({r \in R : KnownEnds(r, events)}), events)
  BY EdgesAre
<1>6. ((\E i \in I : ~known(i)) \/ (\E i \in I : bad(i))) <=>
        ((\E i \in I : ~known(i)) \/ (\E r \in R : ~(r.evidence \subseteq allowed)))
  BY <1>2
<1>7. Faulty(R, events, allowed) <=>
        ((\E i \in I : ~known(i)) \/ (\E i \in I : bad(i)) \/ (\E i \in I : clash(i)) \/ cycle)
  BY <1>3, <1>4, <1>5, <1>6 DEF Faulty
<1>8. (\E i \in I : ~known(i)) \/ ((\E i \in I : open(i)) <=> LeftOpen(R))
  BY <1>2 DEF LeftOpen
<1> HIDE DEF known, bad, clash, open, cycle, issues, I, R
<1>9. Severe(issues, Blocking) <=>
        ((\E i \in I : ~known(i)) \/ (\E i \in I : bad(i)) \/ (\E i \in I : clash(i)) \/ cycle)
  <2>1. \A code, of : (Gate3Issue(code, of).severity = Blocking) <=> (code # "AMBIGUOUS_ORDERING")
    BY Gate3IssueHas
  <2>2. ASSUME NEW issue \in issues, issue.severity = Blocking
        PROVE  (\E i \in I : ~known(i)) \/ (\E i \in I : bad(i)) \/ (\E i \in I : clash(i)) \/ cycle
    BY <1>1, <2>1, <2>2
  <2>3. ASSUME NEW i \in I, ~known(i) \/ bad(i) \/ clash(i)
        PROVE  \E issue \in issues : issue.severity = Blocking
    <3>1. /\ ~known(i) => Gate3Issue("UNKNOWN_EVENT_REFERENCE", i) \in issues
          /\ bad(i) => Gate3Issue("EVIDENCE_OUT_OF_SCOPE", i) \in issues
          /\ clash(i) => Gate3Issue("CONFLICTING_RELATIONS", i) \in issues
      BY <1>1
    <3>2. /\ Gate3Issue("UNKNOWN_EVENT_REFERENCE", i).severity = Blocking
          /\ Gate3Issue("EVIDENCE_OUT_OF_SCOPE", i).severity = Blocking
          /\ Gate3Issue("CONFLICTING_RELATIONS", i).severity = Blocking
      BY <2>1
    <3> QED
      BY <2>3, <3>1, <3>2
  <2>4. ASSUME cycle PROVE \E issue \in issues : issue.severity = Blocking
    <3>1. Gate3Issue("TEMPORAL_CYCLE", 0) \in issues
      BY <1>1, <2>4
    <3>2. Gate3Issue("TEMPORAL_CYCLE", 0).severity = Blocking
      BY <2>1
    <3> QED
      BY <3>1, <3>2
  <2> QED
    BY <2>2, <2>3, <2>4 DEF Severe
<1>10. (issues # {}) <=> \/ (\E i \in I : ~known(i)) \/ (\E i \in I : bad(i)) \/ (\E i \in I : clash(i)) \/ cycle
                         \/ (\E i \in I : open(i))
  <2>1. ASSUME NEW issue \in issues
        PROVE  \/ (\E i \in I : ~known(i)) \/ (\E i \in I : bad(i)) \/ (\E i \in I : clash(i)) \/ cycle
               \/ (\E i \in I : open(i))
    BY <1>1
  <2>2. \A i \in I : open(i) => Gate3Issue("AMBIGUOUS_ORDERING", i) \in issues
    BY <1>1
  <2>3. Severe(issues, Blocking) => issues # {}
    BY DEF Severe
  <2> QED
    BY <1>9, <2>1, <2>2, <2>3
<1> QED
  BY <1>7, <1>8, <1>9, <1>10 DEF issues, R

\* The result is what the issues say, unless the contract refuses it.
LEMMA Gate3ReviewIs ==
  ASSUME NEW S, NEW relations \in Seq(S), NEW events, NEW allowed
  PROVE  LET R == ToSet(relations)
             result == Gate3Review(relations, events, allowed)
         IN /\ Faulty(R, events, allowed) => result.decision = "REJECTED"
            /\ ~Faulty(R, events, allowed) /\ LeftOpen(R) => result.decision = "NEEDS_HUMAN_REVIEW"
            /\ ~Faulty(R, events, allowed) /\ ~LeftOpen(R) =>
                 result.decision = IF allowed = {} THEN "FAILED" ELSE "APPROVED"
            /\ result.decision = "NEEDS_HUMAN_REVIEW" <=> result.held # {}
            /\ result.decision # "FAILED" =>
                 result.codes = {issue.code : issue \in Gate3Issues(relations, events, allowed)}
<1> DEFINE R == ToSet(relations)
           result == Gate3Review(relations, events, allowed)
           issues == Gate3Issues(relations, events, allowed)
           decision == Gate3Decision(issues)
           refused == decision = "APPROVED" /\ ~TimelineBundleContract(relations, events, allowed)
           held == IF decision = "NEEDS_HUMAN_REVIEW" THEN {<<issue.code, issue.of>> : issue \in issues} ELSE {}
           codes == {issue.code : issue \in issues}
<1>1. result = IF refused THEN [decision |-> "FAILED", codes |-> {"REVIEW_EXECUTION_FAILED"}, held |-> {}]
               ELSE [decision |-> decision, codes |-> codes, held |-> held]
  BY DEF Gate3Review
<1>2. /\ Severe(issues, Blocking) <=> Faulty(R, events, allowed)
      /\ (issues # {}) <=> (Faulty(R, events, allowed) \/ LeftOpen(R))
  BY Gate3Finds
<1>3. ~Faulty(R, events, allowed) => (TimelineBundleContract(relations, events, allowed) <=> allowed # {})
  <2>1. \A i \in DOMAIN relations : relations[i] \in R
    BY DEF ToSet
  <2> QED
    BY <2>1 DEF Faulty, TimelineBundleContract
<1> HIDE DEF issues, R
<1>4. /\ Faulty(R, events, allowed) => decision = "REJECTED"
      /\ ~Faulty(R, events, allowed) /\ LeftOpen(R) => decision = "NEEDS_HUMAN_REVIEW"
      /\ ~Faulty(R, events, allowed) /\ ~LeftOpen(R) => decision = "APPROVED"
  BY <1>2 DEF Gate3Decision
<1>5. decision = "NEEDS_HUMAN_REVIEW" <=> held # {}
  <2>1. decision = "NEEDS_HUMAN_REVIEW" => issues # {}
    BY <1>2, <1>4
  <2> QED
    BY <2>1
<1> HIDE DEF decision, held, codes
<1>6. refused => result.decision = "FAILED" /\ result.held = {}
  BY <1>1
<1>7. ~refused => result.decision = decision /\ result.held = held /\ result.codes = codes
  BY <1>1
<1> HIDE DEF result
<1>8. Faulty(R, events, allowed) => result.decision = "REJECTED"
  BY <1>4, <1>7
<1>9. ~Faulty(R, events, allowed) /\ LeftOpen(R) => result.decision = "NEEDS_HUMAN_REVIEW"
  BY <1>4, <1>7
<1>10. ~Faulty(R, events, allowed) /\ ~LeftOpen(R) =>
         result.decision = IF allowed = {} THEN "FAILED" ELSE "APPROVED"
  BY <1>3, <1>4, <1>6, <1>7
<1>11. result.decision = "NEEDS_HUMAN_REVIEW" <=> result.held # {}
  BY <1>5, <1>6, <1>7
<1>12. result.decision # "FAILED" => result.codes = codes
  BY <1>6, <1>7
<1> QED
  BY <1>8, <1>9, <1>10, <1>11, <1>12 DEF result, R, codes, issues

\* The order has what BEFORE and AFTER say; nothing is asked of other kinds.
Fits(relations, events, order) ==
    \A r \in relations : /\ r.kind = "BEFORE" => order[r.source] < order[r.target]
                         /\ r.kind = "AFTER" => order[r.target] < order[r.source]

\* For events and relations of any number: what Gate 3 approves has no open pair, its BEFORE and
\* AFTER fit one order of the events, and so the StoryBible can order it too. SIMULTANEOUS and
\* OVERLAPS are in no edge of either graph (_issues of review_gate3_service.py) and
\* may contradict that order.
THEOREM Gate3Decides ==
  ASSUME NEW S, NEW relations \in Seq(S), NEW events, IsFiniteSet(events), NEW allowed, allowed # {}
  PROVE  LET R == ToSet(relations)
             result == Gate3Review(relations, events, allowed)
         IN /\ result.decision # "FAILED"
            /\ result.decision = "APPROVED" =>
                 /\ \E order \in [events -> 1..Cardinality(events)] : Fits(R, events, order)
                 /\ ~LeftOpen(R)
                 /\ ~Cyclic(Predecessors(events, R))
            /\ result.decision = "NEEDS_HUMAN_REVIEW" <=> result.held # {}
            /\ Gate3Review(Reverse(relations), events, allowed).decision = result.decision
<1> DEFINE R == ToSet(relations)
           result == Gate3Review(relations, events, allowed)
           again == Gate3Review(Reverse(relations), events, allowed)
<1>1. /\ Faulty(R, events, allowed) => result.decision = "REJECTED"
      /\ ~Faulty(R, events, allowed) /\ LeftOpen(R) => result.decision = "NEEDS_HUMAN_REVIEW"
      /\ ~Faulty(R, events, allowed) /\ ~LeftOpen(R) => result.decision = "APPROVED"
      /\ result.decision = "NEEDS_HUMAN_REVIEW" <=> result.held # {}
  BY Gate3ReviewIs
<1>2. Reverse(relations) \in Seq(S) /\ ToSet(Reverse(relations)) = R
  BY ReverseHas
<1>3. /\ Faulty(R, events, allowed) => again.decision = "REJECTED"
      /\ ~Faulty(R, events, allowed) /\ LeftOpen(R) => again.decision = "NEEDS_HUMAN_REVIEW"
      /\ ~Faulty(R, events, allowed) /\ ~LeftOpen(R) => again.decision = "APPROVED"
  <2> DEFINE other == Reverse(relations)
  <2>1. other \in Seq(S) /\ ToSet(other) = R
    BY <1>2
  <2> HIDE DEF other, R
  <2>2. /\ Faulty(ToSet(other), events, allowed) => Gate3Review(other, events, allowed).decision = "REJECTED"
        /\ ~Faulty(ToSet(other), events, allowed) /\ LeftOpen(ToSet(other)) =>
              Gate3Review(other, events, allowed).decision = "NEEDS_HUMAN_REVIEW"
        /\ ~Faulty(ToSet(other), events, allowed) /\ ~LeftOpen(ToSet(other)) =>
              Gate3Review(other, events, allowed).decision = "APPROVED"
    BY <2>1, Gate3ReviewIs
  <2> QED
    BY <2>1, <2>2 DEF other
<1> HIDE DEF result, again, R
<1>4. ASSUME result.decision = "APPROVED"
      PROVE  /\ \E order \in [events -> 1..Cardinality(events)] : Fits(R, events, order)
             /\ ~LeftOpen(R)
             /\ ~Cyclic(Predecessors(events, R))
  <2>1. ~Faulty(R, events, allowed) /\ ~LeftOpen(R)
    BY <1>1, <1>4
  <2>2. \A r \in R : KnownEnds(r, events)
    BY <2>1 DEF Faulty
  <2>3. {r \in R : KnownEnds(r, events)} = R
    BY <2>2
  <2>4. ~HasCycle(EdgesOf(R), events)
    BY <2>1, <2>3 DEF Faulty
  <2>5. Within(R, events)
    BY <2>2 DEF Within, KnownEnds
  <2>6. ~Cyclic(Predecessors(events, R))
    BY <2>4, <2>5, CyclesAgree
  <2> DEFINE edges == EdgesOf(R)
  <2>7. edges \in SUBSET (events \X events)
    BY <2>5, EdgesPrecede
  <2>8. PICK order \in [events -> 1..Cardinality(events)] : Along(order, edges)
    <3> HIDE DEF edges
    <3>1. ~HasCycle(edges, events)
      BY <2>4 DEF edges
    <3> QED
      BY <2>7, <3>1, OrderOf
  <2>9. Fits(R, events, order)
    BY <2>8, AlongIs DEF Fits
  <2> QED
    BY <2>1, <2>6, <2>8, <2>9
<1>5. result.decision # "FAILED" /\ again.decision = result.decision
  BY <1>1, <1>3
<1> QED
  BY <1>1, <1>4, <1>5 DEF result, again, R

\* Of relations that the agent makes, one of a pair, nothing but a cycle or an open pair is found
\* fault with, and a cycle only if no order fits their BEFORE and AFTER.
LEMMA Gate3BlamesCycles ==
  ASSUME NEW S, NEW relations \in Seq(S), NEW events, NEW allowed, allowed # {},
         \A i \in DOMAIN relations : KnownEnds(relations[i], events) /\ relations[i].evidence \subseteq allowed,
         \A i, j \in DOMAIN relations : i # j =>
            <<relations[i].source, relations[i].target>> # <<relations[j].source, relations[j].target>>
  PROVE  LET R == ToSet(relations)
             result == Gate3Review(relations, events, allowed)
         IN /\ result.codes \subseteq {"TEMPORAL_CYCLE", "AMBIGUOUS_ORDERING"}
            /\ result.decision = "REJECTED" => \A order \in [events -> Nat] : ~Fits(R, events, order)
<1> DEFINE R == ToSet(relations)
           result == Gate3Review(relations, events, allowed)
           I == DOMAIN relations
<1>1. \A r : r \in R <=> \E i \in I : r = relations[i]
  BY DEF ToSet
<1>2. \A one, other \in R : ~Contrary(one, other, events)
  <2> SUFFICES ASSUME NEW one \in R, NEW other \in R, Contrary(one, other, events) PROVE FALSE
    OBVIOUS
  <2>1. PICK i \in I : one = relations[i]
    BY <1>1
  <2>2. PICK j \in I : other = relations[j]
    BY <1>1
  <2>3. i # j
    BY <2>1, <2>2 DEF Contrary
  <2> QED
    BY <2>1, <2>2, <2>3 DEF Contrary
<1>3. \A r \in R : KnownEnds(r, events) /\ r.evidence \subseteq allowed
  BY <1>1
<1>4. {r \in R : KnownEnds(r, events)} = R
  BY <1>3
<1>5. Faulty(R, events, allowed) <=> HasCycle(EdgesOf(R), events)
  BY <1>2, <1>3, <1>4 DEF Faulty
<1>6. /\ ~Faulty(R, events, allowed) => result.decision # "REJECTED"
      /\ result.decision # "FAILED" /\ result.codes = {issue.code : issue \in Gate3Issues(relations, events, allowed)}
  <2>1. /\ Faulty(R, events, allowed) => result.decision = "REJECTED"
        /\ ~Faulty(R, events, allowed) /\ LeftOpen(R) => result.decision = "NEEDS_HUMAN_REVIEW"
        /\ ~Faulty(R, events, allowed) /\ ~LeftOpen(R) => result.decision = "APPROVED"
        /\ result.decision # "FAILED" =>
             result.codes = {issue.code : issue \in Gate3Issues(relations, events, allowed)}
    BY Gate3ReviewIs
  <2> HIDE DEF result, R
  <2> QED
    BY <2>1
<1>7. ASSUME NEW issue \in Gate3Issues(relations, events, allowed)
      PROVE  issue.code \in {"TEMPORAL_CYCLE", "AMBIGUOUS_ORDERING"}
  <2>1. \A i \in I : ~(/\ SamePairBefore(relations, i, events) # 0
                       /\ relations[SamePairBefore(relations, i, events)].kind # relations[i].kind)
    BY <1>2, ContrariesFound
  <2>2. \/ \E i \in I : issue = Gate3Issue("AMBIGUOUS_ORDERING", i)
        \/ issue = Gate3Issue("TEMPORAL_CYCLE", 0)
    BY <2>1, Gate3IssuesAre
  <2> QED
    BY <2>2 DEF Gate3Issue
<1>8. ASSUME HasCycle(EdgesOf(R), events), NEW order \in [events -> Nat], Fits(R, events, order)
      PROVE  FALSE
  <2> DEFINE edges == EdgesOf(R)
  <2>1. Along(order, edges) /\ HasCycle(edges, events)
    BY <1>8, AlongIs DEF Fits
  <2> HIDE DEF edges
  <2> QED
    BY <2>1, OrderRefutes
<1> HIDE DEF result, R
<1> QED
  BY <1>5, <1>6, <1>7, <1>8 DEF result, R

LEMMA Bounded ==
  ASSUME NEW S, NEW n \in Nat, NEW s \in BoundedSeq(S, n)
  PROVE  s \in Seq(S) /\ Len(s) <= n
<1>1. PICK m \in 0..n : s \in [1..m -> S]
  BY DEF BoundedSeq, SeqOf
<1>2. m \in Nat /\ m <= n
  OBVIOUS
<1> QED
  BY <1>1, <1>2

TemporalRelations == KnownRelations \cup OddRelations

LEMMA RelationHas ==
  ASSUME NEW r \in TemporalRelations
  PROVE  r.source \in Nat /\ r.target \in Nat /\ r.source > 0 /\ r.target > 0
<1>1. \A s, t, k, e : TemporalRelation(s, t, k, e).source = s /\ TemporalRelation(s, t, k, e).target = t
  BY DEF TemporalRelation
<1>2. CASE r \in KnownRelations
  <2> DEFINE Ends == {p \in (1..3) \X (1..3) : p[1] # p[2]}
             one == {1}
             kinds == {"BEFORE", "AFTER", "SIMULTANEOUS", "UNKNOWN"}
  <2>1. PICK pair \in Ends, kind \in kinds : r = TemporalRelation(pair[1], pair[2], kind, one)
    BY <1>2 DEF KnownRelations
  <2>2. pair[1] \in 1..3 /\ pair[2] \in 1..3
    OBVIOUS
  <2> HIDE DEF Ends, one, kinds
  <2>3. r.source = pair[1] /\ r.target = pair[2]
    BY <1>1, <2>1
  <2> QED
    BY <2>2, <2>3
<1>3. CASE r \in OddRelations
  <2>1. r = TemporalRelation(1, 4, "BEFORE", {1}) \/ r = TemporalRelation(1, 2, "BEFORE", {2})
    BY <1>3 DEF OddRelations
  <2>2. r.source = 1 /\ (r.target = 4 \/ r.target = 2)
    BY <2>1 DEF TemporalRelation
  <2> QED
    BY <2>2
<1> QED
  BY <1>2, <1>3 DEF TemporalRelations

\* What is asked about Gate 3, and answered.
Gate3IsAsked ==
    topic = "gate3" =>
        /\ question.relations \in Seq(TemporalRelations)
        /\ answered => answer = Gate3Asked(question.relations)

LEMMA Gate3Questions == Spec => []Gate3IsAsked
<1>1. Init => Gate3IsAsked
  <2> SUFFICES ASSUME Init, topic = "gate3" PROVE Gate3IsAsked
    BY DEF Gate3IsAsked
  <2>1. AskGate3 /\ ~answered
    BY Topics
  <2>2. PICK relations \in BoundedSeq(TemporalRelations, 3) : Ask("gate3", [relations |-> relations])
    BY <2>1 DEF AskGate3, TemporalRelations
  <2>3. question.relations = relations
    BY <2>2 DEF Ask
  <2>4. relations \in Seq(TemporalRelations)
    <3> DEFINE three == 3
    <3>1. three \in Nat /\ relations \in BoundedSeq(TemporalRelations, three)
      OBVIOUS
    <3> HIDE DEF three
    <3> QED
      BY <3>1, Bounded
  <2> QED
    BY <2>1, <2>3, <2>4 DEF Gate3IsAsked
<1>2. Gate3IsAsked /\ [Next]_vars => Gate3IsAsked'
  <2> SUFFICES ASSUME Gate3IsAsked, [Next]_vars, topic' = "gate3" PROVE Gate3IsAsked'
    BY DEF Gate3IsAsked
  <2>1. CASE UNCHANGED vars
    BY <2>1 DEF vars, Gate3IsAsked
  <2>2. CASE Next
    <3>1. topic = "gate3" /\ question' = question /\ AnswerGate3
      BY <2>2, Topics
    <3>2. answer' = Gate3Asked(question.relations)
      BY <3>1 DEF AnswerGate3
    <3> QED
      BY <3>1, <3>2 DEF Gate3IsAsked
  <2> QED
    BY <2>1, <2>2
<1> QED
  BY <1>1, <1>2, PTL DEF Spec

\* Gate 3 approves only a Timeline that could have happened and that the
\* StoryBible can order, whatever the order of its relations; by the lemmas
\* for any events and relations (ReviewGate3Service._issues, _has_cycle).
THEOREM Gate3IsSound == Spec => []Gate3Sound
<1> DEFINE events == 1..3
           allowed == {1}
<1>1. IsFiniteSet(events) /\ Cardinality(events) = 3
  <2>1. 1 \in Int /\ 3 \in Int
    OBVIOUS
  <2> HIDE DEF IsFiniteSet, Cardinality
  <2>2. /\ IsFiniteSet(1..3)
        /\ Cardinality(1..3) = IF 1 > 3 THEN 0 ELSE 3 - 1 + 1
    BY <2>1, FS_Interval
  <2> QED
    BY <2>2
<1>2. allowed # {}
  OBVIOUS
<1>3. Gate3IsAsked => Gate3Sound
  <2> SUFFICES ASSUME Gate3IsAsked, topic = "gate3", answered PROVE Gate3Sound
    BY DEF Gate3Sound, Replied
  <2> DEFINE relations == question.relations
             R == ToSet(relations)
  <2>1. relations \in Seq(TemporalRelations) /\ answer = Gate3Review(relations, events, allowed)
    BY DEF Gate3IsAsked, Gate3Asked
  <2>2. \A r : r \in R <=> \E i \in DOMAIN relations : r = relations[i]
    BY DEF ToSet
  <2>3. Gate3Asked(Reverse(relations)) = Gate3Review(Reverse(relations), events, allowed)
    BY DEF Gate3Asked
  <2> HIDE DEF relations, events, allowed
  <2>4. /\ answer.decision # "FAILED"
        /\ answer.decision = "APPROVED" =>
             /\ \E order \in [events -> 1..Cardinality(events)] : Fits(R, events, order)
             /\ ~LeftOpen(R)
             /\ ~Cyclic(Predecessors(events, R))
        /\ answer.decision = "NEEDS_HUMAN_REVIEW" <=> answer.held # {}
        /\ Gate3Asked(Reverse(relations)).decision = answer.decision
    BY <1>1, <1>2, <2>1, <2>3, Gate3Decides
  <2> HIDE DEF R
  <2>5. \A order : Fits(R, events, order) <=>
          \A i \in DOMAIN relations :
            /\ relations[i].kind = "BEFORE" => order[relations[i].source] < order[relations[i].target]
            /\ relations[i].kind = "AFTER" => order[relations[i].target] < order[relations[i].source]
    BY <2>2 DEF Fits
  <2>6. Orderable(relations) <=> \E order \in [events -> 1..3] : Fits(R, events, order)
    BY <2>5 DEF Orderable, events
  <2>7. ASSUME FromAgent(relations)
        PROVE  /\ answer.codes \subseteq {"TEMPORAL_CYCLE", "AMBIGUOUS_ORDERING"}
               /\ answer.decision = "REJECTED" => ~Orderable(relations)
    <3>1. ASSUME NEW i \in DOMAIN relations
          PROVE  KnownEnds(relations[i], events) /\ relations[i].evidence \subseteq allowed
      <4>1. /\ relations[i].source < relations[i].target /\ relations[i].target <= 3
            /\ relations[i].evidence \subseteq allowed
        BY <2>7 DEF FromAgent, allowed
      <4>2. relations[i] \in TemporalRelations
        BY <2>1
      <4> DEFINE source == relations[i].source
                 target == relations[i].target
      <4>3. source \in Nat /\ target \in Nat /\ source > 0 /\ target > 0
        BY <4>2, RelationHas
      <4>4. source < target /\ target <= 3
        BY <4>1
      <4> HIDE DEF source, target
      <4>5. source \in events /\ target \in events
        BY <4>3, <4>4 DEF events
      <4> QED
        BY <4>1, <4>5 DEF KnownEnds, source, target
    <3>2. \A i, j \in DOMAIN relations : i # j =>
            <<relations[i].source, relations[i].target>> # <<relations[j].source, relations[j].target>>
      BY <2>7 DEF FromAgent
    <3>3. /\ answer.codes \subseteq {"TEMPORAL_CYCLE", "AMBIGUOUS_ORDERING"}
          /\ answer.decision = "REJECTED" => \A order \in [events -> Nat] : ~Fits(R, events, order)
      BY <1>2, <2>1, <3>1, <3>2, Gate3BlamesCycles DEF R
    <3>4. \A order \in [events -> 1..3] : order \in [events -> Nat]
      OBVIOUS
    <3> QED
      BY <2>6, <3>3, <3>4
  <2>8. LeftOpen(R) <=> \E i \in DOMAIN relations : relations[i].kind = "UNKNOWN"
    BY <2>2 DEF LeftOpen
  <2>9. answer.decision = "APPROVED" =>
          /\ Orderable(relations)
          /\ \A i \in DOMAIN relations : relations[i].kind # "UNKNOWN"
          /\ ~Cyclic(Predecessors(1..3, ToSet(relations)))
    BY <1>1, <2>4, <2>6, <2>8 DEF R, events
  <2> QED
    BY <2>4, <2>7, <2>9 DEF Gate3Sound, relations
<1> QED
  BY <1>3, Gate3Questions, PTL

\* Rounding is off by half at most, and by half only if the rest is half.
LEMMA RoundedNear ==
  ASSUME NEW n \in Nat, NEW d \in Positive
  PROVE  LET near == Rounded(n, d) IN
           /\ near \in Nat /\ d * near \in Nat
           /\ 2 * (d * near) <= 2 * n + d /\ 2 * n <= 2 * (d * near) + d
           /\ 2 * (d * near) = 2 * n + d \/ 2 * n = 2 * (d * near) + d => 2 * (n % d) = d
<1> DEFINE q == n \div d
           r == n % d
           near == Rounded(n, d)
<1>1. /\ q \in Nat /\ r \in 0..(d - 1) /\ d * q \in Nat /\ n = d * q + r
      /\ d \in Nat /\ d > 0
  BY Division DEF Positive
<1>2. near = CASE 2 * r < d -> q [] 2 * r > d -> q + 1 [] OTHER -> q + (q % 2)
  BY DEF Rounded
<1> HIDE DEF q, r, near
<1>3. q + 1 \in Nat /\ d * (q + 1) = d * q + d
  BY <1>1, Multiples
<1>4. q % 2 \in {0, 1}
  BY <1>1
<1>5. near = q \/ near = q + 1
  BY <1>1, <1>2, <1>4
<1>6. near \in Nat /\ d * near \in Nat /\ (d * near = n - r \/ d * near = (n - r) + d)
  BY <1>1, <1>3, <1>5
<1>7. CASE 2 * r < d
  <2>1. near = q
    BY <1>1, <1>2, <1>7
  <2>2. d * near = n - r
    BY <1>1, <2>1
  <2> QED
    BY <1>1, <1>6, <1>7, <2>2 DEF near, r
<1>8. CASE 2 * r > d
  <2>1. near = q + 1
    BY <1>1, <1>2, <1>8
  <2>2. d * near = (n - r) + d
    BY <1>1, <1>3, <2>1
  <2> QED
    BY <1>1, <1>6, <1>8, <2>2 DEF near, r
<1>9. CASE 2 * r = d
  BY <1>1, <1>6, <1>9 DEF near, r
<1> QED
  BY <1>1, <1>7, <1>8, <1>9

\* Where a sample of a longer sequence looks: from the first place to the last, always farther on,
\* and never by more than the spread of the rest.
SampledAt(i, length, limit) == Rounded((i - 1) * (length - 1), limit - 1) + 1

LEMMA SampleSpreads ==
  ASSUME NEW length \in Nat, NEW limit \in Nat, 1 < limit, limit < length
  PROVE  /\ SampledAt(1, length, limit) = 1 /\ SampledAt(limit, length, limit) = length
         /\ \A i \in 1..limit : SampledAt(i, length, limit) \in 1..length
         /\ \A i, j \in 1..limit : i < j => SampledAt(i, length, limit) < SampledAt(j, length, limit)
         /\ \A i \in 1..(limit - 1) :
              (SampledAt(i + 1, length, limit) - SampledAt(i, length, limit)) * (limit - 1)
                < (length - 1) + (limit - 1)
<1> DEFINE d == limit - 1
           m == length - 1
           n(i) == (i - 1) * m
           R(i) == Rounded(n(i), d)
<1>1. d \in Positive /\ d \in Nat /\ m \in Nat /\ d < m /\ d > 0
  BY DEF Positive
<1>2. \A i \in 1..limit : n(i) \in Nat /\ n(i) = m * (i - 1)
  <2> SUFFICES ASSUME NEW i \in 1..limit PROVE n(i) \in Nat /\ n(i) = m * (i - 1)
    OBVIOUS
  <2>1. i - 1 \in Nat
    OBVIOUS
  <2> DEFINE k == i - 1
  <2>2. k \in Nat /\ n(i) = k * m
    BY <2>1
  <2> HIDE DEF k, m, n
  <2>3. m * k \in Nat /\ k * m = m * k
    BY <1>1, <2>2
  <2> QED
    BY <2>2, <2>3 DEF k
<1>3. \A i \in 1..limit : SampledAt(i, length, limit) = R(i) + 1
  BY DEF SampledAt
<1> HIDE DEF d, m, n
<1>4. ASSUME NEW i \in 1..limit
      PROVE  /\ R(i) \in Nat /\ d * R(i) \in Nat /\ n(i) \in Nat
             /\ 2 * (d * R(i)) <= 2 * n(i) + d /\ 2 * n(i) <= 2 * (d * R(i)) + d
             /\ 2 * (d * R(i)) = 2 * n(i) + d \/ 2 * n(i) = 2 * (d * R(i)) + d => 2 * (n(i) % d) = d
  <2> DEFINE x == n(i)
  <2>1. x \in Nat
    BY <1>2
  <2> HIDE DEF x
  <2>2. LET near == Rounded(x, d) IN
           /\ near \in Nat /\ d * near \in Nat
           /\ 2 * (d * near) <= 2 * x + d /\ 2 * x <= 2 * (d * near) + d
           /\ 2 * (d * near) = 2 * x + d \/ 2 * x = 2 * (d * near) + d => 2 * (x % d) = d
    BY <1>1, <2>1, RoundedNear
  <2> QED
    BY <2>1, <2>2 DEF x
<1> HIDE DEF R
<1>5. /\ n(1) = 0 /\ n(limit) = d * m
      /\ \A i \in 1..(limit - 1) : n(i + 1) = n(i) + m
      /\ \A i, j \in 1..limit : i < j => n(i) + m <= n(j)
  <2>1. 1 \in 1..limit /\ limit \in 1..limit /\ m * 0 = 0 /\ m * d = d * m
    BY <1>1
  <2>2. n(1) = 0
    <3>1. 1 - 1 = 0
      OBVIOUS
    <3> QED
      BY <1>2, <2>1, <3>1
  <2>3. n(limit) = d * m
    BY <1>2, <2>1 DEF d
  <2>4. ASSUME NEW i \in 1..(limit - 1) PROVE n(i + 1) = n(i) + m
    <3> DEFINE k == i - 1
    <3>1. k \in Nat /\ i \in 1..limit /\ i + 1 \in 1..limit /\ (i + 1) - 1 = k + 1
      OBVIOUS
    <3>2. n(i) = m * k
      BY <1>2, <3>1
    <3>3. n(i + 1) = m * (k + 1)
      BY <1>2, <3>1
    <3> HIDE DEF k
    <3>4. m * (k + 1) = m * k + m
      BY <1>1, <3>1, Multiples
    <3> QED
      BY <3>2, <3>3, <3>4
  <2>5. ASSUME NEW i \in 1..limit, NEW j \in 1..limit, i < j PROVE n(i) + m <= n(j)
    <3> DEFINE k == i - 1
               l == j - 1
    <3>1. k \in Nat /\ l \in Nat /\ k + 1 \in Nat /\ k + 1 <= l
      BY <2>5
    <3>2. n(i) = m * k /\ n(j) = m * l
      BY <1>2
    <3> HIDE DEF k, l
    <3>3. m * (k + 1) = m * k + m
      BY <1>1, <3>1, Multiples
    <3>4. m * (k + 1) <= m * l
      BY <1>1, <3>1, Multiples
    <3> QED
      BY <3>2, <3>3, <3>4
  <2> QED
    BY <2>2, <2>3, <2>4, <2>5
\* A product with the divisor tells numbers apart.
<1>6. \A a, b \in Nat : a < b => d * a + d <= d * b
  <2> SUFFICES ASSUME NEW a \in Nat, NEW b \in Nat, a < b PROVE d * a + d <= d * b
    OBVIOUS
  <2>1. a + 1 \in Nat /\ a + 1 <= b
    OBVIOUS
  <2>2. d * (a + 1) = d * a + d
    BY <1>1, Multiples
  <2>3. d * (a + 1) <= d * b
    BY <1>1, <2>1, Multiples
  <2> QED
    BY <2>2, <2>3
<1>7. R(1) = 0
  <2>1. 1 \in 1..limit /\ 0 \in Nat /\ d * 0 = 0
    BY <1>1
  <2>2. 2 * (d * R(1)) <= d /\ R(1) \in Nat /\ d * R(1) \in Nat
    <3>1. R(1) \in Nat /\ d * R(1) \in Nat /\ 2 * (d * R(1)) <= 2 * n(1) + d
      BY <1>4, <2>1
    <3>2. n(1) = 0 /\ 2 * 0 + d = d
      BY <1>1, <1>5
    <3> QED
      BY <3>1, <3>2
  <2>3. 0 < R(1) => d * 0 + d <= d * R(1)
    BY <1>6, <2>1, <2>2
  <2> QED
    BY <1>1, <2>1, <2>2, <2>3
<1>8. \A i \in 1..limit : R(i) <= m
  <2> SUFFICES ASSUME NEW i \in 1..limit, m < R(i) PROVE FALSE
    BY <1>1, <1>4
  <2>1. limit \in 1..limit /\ d * m \in Nat
    BY <1>1, Multiples
  <2>2. n(i) <= d * m
    <3>1. i < limit => n(i) + m <= n(limit)
      BY <1>5, <2>1
    <3>2. n(limit) = d * m /\ n(i) \in Nat /\ (i < limit \/ i = limit)
      BY <1>4, <1>5
    <3> QED
      BY <1>1, <2>1, <3>1, <3>2
  <2>3. d * m + d <= d * R(i)
    BY <1>1, <1>4, <1>6
  <2> QED
    BY <1>1, <1>4, <2>1, <2>2, <2>3
<1>9. R(limit) = m
  <2>1. limit \in 1..limit /\ d * m \in Nat
    BY <1>1, Multiples
  <2>2. /\ R(limit) \in Nat /\ d * R(limit) \in Nat
        /\ 2 * (d * m) <= 2 * (d * R(limit)) + d /\ R(limit) <= m
    BY <1>4, <1>5, <1>8, <2>1
  <2>3. R(limit) < m => d * R(limit) + d <= d * m
    BY <1>1, <1>6, <2>2
  <2> QED
    BY <1>1, <2>1, <2>2, <2>3
<1>10. ASSUME NEW i \in 1..limit, NEW j \in 1..limit, i < j PROVE R(i) < R(j)
  <2> SUFFICES ASSUME ~(R(i) < R(j)) PROVE FALSE
    OBVIOUS
  <2>1. R(i) \in Nat /\ R(j) \in Nat /\ d * R(i) \in Nat /\ d * R(j) \in Nat /\ n(i) \in Nat /\ n(j) \in Nat
    BY <1>4
  <2>2. R(j) <= R(i)
    BY <2>1
  <2>3. d * R(j) <= d * R(i)
    BY <1>1, <2>1, <2>2, Multiples
  <2>4. 2 * (d * R(i)) <= 2 * n(i) + d /\ 2 * n(j) <= 2 * (d * R(j)) + d
    BY <1>4
  <2>5. n(i) + m <= n(j)
    BY <1>5, <1>10
  <2> QED
    BY <1>1, <2>1, <2>3, <2>4, <2>5
<1>11. ASSUME NEW i \in 1..(limit - 1) PROVE (R(i + 1) - R(i)) * d < m + d
  <2> DEFINE step == R(i + 1) - R(i)
             rest == n(i)
  <2>1. i \in 1..limit /\ i + 1 \in 1..limit /\ i < i + 1 /\ i - 1 \in Nat
    OBVIOUS
  <2>2. /\ R(i) \in Nat /\ R(i + 1) \in Nat /\ d * R(i) \in Nat /\ d * R(i + 1) \in Nat
        /\ rest \in Nat /\ n(i + 1) = rest + m
        /\ 2 * (d * R(i + 1)) <= 2 * (rest + m) + d
        /\ 2 * rest <= 2 * (d * R(i)) + d
        /\ 2 * rest = 2 * (d * R(i)) + d => 2 * (rest % d) = d
    BY <1>4, <1>5, <2>1
  <2>3. step \in Nat /\ step > 0 /\ R(i + 1) = R(i) + step
    BY <1>10, <2>1, <2>2
  <2>4. step * d = d * R(i + 1) - d * R(i) /\ d * step \in Nat /\ step * d = d * step
    <3> HIDE DEF step
    <3>1. d * (R(i) + step) = d * R(i) + d * step
      BY <1>1, <2>2, <2>3
    <3>2. d * step \in Nat /\ step * d = d * step
      BY <1>1, <2>3
    <3> QED
      BY <2>2, <2>3, <3>1, <3>2
  <2> HIDE DEF step
  <2>5. step * d <= m + d
    BY <1>1, <2>2, <2>4
  <2>6. step * d # m + d
    <3> SUFFICES ASSUME step * d = m + d PROVE FALSE
      OBVIOUS
    <3>1. 2 * rest = 2 * (d * R(i)) + d
      BY <1>1, <2>2, <2>4
    <3>2. 2 * (rest % d) = d
      BY <2>2, <3>1
    <3> DEFINE s == step - 1
               k == i - 1
    <3>3. s \in Nat /\ k \in Nat /\ step = s + 1
      BY <2>1, <2>3
    <3>4. rest = m * k
      BY <1>2, <2>1
    <3> HIDE DEF s, k
    <3>5. d * (s + 1) = d * s + d
      BY <1>1, <3>3, Multiples
    <3>6. m = d * s
      <4>1. d * s \in Nat
        BY <1>1, <3>3, Multiples
      <4> QED
        BY <1>1, <2>4, <3>3, <3>5, <4>1
    <3>7. s * k \in Nat /\ rest = d * (s * k) + 0
      <4>1. s * k \in Nat
        BY <3>3, Multiples
      <4>2. (d * s) * k = d * (s * k)
        BY <1>1, <3>3
      <4>3. d * (s * k) \in Nat
        BY <1>1, <4>1, Multiples
      <4> QED
        BY <3>4, <3>6, <4>1, <4>2, <4>3
    <3> HIDE DEF rest
    <3>8. 0 \in 0..(d - 1)
      BY <1>1
    <3>9. 0 = rest % d
      <4> DEFINE t == s * k
      <4>1. t \in Nat /\ rest = d * t + 0 /\ rest \in Nat
        BY <2>2, <3>7
      <4> HIDE DEF t
      <4> QED
        BY <1>1, <3>8, <4>1, DivisionOnce
    <3> QED
      BY <1>1, <3>2, <3>9
  <2> QED
    BY <1>1, <2>4, <2>5, <2>6 DEF step
<1>12. 1 \in 1..limit /\ limit \in 1..limit
  OBVIOUS
<1>13. \A i \in 1..limit : SampledAt(i, length, limit) \in 1..length
  <2> SUFFICES ASSUME NEW i \in 1..limit PROVE SampledAt(i, length, limit) \in 1..length
    OBVIOUS
  <2>1. R(i) \in Nat /\ R(i) <= m
    BY <1>4, <1>8
  <2> QED
    BY <1>3, <2>1 DEF m
<1>14. SampledAt(1, length, limit) = 1 /\ SampledAt(limit, length, limit) = length
  BY <1>3, <1>7, <1>9, <1>12 DEF m
<1>15. ASSUME NEW i \in 1..limit, NEW j \in 1..limit, i < j
       PROVE  SampledAt(i, length, limit) < SampledAt(j, length, limit)
  <2>1. R(i) \in Nat /\ R(j) \in Nat /\ R(i) < R(j)
    BY <1>4, <1>10, <1>15
  <2> QED
    BY <1>3, <2>1
<1>16. ASSUME NEW i \in 1..(limit - 1)
       PROVE  (SampledAt(i + 1, length, limit) - SampledAt(i, length, limit)) * (limit - 1)
                < (length - 1) + (limit - 1)
  <2>1. i \in 1..limit /\ i + 1 \in 1..limit
    OBVIOUS
  <2>2. R(i) \in Nat /\ R(i + 1) \in Nat
    BY <1>4, <2>1
  <2>3. SampledAt(i + 1, length, limit) - SampledAt(i, length, limit) = R(i + 1) - R(i)
    BY <1>3, <2>1, <2>2
  <2> QED
    BY <1>11, <2>3 DEF d, m
<1> QED
  BY <1>13, <1>14, <1>15, <1>16

\* A sequence that names nothing twice has as many elements as places.
LEMMA ElementsCounted ==
  ASSUME NEW S, NEW s \in Seq(S), OneByOne(s)
  PROVE  IsFiniteSet(ToSet(s)) /\ Cardinality(ToSet(s)) = Len(s)
<1> DEFINE I == 1..Len(s)
           T == ToSet(s)
<1>1. Len(s) \in Nat /\ DOMAIN s = I
  OBVIOUS
<1>2. s \in Bijection(I, T)
  <2>1. s \in [I -> T]
    BY <1>1 DEF ToSet
  <2>2. \A x, y \in I : s[x] = s[y] => x = y
    BY <1>1 DEF OneByOne
  <2>3. \A t \in T : \E x \in I : s[x] = t
    BY <1>1 DEF ToSet
  <2> HIDE DEF I, T
  <2> QED
    BY <1>1, <2>1, <2>2, <2>3 DEF Bijection, Injection, Surjection, IsInjective
<1>3. IsFiniteSet(I) /\ Cardinality(I) = Len(s)
  <2>1. 1 \in Int /\ Len(s) \in Int
    BY <1>1
  <2> HIDE DEF IsFiniteSet, Cardinality
  <2>2. /\ IsFiniteSet(1..Len(s))
        /\ Cardinality(1..Len(s)) = IF 1 > Len(s) THEN 0 ELSE Len(s) - 1 + 1
    BY <2>1, FS_Interval
  <2> QED
    BY <1>1, <2>2
<1> HIDE DEF I, T
<1>4. ExistsBijection(I, T)
  BY <1>2 DEF ExistsBijection
<1> QED
  BY <1>3, <1>4, FS_Bijection DEF T

LEMMA Joined ==
  ASSUME NEW S, NEW s \in Seq(S), NEW t \in Seq(S)
  PROVE  /\ s \o t \in Seq(S) /\ Len(s \o t) = Len(s) + Len(t)
         /\ ToSet(s \o t) = ToSet(s) \cup ToSet(t)
         /\ OneByOne(s) /\ OneByOne(t) /\ ToSet(s) \cap ToSet(t) = {} => OneByOne(s \o t)
<1> DEFINE u == s \o t
           n == Len(s)
           m == Len(t)
<1>1. /\ u \in Seq(S) /\ Len(u) = n + m /\ n \in Nat /\ m \in Nat
      /\ DOMAIN u = 1..(n + m) /\ DOMAIN s = 1..n /\ DOMAIN t = 1..m
  OBVIOUS
<1>2. \A i \in 1..n : u[i] = s[i]
  OBVIOUS
<1>3. \A i \in 1..(n + m) : i > n => u[i] = t[i - n]
  OBVIOUS
<1>4. \A i \in 1..m : u[n + i] = t[i] /\ n + i \in 1..(n + m)
  BY <1>1, <1>3
<1> HIDE DEF u, n, m
<1>5. ASSUME NEW x PROVE x \in ToSet(u) <=> x \in ToSet(s) \/ x \in ToSet(t)
  <2>1. ASSUME NEW i \in 1..(n + m), x = u[i] PROVE x \in ToSet(s) \/ x \in ToSet(t)
    <3>1. i \in 1..n \/ (i > n /\ i - n \in 1..m)
      BY <1>1
    <3> QED
      BY <1>1, <1>2, <1>3, <2>1, <3>1 DEF ToSet
  <2>2. ASSUME NEW i \in 1..n, x = s[i] PROVE x \in ToSet(u)
    <3>1. i \in 1..(n + m)
      BY <1>1
    <3> QED
      BY <1>1, <1>2, <2>2, <3>1 DEF ToSet
  <2>3. ASSUME NEW i \in 1..m, x = t[i] PROVE x \in ToSet(u)
    BY <1>1, <1>4, <2>3 DEF ToSet
  <2> QED
    BY <1>1, <2>1, <2>2, <2>3 DEF ToSet
<1>6. ASSUME OneByOne(s), OneByOne(t), ToSet(s) \cap ToSet(t) = {}, NEW i \in DOMAIN u, NEW j \in DOMAIN u, u[i] = u[j]
      PROVE  i = j
  <2>1. /\ i \in 1..(n + m) /\ j \in 1..(n + m)
        /\ i \in 1..n \/ (i > n /\ i - n \in 1..m)
        /\ j \in 1..n \/ (j > n /\ j - n \in 1..m)
    BY <1>1
  <2>2. ASSUME NEW k \in 1..n, NEW l \in 1..m PROVE s[k] # t[l]
    BY <1>1, <1>6 DEF ToSet
  <2>3. CASE i \in 1..n /\ j \in 1..n
    BY <1>1, <1>2, <1>6, <2>3 DEF OneByOne
  <2>4. CASE i > n /\ i - n \in 1..m /\ j > n /\ j - n \in 1..m
    <3>1. t[i - n] = t[j - n]
      BY <1>3, <1>6, <2>1, <2>4
    <3>2. i - n = j - n
      BY <1>1, <1>6, <2>4, <3>1 DEF OneByOne
    <3> QED
      BY <1>1, <2>1, <3>2
  <2>5. CASE i \in 1..n /\ j > n /\ j - n \in 1..m
    BY <1>2, <1>3, <1>6, <2>1, <2>2, <2>5
  <2>6. CASE j \in 1..n /\ i > n /\ i - n \in 1..m
    BY <1>2, <1>3, <1>6, <2>1, <2>2, <2>6
  <2> QED
    BY <2>1, <2>3, <2>4, <2>5, <2>6
<1>7. ToSet(u) = ToSet(s) \cup ToSet(t)
  BY <1>5
<1>8. OneByOne(s) /\ OneByOne(t) /\ ToSet(s) \cap ToSet(t) = {} => OneByOne(u)
  BY <1>6 DEF OneByOne
<1> QED
  BY <1>1, <1>7, <1>8 DEF u, n, m

\* Flattening joins one sequence after the other.
LEMMA FlattenIs ==
  ASSUME NEW S, NEW seqs \in Seq(Seq(S))
  PROVE  \E flat \in [0..Len(seqs) -> Seq(S)] :
            /\ flat[0] = <<>>
            /\ \A i \in 1..Len(seqs) : flat[i] = flat[i - 1] \o seqs[i]
            /\ FlattenSeq(seqs) = flat[Len(seqs)]
<1> DEFINE N == Len(seqs)
           X == Seq(S)
           F == [p \in Nat \X X |-> IF p[1] \in 1..N THEN p[2] \o seqs[p[1]] ELSE p[2]]
           Flat(g) == g = [i \in 1..N |-> IF i = 1 THEN seqs[i] ELSE g[i - 1] \o seqs[i]]
           flatten == CHOOSE g : Flat(g)
           none == <<>>
<1>1. N \in Nat /\ none \in X /\ \A i \in 1..N : seqs[i] \in X
  OBVIOUS
<1>2. FlattenSeq(seqs) = IF N = 0 THEN seqs ELSE flatten[N]
  BY DEF FlattenSeq
<1>3. F \in [Nat \X X -> X]
  <2>1. ASSUME NEW p \in Nat \X X
        PROVE  (IF p[1] \in 1..N THEN p[2] \o seqs[p[1]] ELSE p[2]) \in X
    <3>1. p[2] \in X
      OBVIOUS
    <3>2. CASE p[1] \in 1..N
      <4>1. seqs[p[1]] \in X
        BY <1>1, <3>2
      <4>2. p[2] \o seqs[p[1]] \in X
        BY <3>1, <4>1
      <4> QED
        BY <3>2, <4>2
    <3>3. CASE p[1] \notin 1..N
      BY <3>1, <3>3
    <3> QED
      BY <3>2, <3>3
  <2> QED
    BY <2>1
<1>4. \A n \in 1..N, x \in X : F[<<n, x>>] = x \o seqs[n]
  <2> SUFFICES ASSUME NEW n \in 1..N, NEW x \in X PROVE F[<<n, x>>] = x \o seqs[n]
    OBVIOUS
  <2>1. <<n, x>> \in Nat \X X
    BY <1>1
  <2> QED
    BY <2>1
<1> HIDE DEF F, X, none, N
<1>5. Buildable(X, N, none, F)
  BY <1>1, <1>3, Recursing
<1>6. PICK g \in [0..N -> X] : \A n \in 0..N : g[n] = IF n = 0 THEN none ELSE F[<<n, g[n - 1]>>]
  BY <1>5 DEF Buildable
<1>7. g[0] = none /\ \A n \in 1..N : g[n] = g[n - 1] \o seqs[n] /\ g[n - 1] \in X
  <2>1. g[0] = none
    <3>1. 0 \in 0..N
      BY <1>1
    <3> QED
      BY <1>6, <3>1
  <2>2. ASSUME NEW n \in 1..N PROVE g[n] = g[n - 1] \o seqs[n] /\ g[n - 1] \in X
    <3>1. n \in 0..N /\ n # 0 /\ n - 1 \in 0..N
      BY <1>1
    <3>2. g[n - 1] \in X /\ g[n] = F[<<n, g[n - 1]>>]
      BY <1>6, <3>1
    <3> QED
      BY <1>4, <3>2
  <2> QED
    BY <2>1, <2>2
<1>8. \A x \in X : none \o x = x
  BY DEF none, X
<1>9. FlattenSeq(seqs) = g[N]
  <2>1. CASE N = 0
    <3>1. seqs = <<>>
      BY <2>1 DEF N
    <3> QED
      BY <1>2, <1>7, <2>1, <3>1 DEF none
  <2>2. CASE N # 0
    <3> DEFINE h == [i \in 1..N |-> g[i]]
    <3>1. Flat(h)
      <4>1. ASSUME NEW i \in 1..N PROVE h[i] = IF i = 1 THEN seqs[i] ELSE h[i - 1] \o seqs[i]
        <5>1. g[i] = g[i - 1] \o seqs[i]
          BY <1>7
        <5>2. CASE i = 1
          <6>1. g[i - 1] = none
            BY <1>7, <5>2
          <6>2. seqs[i] \in X
            BY <1>1
          <6> QED
            BY <1>8, <5>1, <5>2, <6>1, <6>2
        <5>3. CASE i # 1
          <6>1. i - 1 \in 1..N
            BY <1>1, <5>3
          <6> QED
            BY <5>1, <5>3, <6>1
        <5> QED
          BY <5>2, <5>3
      <4> QED
        BY <4>1
    <3>2. Flat(flatten)
      <4> HIDE DEF Flat, h
      <4> QED
        BY <3>1
    <3> HIDE DEF flatten, h
    <3>3. ASSUME NEW i \in 1..N
          PROVE  flatten[i] = IF i = 1 THEN seqs[i] ELSE flatten[i - 1] \o seqs[i]
      BY <3>2
    <3> HIDE DEF Flat
    <3> DEFINE A == {i \in Nat : i + 1 <= N => flatten[i + 1] = g[i + 1]}
    <3>4. 0 \in A
      <4>1. 1 \in 1..N /\ 0 + 1 = 1 /\ 1 - 1 = 0
        BY <1>1, <2>2
      <4>2. flatten[1] = seqs[1]
        BY <3>3, <4>1
      <4>3. g[1] = none \o seqs[1] /\ seqs[1] \in X
        BY <1>1, <1>7, <4>1
      <4> QED
        BY <1>8, <4>1, <4>2, <4>3
    <3>5. ASSUME NEW i \in Nat, i \in A PROVE i + 1 \in A
      <4> SUFFICES ASSUME (i + 1) + 1 <= N PROVE flatten[(i + 1) + 1] = g[(i + 1) + 1]
        OBVIOUS
      <4> DEFINE k == i + 1
      <4>1. k + 1 \in 1..N /\ k + 1 # 1 /\ (k + 1) - 1 = k /\ k <= N
        BY <1>1
      <4>2. flatten[k] = g[k]
        BY <3>5, <4>1
      <4> HIDE DEF k
      <4>3. flatten[k + 1] = flatten[k] \o seqs[k + 1]
        BY <3>3, <4>1
      <4>4. g[k + 1] = g[k] \o seqs[k + 1]
        BY <1>7, <4>1
      <4> QED
        BY <4>2, <4>3, <4>4 DEF k
    <3>6. Nat \subseteq A
      <4> HIDE DEF A
      <4> QED
        BY <3>4, <3>5, InductiveSet
    <3>7. N - 1 \in A /\ (N - 1) + 1 = N
      BY <1>1, <2>2, <3>6
    <3>8. flatten[N] = g[N]
      BY <1>1, <3>7
    <3> QED
      BY <1>2, <2>2, <3>8
  <2> QED
    BY <2>1, <2>2
<1> QED
  BY <1>6, <1>7, <1>9 DEF N, X, none

\* It holds what they hold, and names nothing twice if they do not.
LEMMA FlattenHas ==
  ASSUME NEW S, NEW seqs \in Seq(Seq(S))
  PROVE  /\ FlattenSeq(seqs) \in Seq(S)
         /\ \A x : x \in ToSet(FlattenSeq(seqs)) <=> \E i \in DOMAIN seqs : x \in ToSet(seqs[i])
         /\ (/\ \A i \in DOMAIN seqs : OneByOne(seqs[i])
             /\ \A i, j \in DOMAIN seqs : i # j => ToSet(seqs[i]) \cap ToSet(seqs[j]) = {})
            => OneByOne(FlattenSeq(seqs))
<1> DEFINE N == Len(seqs)
           X == Seq(S)
           Apart == /\ \A i \in DOMAIN seqs : OneByOne(seqs[i])
                    /\ \A i, j \in DOMAIN seqs : i # j => ToSet(seqs[i]) \cap ToSet(seqs[j]) = {}
<1>1. N \in Nat /\ DOMAIN seqs = 1..N /\ \A i \in 1..N : seqs[i] \in X
  OBVIOUS
<1>2. PICK flat \in [0..N -> X] :
        /\ flat[0] = <<>>
        /\ \A i \in 1..N : flat[i] = flat[i - 1] \o seqs[i]
        /\ FlattenSeq(seqs) = flat[N]
  BY FlattenIs
<1> DEFINE Holds(k) == \A x : x \in ToSet(flat[k]) <=> \E i \in 1..k : x \in ToSet(seqs[i])
           A == {k \in Nat : k <= N => Holds(k) /\ (Apart => OneByOne(flat[k]))}
<1> HIDE DEF N, X
<1>3. 0 \in A
  <2>1. ToSet(flat[0]) = {} /\ DOMAIN flat[0] = {}
    BY <1>2 DEF ToSet
  <2>2. 1..0 = {}
    OBVIOUS
  <2> QED
    BY <2>1, <2>2 DEF OneByOne
<1>4. ASSUME NEW k \in Nat, k \in A PROVE k + 1 \in A
  <2> SUFFICES ASSUME k + 1 <= N PROVE Holds(k + 1) /\ (Apart => OneByOne(flat[k + 1]))
    OBVIOUS
  <2>1. k + 1 \in 1..N /\ (k + 1) - 1 = k /\ k \in 0..N /\ k <= N
    BY <1>1
  <2>2. Holds(k) /\ (Apart => OneByOne(flat[k]))
    BY <1>4, <2>1
  <2>3. flat[k + 1] = flat[k] \o seqs[k + 1] /\ flat[k] \in X /\ seqs[k + 1] \in X
    BY <1>1, <1>2, <2>1
  <2> DEFINE s == flat[k]
             t == seqs[k + 1]
  <2> HIDE DEF s, t
  <2>4. /\ ToSet(s \o t) = ToSet(s) \cup ToSet(t)
        /\ OneByOne(s) /\ OneByOne(t) /\ ToSet(s) \cap ToSet(t) = {} => OneByOne(s \o t)
    BY <2>3, Joined DEF s, t, X
  <2>5. \A i : i \in 1..(k + 1) <=> i \in 1..k \/ i = k + 1
    OBVIOUS
  <2>6. Holds(k + 1)
    BY <2>2, <2>3, <2>4, <2>5 DEF s, t
  <2>7. ASSUME Apart PROVE OneByOne(flat[k + 1])
    <3>1. OneByOne(t) /\ OneByOne(s)
      BY <1>1, <2>1, <2>2, <2>7 DEF s, t
    <3>2. \A i \in 1..k : ToSet(seqs[i]) \cap ToSet(t) = {}
      <4> SUFFICES ASSUME NEW i \in 1..k PROVE ToSet(seqs[i]) \cap ToSet(t) = {}
        OBVIOUS
      <4>1. i \in 1..N /\ i # k + 1
        BY <1>1, <2>1
      <4> QED
        BY <1>1, <2>1, <2>7, <4>1 DEF t
    <3>3. ToSet(s) \cap ToSet(t) = {}
      BY <2>2, <3>2 DEF s
    <3> QED
      BY <2>3, <2>4, <3>1, <3>3 DEF s, t
  <2> QED
    BY <2>6, <2>7
<1>5. Nat \subseteq A
  <2> HIDE DEF A
  <2> QED
    BY <1>3, <1>4, InductiveSet
<1>6. Holds(N) /\ (Apart => OneByOne(flat[N])) /\ N \in 0..N
  <2>1. N \in A
    BY <1>1, <1>5
  <2>2. N <= N /\ N \in 0..N
    BY <1>1
  <2> HIDE DEF Holds, Apart
  <2> QED
    BY <2>1, <2>2
<1>7. FlattenSeq(seqs) \in X
  BY <1>2, <1>6
<1>8. \A x : x \in ToSet(FlattenSeq(seqs)) <=> \E i \in DOMAIN seqs : x \in ToSet(seqs[i])
  BY <1>1, <1>2, <1>6
<1> QED
  BY <1>2, <1>6, <1>7, <1>8 DEF X

\* A function on sets of places may build each value on the one for the set without its last place.
Foldable(X, S, base, s, F) ==
    \E g \in [SUBSET DOMAIN s -> X] : \A some \in SUBSET DOMAIN s :
        g[some] = IF some = {} THEN base ELSE F[<<g[some \ {Max(some)}], s[Max(some)]>>]

LEMMA LastOf ==
  ASSUME NEW n \in Nat, NEW some \in SUBSET (1..n), some # {}
  PROVE  Max(some) \in some /\ \A i \in some : i <= Max(some)
<1>1. some \in SUBSET (0..n) /\ \A i \in some : i \in Nat
  OBVIOUS
<1>2. Max(some) \in some /\ \A i \in some : Max(some) >= i
  BY <1>1, MaxIn
<1> QED
  BY <1>1, <1>2

LEMMA Folding ==
  ASSUME NEW X, NEW S, NEW base \in X, NEW s \in Seq(S), NEW F \in [X \X S -> X]
  PROVE  Foldable(X, S, base, s, F)
<1> DEFINE n == Len(s)
           P == SUBSET (1..n)
           Y == [P -> X]
           first == [some \in P |-> base]
           Step(k, h) == [some \in P |-> IF k \in some THEN F[<<h[some], s[k]>>] ELSE h[some]]
           G == [p \in Nat \X Y |-> IF p[1] \in 1..n THEN Step(p[1], p[2]) ELSE p[2]]
<1>1. n \in Nat /\ DOMAIN s = 1..n /\ \A k \in 1..n : s[k] \in S
  OBVIOUS
<1>2. first \in Y
  OBVIOUS
<1> HIDE DEF n
<1>3. \A k \in 1..n, h \in Y : Step(k, h) \in Y
  <2> SUFFICES ASSUME NEW k \in 1..n, NEW h \in Y, NEW some \in P
               PROVE  (IF k \in some THEN F[<<h[some], s[k]>>] ELSE h[some]) \in X
    OBVIOUS
  <2>1. h[some] \in X /\ s[k] \in S
    BY <1>1
  <2>2. F[<<h[some], s[k]>>] \in X
    BY <2>1
  <2> QED
    BY <2>1, <2>2
<1>4. \A k \in 1..n, h \in Y : \A some \in P : Step(k, h)[some] = IF k \in some THEN F[<<h[some], s[k]>>] ELSE h[some]
  OBVIOUS
<1> HIDE DEF Y, Step, P, first
<1>5. G \in [Nat \X Y -> Y]
  <2>1. ASSUME NEW p \in Nat \X Y PROVE (IF p[1] \in 1..n THEN Step(p[1], p[2]) ELSE p[2]) \in Y
    <3>1. p[2] \in Y
      OBVIOUS
    <3>2. p[1] \in 1..n => Step(p[1], p[2]) \in Y
      BY <1>3, <3>1
    <3> QED
      BY <3>1, <3>2
  <2> QED
    BY <2>1
<1>6. \A k \in 1..n, h \in Y : G[<<k, h>>] = Step(k, h)
  <2> SUFFICES ASSUME NEW k \in 1..n, NEW h \in Y PROVE G[<<k, h>>] = Step(k, h)
    OBVIOUS
  <2>1. <<k, h>> \in Nat \X Y
    BY <1>1
  <2> QED
    BY <2>1
<1> HIDE DEF G
<1>7. Buildable(Y, n, first, G)
  BY <1>1, <1>2, <1>5, Recursing
<1>8. PICK H \in [0..n -> Y] : \A k \in 0..n : H[k] = IF k = 0 THEN first ELSE G[<<k, H[k - 1]>>]
  BY <1>7 DEF Buildable
<1>9. H[0] = first
  <2>1. 0 \in 0..n
    BY <1>1
  <2> QED
    BY <1>8, <2>1
<1>10. \A k \in 1..n : H[k - 1] \in Y /\ H[k] = Step(k, H[k - 1])
  <2> SUFFICES ASSUME NEW k \in 1..n PROVE H[k - 1] \in Y /\ H[k] = Step(k, H[k - 1])
    OBVIOUS
  <2>1. k \in 0..n /\ k # 0 /\ k - 1 \in 0..n
    BY <1>1
  <2>2. H[k - 1] \in Y /\ H[k] = G[<<k, H[k - 1]>>]
    BY <1>8, <2>1
  <2> QED
    BY <1>6, <2>2
<1>11. \A k \in 1..n : \A some \in P : H[k][some] = IF k \in some THEN F[<<H[k - 1][some], s[k]>>] ELSE H[k - 1][some]
  BY <1>4, <1>10
\* Places after k do not count up to k.
<1>12. \A k \in 0..n : \A one, other \in P : (\A i \in 1..k : i \in one <=> i \in other) => H[k][one] = H[k][other]
  <2> DEFINE A == {k \in Nat : k <= n =>
                      \A one, other \in P : (\A i \in 1..k : i \in one <=> i \in other) => H[k][one] = H[k][other]}
  <2>1. 0 \in A
    BY <1>9 DEF first
  <2>2. ASSUME NEW k \in Nat, k \in A PROVE k + 1 \in A
    <3> SUFFICES ASSUME k + 1 <= n, NEW one \in P, NEW other \in P,
                        \A i \in 1..(k + 1) : i \in one <=> i \in other
                 PROVE  H[k + 1][one] = H[k + 1][other]
      OBVIOUS
    <3>1. k <= n /\ k + 1 \in 1..n /\ (k + 1) - 1 = k /\ k + 1 \in 1..(k + 1) /\ \A i \in 1..k : i \in 1..(k + 1)
      BY <1>1
    <3>2. H[k][one] = H[k][other]
      BY <2>2, <3>1
    <3>3. k + 1 \in one <=> k + 1 \in other
      BY <3>1
    <3>4. \A some \in P : H[k + 1][some] = IF k + 1 \in some THEN F[<<H[k][some], s[k + 1]>>] ELSE H[k][some]
      BY <1>11, <3>1
    <3> QED
      BY <3>2, <3>3, <3>4
  <2>3. Nat \subseteq A
    <3> HIDE DEF A
    <3> QED
      BY <2>1, <2>2, InductiveSet
  <2> QED
    BY <1>1, <2>3
\* Nor do places count that are not in the set.
<1>13. \A m \in 0..n : \A some \in P : (\A i \in some : i <= m) => H[n][some] = H[m][some]
  <2> SUFFICES ASSUME NEW m \in 0..n, NEW some \in P, \A i \in some : i <= m
               PROVE  H[n][some] = H[m][some]
    OBVIOUS
  <2> DEFINE A == {k \in Nat : m + k <= n => H[m + k][some] = H[m][some]}
  <2>0. m \in Nat /\ n - m \in Nat /\ m + (n - m) = n /\ m + 0 = m
    BY <1>1
  <2>1. 0 \in A
    BY <2>0
  <2>2. ASSUME NEW k \in Nat, k \in A PROVE k + 1 \in A
    <3> SUFFICES ASSUME m + (k + 1) <= n PROVE H[m + (k + 1)][some] = H[m][some]
      OBVIOUS
    <3> DEFINE l == m + (k + 1)
    <3>1. l \in 1..n /\ l - 1 = m + k /\ m + k <= n /\ ~(l <= m)
      BY <1>1, <2>0
    <3> HIDE DEF l
    <3>2. l \notin some
      BY <3>1
    <3>3. H[l][some] = H[l - 1][some]
      BY <1>11, <3>1, <3>2
    <3> QED
      BY <2>2, <3>1, <3>3 DEF l
  <2>3. Nat \subseteq A
    <3> HIDE DEF A
    <3> QED
      BY <2>1, <2>2, InductiveSet
  <2>4. n - m \in A
    BY <2>0, <2>3
  <2> QED
    BY <2>0, <2>4
<1>14. H[n] \in Y
  <2>1. n \in 0..n
    BY <1>1
  <2> QED
    BY <2>1
<1>15. ASSUME NEW some \in P
       PROVE  H[n][some] = IF some = {} THEN base ELSE F[<<H[n][some \ {Max(some)}], s[Max(some)]>>]
  <2>1. CASE some = {}
    <3>1. H[n][some] = H[0][some]
      <4>1. 0 \in 0..n
        BY <1>1
      <4> QED
        BY <1>13, <2>1, <4>1
    <3> QED
      BY <1>9, <2>1, <3>1 DEF first
  <2>2. CASE some # {}
    <3> DEFINE top == Max(some)
               rest == some \ {top}
    <3>1. top \in some /\ \A i \in some : i <= top
      BY <1>1, <2>2, LastOf DEF P
    <3>2. top \in 1..n /\ some \subseteq 1..n
      BY <3>1 DEF P
    <3> HIDE DEF top
    <3>3. rest \in P
      BY <3>2 DEF P
    <3>4. top \in 0..n /\ top - 1 \in 0..n /\ \A i \in rest : i <= top - 1
      BY <1>1, <3>1, <3>2
    <3>5. \A i \in 1..(top - 1) : i \in some <=> i \in rest
      BY <3>2
    <3> HIDE DEF rest
    <3>6. H[n][some] = H[top][some]
      BY <1>13, <3>1, <3>4
    <3>7. H[top][some] = F[<<H[top - 1][some], s[top]>>]
      BY <1>11, <3>1, <3>2
    <3>8. H[top - 1][some] = H[top - 1][rest]
      BY <1>12, <3>3, <3>4, <3>5
    <3>9. H[n][rest] = H[top - 1][rest]
      BY <1>13, <3>3, <3>4
    <3>10. H[n][some] = F[<<H[n][rest], s[top]>>]
      BY <3>6, <3>7, <3>8, <3>9
    <3> QED
      BY <2>2, <3>10 DEF top, rest
  <2> QED
    BY <2>1, <2>2
<1> QED
  BY <1>1, <1>14, <1>15 DEF Foldable, Y, P

LEMMA UpTo ==
  ASSUME NEW n \in Nat, NEW k \in Nat, k + 1 <= n
  PROVE  /\ Max(1..(k + 1)) = k + 1 /\ 1..(k + 1) # {} /\ (1..(k + 1)) \ {k + 1} = 1..k
         /\ 1..(k + 1) \in SUBSET (1..n) /\ 1..k \in SUBSET (1..n) /\ k + 1 \in 1..n
<1>1. 1..(k + 1) # {} /\ 1..(k + 1) \in SUBSET (1..n) /\ 1..k \in SUBSET (1..n) /\ k + 1 \in 1..n /\ k + 1 \in 1..(k + 1)
  OBVIOUS
<1>2. (1..(k + 1)) \ {k + 1} = 1..k
  OBVIOUS
<1> DEFINE top == Max(1..(k + 1))
<1>3. top \in 1..(k + 1) /\ \A i \in 1..(k + 1) : i <= top
  BY <1>1, LastOf
<1> HIDE DEF top
<1>4. top = k + 1
  BY <1>1, <1>3
<1>5. Max(1..(k + 1)) = k + 1
  BY <1>4 DEF top
<1> QED
  BY <1>1, <1>2, <1>5

\* What is appended to a sequence is named in it, and nothing else besides.
LEMMA Appended ==
  ASSUME NEW S, NEW s \in Seq(S), NEW x \in S
  PROVE  /\ Append(s, x) \in Seq(S) /\ ToSet(Append(s, x)) = ToSet(s) \cup {x}
         /\ OneByOne(s) /\ x \notin ToSet(s) => OneByOne(Append(s, x))
<1> DEFINE n == Len(s)
           t == Append(s, x)
<1>1. n \in Nat /\ DOMAIN s = 1..n /\ t \in Seq(S) /\ DOMAIN t = 1..(n + 1)
      /\ (\A i \in 1..n : t[i] = s[i]) /\ t[n + 1] = x
  OBVIOUS
<1> HIDE DEF n, t
<1>2. \A i : i \in 1..(n + 1) <=> i \in 1..n \/ i = n + 1
  BY <1>1
<1>3. ToSet(t) = ToSet(s) \cup {x}
  BY <1>1, <1>2 DEF ToSet
<1>4. ASSUME OneByOne(s), x \notin ToSet(s) PROVE OneByOne(t)
  <2>1. \A i \in 1..n : s[i] # x
    BY <1>1, <1>4 DEF ToSet
  <2> SUFFICES ASSUME NEW i \in DOMAIN t, NEW j \in DOMAIN t, t[i] = t[j] PROVE i = j
    BY DEF OneByOne
  <2>2. (i \in 1..n \/ i = n + 1) /\ (j \in 1..n \/ j = n + 1)
    BY <1>1, <1>2
  <2>3. CASE i \in 1..n /\ j \in 1..n
    BY <1>1, <1>4, <2>3 DEF OneByOne
  <2> QED
    BY <1>1, <2>1, <2>2, <2>3
<1> QED
  BY <1>1, <1>3, <1>4 DEF t

\* What counts is kept, once.
LEMMA EachOnceIs ==
  ASSUME NEW R, NEW s \in Seq(R), NEW counted
  PROVE  /\ EachOnce(s, counted) \in Seq(R) /\ OneByOne(EachOnce(s, counted))
         /\ ToSet(EachOnce(s, counted)) = ToSet(s) \cap counted
<1> DEFINE n == Len(s)
           X == Seq(R)
           none == <<>>
           op(refs, ref) == IF ref \in counted \ ToSet(refs) THEN Append(refs, ref) ELSE refs
           Folds(h) == h = [some \in SUBSET DOMAIN s |->
                              IF some = {} THEN none ELSE op(h[some \ {Max(some)}], s[Max(some)])]
           fold == CHOOSE h : Folds(h)
           F == [p \in X \X R |-> op(p[1], p[2])]
<1>1. EachOnce(s, counted) = fold[DOMAIN s]
  BY DEF EachOnce, FoldLeft, MapThenFoldSet
<1>2. s \in Seq(R) /\ n \in Nat /\ DOMAIN s = 1..n /\ (\A i \in 1..n : s[i] \in R)
  OBVIOUS
<1>4. none \in X /\ OneByOne(none) /\ ToSet(none) = {}
  BY DEF OneByOne, ToSet
<1> HIDE DEF n, none
<1>5. \A refs \in X, ref \in R : op(refs, ref) \in X
  BY Appended
<1> HIDE DEF X
<1>6. F \in [X \X R -> X]
  BY <1>5
<1>7. \A refs \in X, ref \in R : F[<<refs, ref>>] = op(refs, ref)
  OBVIOUS
<1> HIDE DEF F, op
<1>8. Foldable(X, R, none, s, F)
  BY <1>2, <1>4, <1>6, Folding
<1>9. PICK g \in [SUBSET DOMAIN s -> X] : \A some \in SUBSET DOMAIN s :
        g[some] = IF some = {} THEN none ELSE F[<<g[some \ {Max(some)}], s[Max(some)]>>]
  BY <1>8 DEF Foldable
<1>10. Folds(g)
  <2>1. ASSUME NEW some \in SUBSET DOMAIN s
        PROVE  g[some] = IF some = {} THEN none ELSE op(g[some \ {Max(some)}], s[Max(some)])
    <3>1. CASE some = {}
      BY <1>9, <3>1
    <3>2. CASE some # {}
      <4> DEFINE top == Max(some)
      <4>1. top \in some
        BY <1>2, <3>2, LastOf
      <4> HIDE DEF top
      <4>2. some \ {top} \in SUBSET DOMAIN s /\ s[top] \in R
        BY <1>2, <4>1
      <4>3. g[some \ {top}] \in X
        BY <4>2
      <4>4. g[some] = F[<<g[some \ {top}], s[top]>>]
        BY <1>9, <3>2 DEF top
      <4>5. g[some] = op(g[some \ {top}], s[top])
        BY <1>7, <4>2, <4>3, <4>4
      <4> QED
        BY <3>2, <4>5 DEF top
    <3> QED
      BY <3>1, <3>2
  <2> DEFINE body(some) == IF some = {} THEN none ELSE op(g[some \ {Max(some)}], s[Max(some)])
  <2>2. \A some \in SUBSET DOMAIN s : g[some] = body(some)
    BY <2>1
  <2> HIDE DEF body
  <2>3. g = [some \in SUBSET DOMAIN s |-> body(some)]
    BY <2>2
  <2> QED
    BY <2>3 DEF body
<1>11. Folds(fold)
  <2> HIDE DEF Folds
  <2> QED
    BY <1>10
<1> HIDE DEF fold
<1>12. \A some \in SUBSET DOMAIN s :
         fold[some] = IF some = {} THEN none ELSE op(fold[some \ {Max(some)}], s[Max(some)])
  <2> DEFINE body(some) == IF some = {} THEN none ELSE op(fold[some \ {Max(some)}], s[Max(some)])
  <2>1. fold = [some \in SUBSET DOMAIN s |-> body(some)]
    BY <1>11
  <2> HIDE DEF body
  <2>2. \A some \in SUBSET DOMAIN s : fold[some] = body(some)
    BY <2>1
  <2> QED
    BY <2>2 DEF body
<1> HIDE DEF Folds
<1> DEFINE Kept(refs, k) == /\ refs \in X /\ OneByOne(refs)
                            /\ ToSet(refs) = {s[i] : i \in 1..k} \cap counted
           A == {k \in Nat : k <= n => Kept(fold[1..k], k)}
<1>13. 0 \in A
  <2>1. 1..0 = {} /\ 1..0 \in SUBSET DOMAIN s
    OBVIOUS
  <2>2. fold[1..0] = none
    BY <1>12, <2>1
  <2> QED
    BY <1>4, <2>1, <2>2
<1>14. ASSUME NEW k \in Nat, k \in A PROVE k + 1 \in A
  <2> SUFFICES ASSUME k + 1 <= n PROVE Kept(fold[1..(k + 1)], k + 1)
    OBVIOUS
  <2> DEFINE refs == fold[1..k]
             ref == s[k + 1]
             next == fold[1..(k + 1)]
  <2>1. n \in Nat /\ k <= n
    BY <1>2
  <2> DEFINE some == 1..(k + 1)
  <2>0. /\ Max(some) = k + 1 /\ some # {} /\ some \ {k + 1} = 1..k
        /\ some \in SUBSET (1..n) /\ k + 1 \in 1..n
    BY <2>1, UpTo
  <2> HIDE DEF some
  <2>2. Kept(refs, k)
    BY <1>14, <2>1
  <2>3. ref \in R
    BY <1>2, <2>0
  <2>4. next = op(refs, ref)
    <3>1. fold[some] = op(fold[some \ {Max(some)}], s[Max(some)])
      BY <1>2, <1>12, <2>0
    <3> QED
      BY <2>0, <3>1 DEF some
  <2> HIDE DEF refs, ref, next
  <2>6. {s[i] : i \in 1..(k + 1)} = {s[i] : i \in 1..k} \cup {ref}
    <3>1. \A i : i \in 1..(k + 1) <=> i \in 1..k \/ i = k + 1
      OBVIOUS
    <3> QED
      BY <3>1 DEF ref
  <2>7. CASE ref \in counted \ ToSet(refs)
    <3>1. next = Append(refs, ref)
      BY <2>4, <2>7 DEF op
    <3>2. next \in X /\ OneByOne(next) /\ ToSet(next) = ToSet(refs) \cup {ref}
      BY <2>2, <2>3, <2>7, <3>1, Appended DEF X
    <3>3. ToSet(next) = {s[i] : i \in 1..(k + 1)} \cap counted
      BY <2>2, <2>6, <2>7, <3>2
    <3> QED
      BY <3>2, <3>3 DEF next
  <2>8. CASE ref \notin counted \ ToSet(refs)
    <3>1. next = refs
      BY <2>4, <2>8 DEF op
    <3>2. ref \in counted => ref \in ToSet(refs)
      BY <2>8
    <3>3. ToSet(next) = {s[i] : i \in 1..(k + 1)} \cap counted
      BY <2>2, <2>6, <3>1, <3>2
    <3> QED
      BY <2>2, <3>1, <3>3 DEF next
  <2> QED
    BY <2>7, <2>8
<1>15. Nat \subseteq A
  <2> HIDE DEF A
  <2> QED
    BY <1>13, <1>14, InductiveSet
<1>16. Kept(fold[1..n], n)
  <2>0. n \in Nat
    BY <1>2
  <2>1. n \in A
    BY <1>15, <2>0
  <2>2. n <= n
    BY <2>0
  <2> HIDE DEF Kept
  <2> QED
    BY <2>1, <2>2
<1>17. {s[i] : i \in 1..n} = ToSet(s)
  BY <1>2 DEF ToSet
<1> QED
  BY <1>1, <1>2, <1>16, <1>17 DEF X

\* A sample is short, and names only what there is, once.
LEMMA SampleIs ==
  ASSUME NEW S, NEW pairs \in Seq(S), OneByOne(pairs), NEW limit \in Positive
  PROVE  LET sample == SampleAcrossStory(pairs, limit)
             length == Len(pairs) IN
           /\ sample \in Seq(S) /\ Len(sample) <= limit /\ OneByOne(sample) /\ ToSet(sample) \subseteq ToSet(pairs)
           /\ length <= limit => sample = pairs
           /\ 1 < limit /\ limit < length =>
                /\ Len(sample) = limit
                /\ \A i \in 1..limit : sample[i] = pairs[SampledAt(i, length, limit)]
<1> DEFINE sample == SampleAcrossStory(pairs, limit)
           length == Len(pairs)
           at(i) == SampledAt(i, length, limit)
           Fair == /\ sample \in Seq(S) /\ Len(sample) <= limit /\ OneByOne(sample) /\ ToSet(sample) \subseteq ToSet(pairs)
                   /\ length <= limit => sample = pairs
                   /\ 1 < limit /\ limit < length =>
                        /\ Len(sample) = limit
                        /\ \A i \in 1..limit : sample[i] = pairs[at(i)]
<1> SUFFICES Fair
  OBVIOUS
<1>1. limit \in Nat /\ limit > 0 /\ length \in Nat /\ DOMAIN pairs = 1..length /\ \A i \in 1..length : pairs[i] \in S
  BY DEF Positive
<1>2. CASE length <= limit
  <2>1. sample = pairs
    BY <1>2 DEF SampleAcrossStory
  <2>2. ~(limit < length)
    BY <1>1, <1>2
  <2> HIDE DEF sample, length, at
  <2>3. Len(sample) <= limit
    BY <1>2, <2>1 DEF length
  <2> QED
    BY <1>2, <2>1, <2>2, <2>3
<1>3. CASE ~(length <= limit) /\ limit = 1
  <2>1. length > 1 /\ 1 \in 1..length
    BY <1>1, <1>3
  <2>2. sample = <<pairs[1]>>
    BY <1>3, <2>1 DEF SampleAcrossStory
  <2> DEFINE one == pairs[1]
             single == <<one>>
  <2>3. one \in S /\ one \in ToSet(pairs)
    BY <1>1, <2>1 DEF ToSet
  <2> HIDE DEF one
  <2>4. single \in Seq(S) /\ Len(single) = 1 /\ OneByOne(single) /\ ToSet(single) = {one}
    BY <2>3 DEF OneByOne, ToSet
  <2> HIDE DEF single
  <2>5. sample = single
    BY <2>2 DEF single, one
  <2>6. ~(1 < limit) /\ 1 <= limit
    BY <1>1, <1>3
  <2> HIDE DEF sample, length, at
  <2> QED
    BY <1>3, <2>3, <2>4, <2>5, <2>6
<1>4. CASE ~(length <= limit) /\ limit # 1
  <2>1. 1 < limit /\ limit < length
    BY <1>1, <1>4
  <2>2. sample = [i \in 1..limit |-> pairs[at(i)]]
    BY <1>4 DEF SampleAcrossStory, SampledAt
  <2>3. /\ \A i \in 1..limit : at(i) \in 1..length
        /\ \A i, j \in 1..limit : i < j => at(i) < at(j)
    BY <1>1, <2>1, SampleSpreads
  <2> HIDE DEF at, length, sample
  <2>4. \A i \in 1..limit : pairs[at(i)] \in S /\ pairs[at(i)] \in ToSet(pairs)
    BY <1>1, <2>3 DEF ToSet
  <2>5. sample \in Seq(S) /\ Len(sample) = limit /\ DOMAIN sample = 1..limit /\ \A i \in 1..limit : sample[i] = pairs[at(i)]
    BY <1>1, <2>2, <2>4
  <2>6. ToSet(sample) \subseteq ToSet(pairs)
    BY <2>4, <2>5 DEF ToSet
  <2>7. OneByOne(sample)
    <3> SUFFICES ASSUME NEW i \in 1..limit, NEW j \in 1..limit, sample[i] = sample[j]
                 PROVE  i = j
      BY <2>5 DEF OneByOne
    <3>1. pairs[at(i)] = pairs[at(j)] /\ at(i) \in DOMAIN pairs /\ at(j) \in DOMAIN pairs
      BY <1>1, <2>3, <2>5
    <3>2. at(i) = at(j)
      BY <3>1 DEF OneByOne
    <3>3. at(i) \in Nat /\ at(j) \in Nat /\ i \in Nat /\ j \in Nat
      BY <1>1, <2>3
    <3>4. ~(i < j) /\ ~(j < i)
      BY <2>3, <3>2, <3>3
    <3> QED
      BY <3>3, <3>4
  <2>8. limit <= limit
    BY <1>1
  <2> QED
    BY <1>4, <2>5, <2>6, <2>7, <2>8
<1> QED
  BY <1>2, <1>3, <1>4

\* A story told as a sequence.
Story(events) == events \in Seq([people : Seq(Nat), place : Nat])

Ordered(n) == {pair \in (1..n) \X (1..n) : pair[1] < pair[2]}

Neighbours(n) == {pair \in (1..n) \X (1..n) : pair[2] = pair[1] + 1}

LEMMA AdjacentIs ==
  ASSUME NEW events, Story(events)
  PROVE  LET near == Adjacent(events)
             n == Len(events) IN
           n > 0 =>
             /\ near \in Seq(Nat \X Nat) /\ Len(near) = n - 1 /\ OneByOne(near)
             /\ ToSet(near) = Neighbours(n) /\ \A i \in 1..(n - 1) : near[i] = <<i, i + 1>>
<1> DEFINE n == Len(events)
           near == Adjacent(events)
<1>1. n \in Nat
  BY DEF Story
<1> SUFFICES ASSUME n > 0
             PROVE  /\ near \in Seq(Nat \X Nat) /\ Len(near) = n - 1 /\ OneByOne(near)
                    /\ ToSet(near) = Neighbours(n) /\ \A i \in 1..(n - 1) : near[i] = <<i, i + 1>>
  OBVIOUS
<1>2. near = [i \in 1..(n - 1) |-> <<i, i + 1>>]
  BY DEF Adjacent
<1> HIDE DEF near, n
<1>3. n - 1 \in Nat
  BY <1>1
<1>4. near \in Seq(Nat \X Nat) /\ Len(near) = n - 1 /\ DOMAIN near = 1..(n - 1) /\ \A i \in 1..(n - 1) : near[i] = <<i, i + 1>>
  <2>1. \A i \in 1..(n - 1) : <<i, i + 1>> \in Nat \X Nat
    BY <1>3
  <2> QED
    BY <1>2, <1>3, <2>1
<1>5. OneByOne(near)
  BY <1>4 DEF OneByOne
<1>6. ASSUME NEW pair
      PROVE  pair \in ToSet(near) <=> pair \in Neighbours(n)
  <2>1. ASSUME NEW i \in 1..(n - 1), pair = <<i, i + 1>> PROVE pair \in Neighbours(n)
    <3>1. i \in 1..n /\ i + 1 \in 1..n
      BY <1>1
    <3> QED
      BY <2>1, <3>1 DEF Neighbours
  <2>2. ASSUME pair \in Neighbours(n) PROVE \E i \in 1..(n - 1) : pair = <<i, i + 1>>
    <3>1. pair \in (1..n) \X (1..n) /\ pair[2] = pair[1] + 1
      BY <2>2 DEF Neighbours
    <3>2. pair[1] \in 1..(n - 1) /\ pair = <<pair[1], pair[1] + 1>>
      BY <1>1, <3>1
    <3> QED
      BY <3>2
  <2>3. pair \in ToSet(near) <=> \E i \in 1..(n - 1) : pair = <<i, i + 1>>
    BY <1>4 DEF ToSet
  <2> QED
    BY <2>1, <2>2, <2>3
<1> QED
  BY <1>4, <1>5, <1>6

\* All pairs of n events are half of n times n - 1.
LEMMA AllPairsAre ==
  ASSUME NEW events, Story(events)
  PROVE  LET all == AllPairs(events)
             n == Len(events) IN
           /\ all \in Seq(Nat \X Nat) /\ OneByOne(all) /\ ToSet(all) = Ordered(n)
           /\ Len(all) \in Nat /\ 2 * Len(all) = n * (n - 1)
<1> DEFINE n == Len(events)
           S == Nat \X Nat
           row(i) == [k \in 1..(n - i) |-> <<i, i + k>>]
           seqs == [i \in 1..n |-> row(i)]
           all == AllPairs(events)
<1>1. n \in Nat /\ DOMAIN events = 1..n
  BY DEF Story
<1>2. all = FlattenSeq(seqs)
  BY <1>1 DEF AllPairs
<1> HIDE DEF n, all, S
<1>3. ASSUME NEW i \in 1..n
      PROVE  /\ row(i) \in Seq(S) /\ Len(row(i)) = n - i /\ n - i \in Nat
             /\ DOMAIN row(i) = 1..(n - i) /\ \A k \in 1..(n - i) : row(i)[k] = <<i, i + k>>
  <2>1. n - i \in Nat /\ \A k \in 1..(n - i) : <<i, i + k>> \in S
    BY <1>1 DEF S
  <2> QED
    BY <2>1
<1>4. ASSUME NEW i \in 1..n
      PROVE  OneByOne(row(i)) /\ \A pair : pair \in ToSet(row(i)) <=> \E k \in 1..(n - i) : pair = <<i, i + k>>
  <2> DEFINE r == row(i)
  <2>1. DOMAIN r = 1..(n - i) /\ \A k \in 1..(n - i) : r[k] = <<i, i + k>>
    BY <1>3
  <2> HIDE DEF r
  <2>2. OneByOne(r)
    BY <1>1, <2>1 DEF OneByOne
  <2>3. \A pair : pair \in ToSet(r) <=> \E k \in 1..(n - i) : pair = <<i, i + k>>
    BY <2>1 DEF ToSet
  <2> QED
    BY <2>2, <2>3 DEF r
<1> HIDE DEF row
<1>5. seqs \in Seq(Seq(S)) /\ DOMAIN seqs = 1..n /\ Len(seqs) = n /\ \A i \in 1..n : seqs[i] = row(i)
  BY <1>1, <1>3
<1> HIDE DEF seqs
<1>6. /\ all \in Seq(S)
      /\ \A x : x \in ToSet(all) <=> \E i \in DOMAIN seqs : x \in ToSet(seqs[i])
      /\ (/\ \A i \in DOMAIN seqs : OneByOne(seqs[i])
          /\ \A i, j \in DOMAIN seqs : i # j => ToSet(seqs[i]) \cap ToSet(seqs[j]) = {})
         => OneByOne(all)
  BY <1>2, <1>5, FlattenHas
<1>7. OneByOne(all)
  <2>1. ASSUME NEW i \in 1..n, NEW j \in 1..n, i # j PROVE ToSet(row(i)) \cap ToSet(row(j)) = {}
    BY <1>4, <2>1
  <2> QED
    BY <1>4, <1>5, <1>6, <2>1
<1>8. ASSUME NEW pair
      PROVE  pair \in ToSet(all) <=> pair \in Ordered(n)
  <2>1. pair \in ToSet(all) <=> \E i \in 1..n : \E k \in 1..(n - i) : pair = <<i, i + k>>
    <3>1. \A i \in 1..n : pair \in ToSet(seqs[i]) <=> \E k \in 1..(n - i) : pair = <<i, i + k>>
      BY <1>4, <1>5
    <3>2. pair \in ToSet(all) <=> \E i \in 1..n : pair \in ToSet(seqs[i])
      BY <1>5, <1>6
    <3> QED
      BY <3>1, <3>2
  <2>2. ASSUME NEW i \in 1..n, NEW k \in 1..(n - i), pair = <<i, i + k>> PROVE pair \in Ordered(n)
    <3>1. i + k \in 1..n /\ i < i + k
      BY <1>1
    <3> QED
      BY <2>2, <3>1 DEF Ordered
  <2>3. ASSUME pair \in Ordered(n) PROVE \E i \in 1..n : \E k \in 1..(n - i) : pair = <<i, i + k>>
    <3>1. pair \in (1..n) \X (1..n) /\ pair[1] < pair[2]
      BY <2>3 DEF Ordered
    <3> DEFINE i == pair[1]
               k == pair[2] - i
    <3>2. i \in 1..n /\ k \in 1..(n - i) /\ pair = <<i, i + k>>
      BY <1>1, <3>1
    <3> QED
      BY <3>2
  <2> QED
    BY <2>1, <2>2, <2>3
<1>9. Len(all) \in Nat /\ 2 * Len(all) = n * (n - 1)
  <2>1. PICK flat \in [0..n -> Seq(S)] :
          /\ flat[0] = <<>>
          /\ \A i \in 1..n : flat[i] = flat[i - 1] \o seqs[i]
          /\ all = flat[n]
    BY <1>2, <1>5, FlattenIs
  <2>2. \A i \in 0..n : Len(flat[i]) \in Nat
    OBVIOUS
  <2> DEFINE L(i) == Len(flat[i])
  <2>3. ASSUME NEW i \in 1..n PROVE L(i) = L(i - 1) + (n - i)
    <3>1. i - 1 \in 0..n
      BY <1>1
    <3> DEFINE f == flat[i - 1]
               r == row(i)
    <3>2. flat[i] = f \o r
      BY <1>5, <2>1
    <3>3. f \in Seq(S) /\ r \in Seq(S) /\ Len(r) = n - i
      BY <1>3, <3>1
    <3> HIDE DEF f, r
    <3>4. Len(flat[i]) = Len(f) + (n - i)
      <4>1. Len(f \o r) = Len(f) + Len(r)
        BY <3>3
      <4> QED
        BY <3>2, <3>3, <4>1
    <3> QED
      BY <3>4 DEF f
  <2>4. L(0) = 0
    BY <2>1
  <2> HIDE DEF L
  <2> DEFINE A == {k \in Nat : k <= n => L(k) \in Nat /\ 2 * L(k) = (k * (n - 1)) + (k * (n - k))}
  <2>5. 0 \in A
    BY <1>1, <2>4
  <2>6. ASSUME NEW k \in Nat, k \in A PROVE k + 1 \in A
    <3> SUFFICES ASSUME k + 1 <= n PROVE L(k + 1) \in Nat /\ 2 * L(k + 1) = ((k + 1) * (n - 1)) + ((k + 1) * (n - (k + 1)))
      OBVIOUS
    <3>1. L(k) \in Nat /\ 2 * L(k) = (k * (n - 1)) + (k * (n - k))
      BY <1>1, <2>6
    <3>2. L(k + 1) = L(k) + (n - (k + 1))
      <4>1. k + 1 \in 1..n /\ (k + 1) - 1 = k
        BY <1>1
      <4> QED
        BY <2>3, <4>1
    <3>3. n - (k + 1) \in Nat
      BY <1>1
    <3>4. ((k + 1) * (n - 1)) + ((k + 1) * (n - (k + 1))) = ((k * (n - 1)) + (k * (n - k))) + 2 * (n - (k + 1))
      BY <1>1
    <3> QED
      BY <3>1, <3>2, <3>3, <3>4
  <2>7. Nat \subseteq A
    <3> HIDE DEF A
    <3> QED
      BY <2>5, <2>6, InductiveSet
  <2>8. L(n) \in Nat /\ 2 * L(n) = (n * (n - 1)) + (n * (n - n))
    <3>1. n \in A
      BY <1>1, <2>7
    <3>2. n <= n
      BY <1>1
    <3> QED
      BY <3>1, <3>2
  <2>9. n * (n - n) = 0 /\ n * (n - 1) \in Int
    BY <1>1
  <2>10. L(n) = Len(all)
    BY <2>1 DEF L
  <2> QED
    BY <2>8, <2>9, <2>10
<1> QED
  BY <1>6, <1>7, <1>8, <1>9 DEF n, all, S

LEMMA NearestIs ==
  ASSUME NEW events, Story(events), NEW j \in DOMAIN events
  PROVE  NearestBefore(events, j) \in Seq(Nat)
<1> DEFINE people == events[j].people
           latest(before) == Max({0} \cup before)
           meets(who) == {i \in 1..(j - 1) : who \in ToSet(events[i].people)}
           there == {i \in 1..(j - 1) : events[i].place # 0 /\ events[i].place = events[j].place}
           met == [k \in DOMAIN people |-> latest(meets(people[k]))]
<1>1. j \in Nat /\ people \in Seq(Nat)
  <2> DEFINE T == [people : Seq(Nat), place : Nat]
  <2>1. events \in Seq(T)
    BY DEF Story
  <2>2. \A event \in T : event.people \in Seq(Nat)
    OBVIOUS
  <2> HIDE DEF T
  <2>3. events[j] \in T /\ j \in Nat
    BY <2>1
  <2> QED
    BY <2>2, <2>3
<1>2. ASSUME NEW before \in SUBSET (1..(j - 1)) PROVE latest(before) \in Nat
  <2> DEFINE E == {0} \cup before
  <2>1. E \in SUBSET (0..j) /\ E # {}
    BY <1>1
  <2> HIDE DEF E
  <2>2. Max(E) \in E /\ \A y \in E : Max(E) >= y
    BY <1>1, <2>1, MaxIn
  <2>3. Max(E) \in 0..j
    BY <2>1, <2>2
  <2>4. Max(E) \in Nat
    BY <1>1, <2>3
  <2> QED
    BY <2>4 DEF E
<1>3. NearestBefore(events, j) = Append(met, latest(there))
  BY DEF NearestBefore
<1>4. (\A who : meets(who) \in SUBSET (1..(j - 1))) /\ there \in SUBSET (1..(j - 1))
  OBVIOUS
<1> HIDE DEF latest, meets, there, people
<1>5. (\A who : latest(meets(who)) \in Nat) /\ latest(there) \in Nat
  BY <1>2, <1>4
<1>6. met \in Seq(Nat)
  <2>1. DOMAIN people = 1..Len(people) /\ Len(people) \in Nat
    BY <1>1
  <2> QED
    BY <1>5, <2>1
<1> HIDE DEF met
<1> QED
  BY <1>3, <1>5, <1>6

\* Related events are paired once, and are no neighbours.
LEMMA RelatedPairsAre ==
  ASSUME NEW events, Story(events)
  PROVE  LET related == RelatedPairs(events) IN
           /\ related \in Seq(Nat \X Nat) /\ OneByOne(related)
           /\ \A pair \in ToSet(related) :
                /\ pair[2] \in DOMAIN events /\ pair[1] \in 1..(pair[2] - 2)
                /\ pair[1] \in ToSet(NearestBefore(events, pair[2]))
<1> DEFINE n == Len(events)
           S == Nat \X Nat
           before(j) == EachOnce(NearestBefore(events, j), 1..(j - 2))
           row(j) == [k \in DOMAIN before(j) |-> <<before(j)[k], j>>]
           seqs == [j \in 1..n |-> row(j)]
           related == RelatedPairs(events)
           near(j) == ToSet(NearestBefore(events, j)) \cap 1..(j - 2)
<1>1. n \in Nat /\ DOMAIN events = 1..n
  BY DEF Story
<1>2. related = FlattenSeq(seqs)
  BY <1>1 DEF RelatedPairs
<1>3. ASSUME NEW j \in 1..n
      PROVE  before(j) \in Seq(Nat) /\ OneByOne(before(j)) /\ ToSet(before(j)) = near(j)
  <2> DEFINE nearest == NearestBefore(events, j)
             counted == 1..(j - 2)
  <2>1. nearest \in Seq(Nat)
    BY <1>1, NearestIs
  <2> HIDE DEF nearest, counted
  <2>2. /\ EachOnce(nearest, counted) \in Seq(Nat) /\ OneByOne(EachOnce(nearest, counted))
        /\ ToSet(EachOnce(nearest, counted)) = ToSet(nearest) \cap counted
    BY <2>1, EachOnceIs
  <2> QED
    BY <2>2 DEF nearest, counted
<1> HIDE DEF n, related, S, before
<1>4. ASSUME NEW j \in 1..n
      PROVE  /\ row(j) \in Seq(S) /\ OneByOne(row(j))
             /\ \A pair \in ToSet(row(j)) : \E i \in near(j) : pair = <<i, j>>
  <2> DEFINE b == before(j)
             r == row(j)
             m == Len(b)
  <2>1. b \in Seq(Nat) /\ OneByOne(b) /\ ToSet(b) = near(j)
    BY <1>3
  <2>2. r = [k \in DOMAIN b |-> <<b[k], j>>]
    OBVIOUS
  <2> HIDE DEF b, r
  <2>3. m \in Nat /\ DOMAIN b = 1..m /\ \A k \in 1..m : b[k] \in Nat
    BY <2>1
  <2> HIDE DEF m
  <2>4. \A k \in 1..m : <<b[k], j>> \in S
    BY <1>1, <2>3 DEF S
  <2>5. r \in Seq(S) /\ DOMAIN r = 1..m /\ \A k \in 1..m : r[k] = <<b[k], j>>
    BY <2>2, <2>3, <2>4
  <2>6. OneByOne(r)
    BY <2>1, <2>3, <2>5 DEF OneByOne
  <2>7. \A pair \in ToSet(r) : \E i \in near(j) : pair = <<i, j>>
    <3> HIDE DEF near
    <3>1. \A k \in 1..m : b[k] \in near(j)
      BY <2>1, <2>3 DEF ToSet
    <3>2. \A pair \in ToSet(r) : \E k \in 1..m : pair = <<b[k], j>>
      BY <2>5 DEF ToSet
    <3> QED
      BY <3>1, <3>2
  <2> QED
    BY <2>5, <2>6, <2>7 DEF r
<1> HIDE DEF row, near
<1>5. seqs \in Seq(Seq(S)) /\ DOMAIN seqs = 1..n /\ \A j \in 1..n : seqs[j] = row(j)
  BY <1>1, <1>4
<1> HIDE DEF seqs
<1>6. /\ related \in Seq(S)
      /\ \A x : x \in ToSet(related) <=> \E i \in DOMAIN seqs : x \in ToSet(seqs[i])
      /\ (/\ \A i \in DOMAIN seqs : OneByOne(seqs[i])
          /\ \A i, j \in DOMAIN seqs : i # j => ToSet(seqs[i]) \cap ToSet(seqs[j]) = {})
         => OneByOne(related)
  BY <1>2, <1>5, FlattenHas
<1>7. OneByOne(related)
  <2>1. ASSUME NEW i \in 1..n, NEW j \in 1..n, i # j PROVE ToSet(row(i)) \cap ToSet(row(j)) = {}
    BY <1>4, <2>1
  <2> QED
    BY <1>4, <1>5, <1>6, <2>1
<1>8. ASSUME NEW pair \in ToSet(related)
      PROVE  pair[2] \in 1..n /\ pair[1] \in near(pair[2])
  <2>1. PICK j \in 1..n : pair \in ToSet(row(j))
    BY <1>5, <1>6
  <2>2. PICK i \in near(j) : pair = <<i, j>>
    BY <1>4, <2>1
  <2> QED
    BY <2>2
<1> QED
  BY <1>1, <1>6, <1>7, <1>8 DEF related, S, near

\* What is promised of the pairs that are asked about.
Spread(events, most, pairs) ==
    LET n == Len(events)
        chosen == ToSet(pairs)
        near == ToSet(Adjacent(events))
    IN /\ Len(pairs) <= most /\ Cardinality(chosen) = Len(pairs)
       /\ 2 * most >= n * (n - 1) => chosen = ToSet(AllPairs(events))
       /\ most >= n - 1 => near \subseteq chosen
       /\ most < n - 1 /\ most > 1 =>
            /\ chosen \subseteq near
            /\ {<<1, 2>>, <<n - 1, n>>} \subseteq chosen
            /\ \A i \in 1..(most - 1) : (pairs[i + 1][1] - pairs[i][1]) * (most - 1) < (n - 2) + (most - 1)
       /\ 2 * most < n * (n - 1) =>
            \A pair \in chosen \ near : pair[1] \in ToSet(NearestBefore(events, pair[2]))

\* A sample of the neighbours reaches from the first to the last.
LEMMA NeighboursSampled ==
  ASSUME NEW events, Story(events), NEW limit \in Nat, 1 < limit, limit < Len(events) - 1
  PROVE  LET n == Len(events)
             pairs == SampleAcrossStory(Adjacent(events), limit) IN
           /\ {<<1, 2>>, <<n - 1, n>>} \subseteq ToSet(pairs)
           /\ \A i \in 1..(limit - 1) : (pairs[i + 1][1] - pairs[i][1]) * (limit - 1) < (n - 2) + (limit - 1)
<1> DEFINE n == Len(events)
           m == n - 1
           S == Nat \X Nat
           near == Adjacent(events)
           pairs == SampleAcrossStory(near, limit)
           at(i) == SampledAt(i, m, limit)
<1>1. n \in Nat /\ n > 0 /\ m \in Nat /\ limit < m /\ m = n - 1 /\ limit \in Positive
  BY DEF Story, Positive
<1>2. near \in Seq(S) /\ Len(near) = m /\ OneByOne(near) /\ \A i \in 1..m : near[i] = <<i, i + 1>>
  BY <1>1, AdjacentIs
<1>3. /\ at(1) = 1 /\ at(limit) = m
      /\ \A i \in 1..limit : at(i) \in 1..m
      /\ \A i \in 1..(limit - 1) : (at(i + 1) - at(i)) * (limit - 1) < (m - 1) + (limit - 1)
  BY <1>1, SampleSpreads
<1> HIDE DEF n, m, S, near
<1>4. /\ pairs \in Seq(S) /\ Len(pairs) = limit
      /\ \A i \in 1..limit : pairs[i] = near[at(i)]
  <2> DEFINE length == Len(near)
  <2>1. 1 < limit /\ limit < length /\ length = m
    BY <1>1, <1>2
  <2>2. /\ pairs \in Seq(S) /\ Len(pairs) = limit
        /\ \A i \in 1..limit : pairs[i] = near[SampledAt(i, length, limit)]
    BY <1>1, <1>2, <2>1, SampleIs
  <2> QED
    BY <2>1, <2>2
<1> HIDE DEF at, pairs
<1>5. DOMAIN pairs = 1..limit /\ \A i \in 1..limit : pairs[i] = <<at(i), at(i) + 1>>
  <2>1. \A i \in 1..limit : near[at(i)] = <<at(i), at(i) + 1>>
    BY <1>2, <1>3
  <2> QED
    BY <1>4, <2>1
<1>6. {<<1, 2>>, <<n - 1, n>>} \subseteq ToSet(pairs)
  <2>1. 1 \in 1..limit /\ limit \in 1..limit
    OBVIOUS
  <2>2. pairs[1] = <<1, 1 + 1>> /\ pairs[limit] = <<m, m + 1>>
    BY <1>3, <1>5, <2>1
  <2>3. pairs[1] = <<1, 2>> /\ pairs[limit] = <<n - 1, n>>
    BY <1>1, <2>2
  <2> QED
    BY <1>5, <2>1, <2>3 DEF ToSet
<1>7. ASSUME NEW i \in 1..(limit - 1)
      PROVE  (pairs[i + 1][1] - pairs[i][1]) * (limit - 1) < (n - 2) + (limit - 1)
  <2>1. i \in 1..limit /\ i + 1 \in 1..limit
    OBVIOUS
  <2>2. pairs[i + 1][1] = at(i + 1) /\ pairs[i][1] = at(i)
    BY <1>5, <2>1
  <2>3. (at(i + 1) - at(i)) * (limit - 1) < (m - 1) + (limit - 1)
    BY <1>3
  <2>4. m - 1 = n - 2
    BY <1>1
  <2> QED
    BY <2>2, <2>3, <2>4
<1> QED
  BY <1>6, <1>7 DEF n, pairs, near

\* The pairs the Timeline agent is asked about (EventPairSelector.select), of a
\* story of any length and for any bound: no more than the bound and
\* none twice; all, or all neighbours, when the bound allows; else neighbours
\* spread evenly from the first pair of the story to its last.
THEOREM PairsAreSpread ==
  ASSUME NEW events, Story(events), NEW most \in Positive
  PROVE  Spread(events, most, SelectedPairs(events, most))
<1> DEFINE n == Len(events)
           S == Nat \X Nat
           near == Adjacent(events)
           all == AllPairs(events)
           related == RelatedPairs(events)
           pairs == SelectedPairs(events, most)
           nearest(pair) == pair[1] \in ToSet(NearestBefore(events, pair[2]))
           square == n * (n - 1)
           none == <<>>
           reach(i) == (pairs[i + 1][1] - pairs[i][1]) * (most - 1) < (n - 2) + (most - 1)
           Even == /\ {<<1, 2>>, <<n - 1, n>>} \subseteq ToSet(pairs)
                   /\ \A i \in 1..(most - 1) : reach(i)
           Wide == /\ pairs \in Seq(S) /\ OneByOne(pairs) /\ Len(pairs) <= most
                   /\ 2 * most >= square => ToSet(pairs) = ToSet(all)
                   /\ most >= n - 1 => ToSet(near) \subseteq ToSet(pairs)
                   /\ most < n - 1 /\ most > 1 => ToSet(pairs) \subseteq ToSet(near) /\ Even
                   /\ 2 * most < square => \A pair \in ToSet(pairs) \ ToSet(near) : nearest(pair)
<1>1. n \in Nat /\ most \in Nat /\ most > 0
  BY DEF Story, Positive
<1>2. pairs = CASE n < 2 -> none
                [] n >= 2 /\ Len(all) <= most -> all
                [] Len(all) > most /\ Len(near) >= most -> SampleAcrossStory(near, most)
                [] OTHER -> near \o IF Len(near) = most THEN none ELSE SampleAcrossStory(related, most - Len(near))
  BY DEF SelectedPairs
<1>0. none \in Seq(S) /\ OneByOne(none) /\ Len(none) = 0 /\ ToSet(none) = {}
  BY DEF OneByOne, ToSet
<1> HIDE DEF none
<1>3. /\ all \in Seq(S) /\ OneByOne(all) /\ ToSet(all) = Ordered(n)
      /\ Len(all) \in Nat /\ 2 * Len(all) = square
  BY AllPairsAre
<1>4. n > 0 => near \in Seq(S) /\ Len(near) = n - 1 /\ OneByOne(near) /\ ToSet(near) = Neighbours(n)
  BY AdjacentIs
<1>5. square \in Int /\ (n >= 2 => square >= 2 * (n - 1))
  <2>0. square \in Int
    BY <1>1
  <2> SUFFICES ASSUME n >= 2 PROVE square >= 2 * (n - 1)
    BY <2>0
  <2>1. (n - 2) \in Nat /\ (n - 1) \in Nat
    BY <1>1
  <2> DEFINE a == n - 2
             b == n - 1
  <2>2. a * b \in Nat
    BY <2>1
  <2>3. a * b = square - 2 * b
    BY <1>1
  <2> HIDE DEF a, square
  <2> QED
    BY <1>1, <2>0, <2>1, <2>2, <2>3
<1>6. (ToSet(near) = {} /\ square = 0 /\ ToSet(all) = {}) \/ n >= 2
  <2> SUFFICES ASSUME n < 2 PROVE ToSet(near) = {} /\ square = 0 /\ ToSet(all) = {}
    BY <1>1
  <2>1. n = 0 \/ n = 1
    <3> HIDE DEF n
    <3> QED
      BY <1>1
  <2>2. square = 0
    BY <2>1
  <2>3. 1..(n - 1) = {} /\ Ordered(n) = {}
    BY <2>1 DEF Ordered
  <2>4. near = [i \in 1..(n - 1) |-> <<i, i + 1>>]
    BY DEF Adjacent
  <2> HIDE DEF near
  <2>5. DOMAIN near = {}
    BY <2>3, <2>4
  <2> QED
    BY <1>3, <2>2, <2>3, <2>5 DEF ToSet
<1> HIDE DEF square
<1>7. Wide => Spread(events, most, pairs)
  <2> HIDE DEF pairs
  <2>1. ASSUME Wide PROVE Cardinality(ToSet(pairs)) = Len(pairs)
    <3>1. pairs \in Seq(S) /\ OneByOne(pairs)
      BY <2>1
    <3> HIDE DEF S
    <3> QED
      BY <3>1, ElementsCounted
  <2> SUFFICES ASSUME Wide PROVE Spread(events, most, pairs)
    OBVIOUS
  <2>2. Cardinality(ToSet(pairs)) = Len(pairs)
    BY <2>1
  <2>3. 2 * most >= square => ToSet(pairs) = ToSet(all)
    OBVIOUS
  <2>4. 2 * most < square => \A pair \in ToSet(pairs) \ ToSet(near) : nearest(pair)
    OBVIOUS
  <2> QED
    BY <2>2, <2>3, <2>4 DEF Spread, square
<1> SUFFICES Wide
  BY <1>7
<1> HIDE DEF n, near, all, related, pairs, nearest, Even, S
<1>8. CASE n < 2
  <2>1. pairs = none
    <3>1. ~(n >= 2) /\ ~(Len(all) > most)
      BY <1>1, <1>3, <1>6, <1>8
    <3> QED
      BY <1>2, <1>8, <3>1
  <2>2. none \in Seq(S) /\ OneByOne(none) /\ Len(none) = 0 /\ ToSet(none) = {}
    BY <1>0
  <2>3. ToSet(near) = {} /\ ToSet(all) = {} /\ ~(most < n - 1) /\ 0 <= most
    BY <1>1, <1>6, <1>8
  <2>4. Wide
    BY <2>1, <2>2, <2>3
  <2> QED
    BY <2>4
<1>9. CASE n >= 2 /\ Len(all) <= most
  <2>1. pairs = all
    BY <1>1, <1>2, <1>9
  <2>2. ~(2 * most < square)
    BY <1>1, <1>3, <1>5, <1>9
  <2>3. ~(most < n - 1)
    BY <1>1, <1>5, <1>9, <2>2
  <2>4. ToSet(near) \subseteq ToSet(all)
    <3>1. Neighbours(n) \subseteq Ordered(n)
      BY <1>1 DEF Neighbours, Ordered
    <3> QED
      BY <1>1, <1>3, <1>4, <1>9, <3>1
  <2>5. Wide
    BY <1>3, <1>9, <2>1, <2>2, <2>3, <2>4
  <2> QED
    BY <2>5
<1>10. CASE n >= 2 /\ ~(Len(all) <= most) /\ Len(near) >= most
  <2>1. pairs = SampleAcrossStory(near, most)
    BY <1>1, <1>2, <1>3, <1>10
  <2>2. near \in Seq(S) /\ Len(near) = n - 1 /\ OneByOne(near) /\ n > 0
    BY <1>1, <1>4, <1>10
  <2>3. /\ pairs \in Seq(S) /\ Len(pairs) <= most /\ OneByOne(pairs) /\ ToSet(pairs) \subseteq ToSet(near)
        /\ Len(near) <= most => pairs = near
    BY <2>1, <2>2, SampleIs
  <2>4. ~(2 * most >= square)
    BY <1>1, <1>3, <1>5, <1>10
  <2>5. most >= n - 1 => pairs = near
    BY <1>1, <2>2, <2>3
  <2>6. ASSUME most < n - 1, most > 1 PROVE Even
    <3>1. 1 < most /\ most < Len(events) - 1
      BY <1>1, <2>6 DEF n
    <3> QED
      BY <1>1, <2>1, <3>1, NeighboursSampled DEF Even, n, near
  <2>7. Wide
    BY <2>3, <2>4, <2>5, <2>6
  <2> QED
    BY <2>7
<1>11. CASE n >= 2 /\ ~(Len(all) <= most) /\ ~(Len(near) >= most)
  <2> DEFINE rest == most - Len(near)
             more == SampleAcrossStory(related, rest)
  <2>1. near \in Seq(S) /\ Len(near) = n - 1 /\ OneByOne(near) /\ ToSet(near) = Neighbours(n) /\ Len(near) \in Nat
    BY <1>1, <1>4, <1>11
  <2>2. Len(near) # most /\ rest \in Positive /\ ~(most < n - 1) /\ Len(near) + rest = most
    BY <1>1, <1>11, <2>1 DEF Positive
  <2>3. pairs = near \o more
    BY <1>1, <1>2, <1>3, <1>11, <2>2
  <2>4. /\ related \in Seq(S) /\ OneByOne(related)
        /\ \A pair \in ToSet(related) : pair[1] \in 1..(pair[2] - 2) /\ pair[2] \in DOMAIN events /\ nearest(pair)
    BY RelatedPairsAre DEF related, nearest, S
  <2> HIDE DEF rest
  <2>5. more \in Seq(S) /\ Len(more) <= rest /\ OneByOne(more) /\ ToSet(more) \subseteq ToSet(related)
    BY <2>2, <2>4, SampleIs
  <2>6. \A pair \in ToSet(related) : pair \notin ToSet(near)
    <3> SUFFICES ASSUME NEW pair \in ToSet(related), pair \in Neighbours(n) PROVE FALSE
      BY <2>1
    <3>1. pair[1] \in 1..n /\ pair[2] \in 1..n /\ pair[2] = pair[1] + 1
      BY DEF Neighbours
    <3>2. pair[1] <= pair[2] - 2
      BY <1>1, <2>4, <3>1
    <3> QED
      BY <1>1, <3>1, <3>2
  <2>7. ToSet(near) \cap ToSet(more) = {}
    BY <2>5, <2>6
  <2> HIDE DEF more
  <2>8. /\ pairs \in Seq(S) /\ Len(pairs) = Len(near) + Len(more)
        /\ ToSet(pairs) = ToSet(near) \cup ToSet(more) /\ OneByOne(pairs)
    <3> DEFINE both == near \o more
    <3>1. /\ both \in Seq(S) /\ Len(both) = Len(near) + Len(more)
          /\ ToSet(both) = ToSet(near) \cup ToSet(more)
          /\ OneByOne(near) /\ OneByOne(more) /\ ToSet(near) \cap ToSet(more) = {} => OneByOne(both)
      BY <2>1, <2>5, Joined
    <3> HIDE DEF both
    <3>2. pairs = both
      BY <2>3 DEF both
    <3> QED
      BY <2>1, <2>5, <2>7, <3>1, <3>2
  <2>9. Len(pairs) <= most
    <3>1. Len(more) \in Nat
      BY <2>5
    <3> QED
      BY <1>1, <2>1, <2>2, <2>5, <2>8, <3>1 DEF Positive
  <2>10. ~(2 * most >= square)
    BY <1>1, <1>3, <1>5, <1>11
  <2>11. \A pair \in ToSet(pairs) \ ToSet(near) : nearest(pair)
    BY <2>4, <2>5, <2>8
  <2>12. Wide
    BY <2>2, <2>8, <2>9, <2>10, <2>11
  <2> QED
    BY <2>12
<1> QED
  BY <1>1, <1>8, <1>9, <1>10, <1>11

\* Without a model, every pair of two events or more is left for a person.
LEMMA UnknownIsHeld ==
  ASSUME NEW events, Story(events), Len(events) >= 2, NEW allowed
  PROVE  Gate3Review(UnknownRelations(events), DOMAIN events, allowed).decision = "NEEDS_HUMAN_REVIEW"
<1> DEFINE n == Len(events)
           D == DOMAIN events
           pairs == AllPairs(events)
           unknown(pair) == [source |-> pair[1], target |-> pair[2], kind |-> "UNKNOWN", evidence |-> {}]
           relations == UnknownRelations(events)
           R == ToSet(relations)
           S == [source : Nat, target : Nat, kind : {"UNKNOWN"}, evidence : {{}}]
<1>1. n \in Nat /\ D = 1..n /\ n >= 2
  BY DEF Story
<1>2. pairs \in Seq(Nat \X Nat) /\ ToSet(pairs) = Ordered(n)
  BY AllPairsAre
<1>3. relations = [i \in DOMAIN pairs |-> unknown(pairs[i])]
  BY DEF UnknownRelations
<1>4. \A pair \in Nat \X Nat : unknown(pair) \in S
  OBVIOUS
<1>5. \A pair : unknown(pair).source = pair[1] /\ unknown(pair).target = pair[2]
                /\ unknown(pair).kind = "UNKNOWN" /\ unknown(pair).evidence = {}
  OBVIOUS
<1> HIDE DEF n, D, pairs, relations, S, unknown
<1>6. Len(pairs) \in Nat /\ DOMAIN pairs = 1..Len(pairs) /\ \A i \in 1..Len(pairs) : pairs[i] \in Nat \X Nat
  BY <1>2
<1>7. relations \in Seq(S) /\ DOMAIN relations = 1..Len(pairs)
  BY <1>3, <1>4, <1>6
<1>8. \A r : r \in R <=> \E pair \in Ordered(n) : r = unknown(pair)
  <2>1. \A r : r \in R <=> \E i \in 1..Len(pairs) : r = unknown(pairs[i])
    BY <1>3, <1>6, <1>7 DEF ToSet
  <2>2. \A pair : pair \in Ordered(n) <=> \E i \in 1..Len(pairs) : pair = pairs[i]
    BY <1>2, <1>6 DEF ToSet
  <2> QED
    BY <2>1, <2>2
<1> HIDE DEF R
<1>9. ASSUME NEW r \in R
      PROVE  KnownEnds(r, D) /\ r.kind = "UNKNOWN" /\ r.evidence = {}
  <2>1. PICK pair \in Ordered(n) : r = unknown(pair)
    BY <1>8
  <2>2. pair[1] \in 1..n /\ pair[2] \in 1..n
    BY DEF Ordered
  <2> QED
    BY <1>1, <1>5, <2>1, <2>2 DEF KnownEnds
<1>10. LeftOpen(R)
  <2> DEFINE first == <<1, 2>>
  <2>1. first \in Ordered(n)
    BY <1>1 DEF Ordered
  <2> HIDE DEF first
  <2>2. unknown(first) \in R
    BY <1>8, <2>1
  <2> QED
    BY <1>9, <2>2 DEF LeftOpen
<1>11. ~Faulty(R, D, allowed)
  <2>1. EdgesOf({r \in R : KnownEnds(r, D)}) = {}
    BY <1>9 DEF EdgesOf
  <2>2. ~HasCycle({}, D)
    BY DEF HasCycle
  <2>3. \A one, other \in R : ~Contrary(one, other, D)
    BY <1>9 DEF Contrary
  <2> QED
    BY <1>9, <2>1, <2>2, <2>3 DEF Faulty
<1>12. Gate3Review(relations, D, allowed).decision = "NEEDS_HUMAN_REVIEW"
  BY <1>7, <1>10, <1>11, Gate3ReviewIs DEF R
<1> QED
  BY <1>12 DEF relations, D

\* What a pair may quote: what is quoted of either event, and at hand.
LEMMA PairEvidenceIs ==
  ASSUME NEW R, NEW first \in Seq(R), NEW second \in Seq(R), NEW chunks
  PROVE  LET refs == PairEvidence(first, second, chunks) IN
           /\ refs \in Seq(R) /\ OneByOne(refs)
           /\ ToSet(refs) = {ref \in ToSet(first) \cup ToSet(second) : ref.chunk \in chunks}
<1> DEFINE both == first \o second
           counted == {ref \in ToSet(first) \cup ToSet(second) : ref.chunk \in chunks}
<1>1. both \in Seq(R) /\ ToSet(both) = ToSet(first) \cup ToSet(second)
  BY Joined
<1>2. PairEvidence(first, second, chunks) = EachOnce(both, counted)
  BY DEF PairEvidence
<1>3. counted \subseteq ToSet(first) \cup ToSet(second)
  OBVIOUS
<1> HIDE DEF both, counted
<1>4. /\ EachOnce(both, counted) \in Seq(R) /\ OneByOne(EachOnce(both, counted))
      /\ ToSet(EachOnce(both, counted)) = ToSet(both) \cap counted
  BY <1>1, EachOnceIs
<1>5. ToSet(both) \cap counted = counted
  BY <1>1, <1>3
<1> QED
  BY <1>2, <1>4, <1>5 DEF counted

\* A relation that is taken quotes what it may, and quotes something if it is known.
LEMMA InferredIs ==
  ASSUME NEW R, NEW refs \in Seq(R), NEW replies,
         \A asked \in 1..2 : replies[asked].indexes \in Seq(Int) /\ replies[asked].arrived \in BOOLEAN
  PROVE  LET result == Inferred(refs, replies) IN
           /\ result.evidence \subseteq ToSet(refs)
           /\ ~result.failed => (result.kind = "UNKNOWN" <=> result.evidence = {})
           /\ result.failed => result.calls = 2 \/ ~replies[1].arrived
<1> DEFINE asked == IF replies[1].arrived /\ ~Usable(replies[1], refs) THEN 2 ELSE 1
           reply == replies[asked]
           cited == {refs[i + 1] : i \in ToSet(reply.indexes)}
           result == Inferred(refs, replies)
<1>1. /\ result.calls = asked /\ result.failed = ~Usable(reply, refs) /\ result.kind = reply.kind
      /\ result.evidence = IF Usable(reply, refs) THEN cited ELSE {}
  BY DEF Inferred
<1>2. asked \in 1..2
  OBVIOUS
<1>3. asked = 1 => ~replies[1].arrived \/ Usable(replies[1], refs)
  OBVIOUS
<1> HIDE DEF asked, result
<1>4. reply.indexes \in Seq(Int)
  BY <1>2
<1>5. reply.indexes = <<>> <=> ToSet(reply.indexes) = {}
  <2> DEFINE s == reply.indexes
  <2>1. Len(s) \in Nat /\ DOMAIN s = 1..Len(s) /\ s \in Seq(Int)
    BY <1>4
  <2> HIDE DEF s
  <2>2. CASE Len(s) = 0
    <3>1. s = <<>> /\ DOMAIN s = {}
      BY <2>1, <2>2
    <3> QED
      BY <3>1 DEF ToSet, s
  <2>3. CASE Len(s) # 0
    <3>1. 1 \in DOMAIN s /\ s # <<>>
      BY <2>1, <2>3
    <3> QED
      BY <3>1 DEF ToSet, s
  <2> QED
    BY <2>2, <2>3
<1>6. ASSUME Usable(reply, refs)
      PROVE  /\ \A i \in ToSet(reply.indexes) : i \in 0..(Len(refs) - 1)
             /\ reply.kind = "UNKNOWN" <=> reply.indexes = <<>>
  BY <1>6 DEF Usable, ToSet
<1>7. ASSUME Usable(reply, refs) PROVE cited \subseteq ToSet(refs)
  <2> SUFFICES ASSUME NEW i \in ToSet(reply.indexes) PROVE refs[i + 1] \in ToSet(refs)
    OBVIOUS
  <2>1. i \in 0..(Len(refs) - 1) /\ Len(refs) \in Nat /\ DOMAIN refs = 1..Len(refs)
    BY <1>6, <1>7
  <2>2. i + 1 \in DOMAIN refs
    BY <2>1
  <2> QED
    BY <2>2 DEF ToSet
<1>8. cited = {} <=> ToSet(reply.indexes) = {}
  <2> DEFINE I == ToSet(reply.indexes)
  <2>1. cited = {refs[i + 1] : i \in I}
    OBVIOUS
  <2> HIDE DEF I, cited
  <2>2. cited = {} <=> I = {}
    BY <2>1
  <2> QED
    BY <2>2 DEF I
<1> HIDE DEF cited
<1>9. result.evidence \subseteq ToSet(refs)
  BY <1>1, <1>7
<1>10. ~result.failed => (result.kind = "UNKNOWN" <=> result.evidence = {})
  BY <1>1, <1>5, <1>6, <1>8
<1>11. result.failed => result.calls = 2 \/ ~replies[1].arrived
  <2>1. asked = 1 => reply = replies[1]
    OBVIOUS
  <2>2. asked = 1 \/ asked = 2
    BY <1>2
  <2>3. (result.failed <=> ~Usable(reply, refs)) /\ result.calls = asked
    BY <1>1
  <2> HIDE DEF reply
  <2> QED
    BY <1>3, <2>1, <2>2, <2>3
<1> QED
  BY <1>9, <1>10, <1>11 DEF result

\* What is asked about the choice of pairs, and answered.
PairsAreAsked ==
    topic = "pairs" =>
        /\ Story(question.events) /\ question.most \in Positive
        /\ answered => answer = SelectedPairs(question.events, question.most)

LEMMA StoriesAsked ==
  ASSUME AskPairs
  PROVE  Story(question.events) /\ question.most \in Positive
<1> DEFINE T == [people : Seq(Nat), place : Nat]
<1>1. Told \in T
  BY DEF Told
<1>2. CASE \E count \in 0..StoryEvents, most \in 1..StoryEvents :
             Ask("pairs", [events |-> [i \in 1..count |-> Told], most |-> most])
  <2>1. PICK count \in 0..StoryEvents, most \in 1..StoryEvents :
               question = [events |-> [i \in 1..count |-> Told], most |-> most]
    BY <1>2 DEF Ask
  <2>2. question.events = [i \in 1..count |-> Told] /\ question.most = most /\ count \in Nat
    BY <2>1
  <2>3. most \in Positive
    BY DEF Positive
  <2> HIDE DEF T
  <2>4. question.events \in Seq(T)
    BY <1>1, <2>2
  <2> QED
    BY <2>2, <2>3, <2>4 DEF Story, T
<1>3. CASE \E events \in [1..5 -> [people : {<<>>, <<1>>, <<2, 1>>}, place : 0..1]], most \in 5..9 :
             Ask("pairs", [events |-> events, most |-> most])
  <2> DEFINE people == {<<>>, <<1>>, <<2, 1>>}
             U == [people : people, place : 0..1]
             five == 5
  <2>1. PICK events \in [1..five -> U], most \in 5..9 : question = [events |-> events, most |-> most]
    BY <1>3 DEF Ask
  <2>2. question.events = events /\ question.most = most /\ most \in Positive
    BY <2>1 DEF Positive
  <2>3. \A s \in people : s \in Seq(Nat)
    <3>1. <<>> \in Seq(Nat) /\ <<1>> \in Seq(Nat) /\ <<2, 1>> \in Seq(Nat)
      OBVIOUS
    <3> QED
      BY <3>1
  <2> HIDE DEF people
  <2>4. U \subseteq T
    BY <2>3
  <2>5. five \in Nat
    OBVIOUS
  <2> HIDE DEF T, U, five
  <2>6. events \in Seq(T)
    BY <2>4, <2>5
  <2> QED
    BY <2>2, <2>6 DEF Story, T
<1> QED
  BY <1>2, <1>3 DEF AskPairs

LEMMA PairsQuestions == Spec => []PairsAreAsked
<1>1. Init => PairsAreAsked
  <2> SUFFICES ASSUME Init, topic = "pairs" PROVE PairsAreAsked
    BY DEF PairsAreAsked
  <2>1. AskPairs /\ ~answered
    BY Topics
  <2> QED
    BY <2>1, StoriesAsked DEF PairsAreAsked
<1>2. PairsAreAsked /\ [Next]_vars => PairsAreAsked'
  <2> SUFFICES ASSUME PairsAreAsked, [Next]_vars, topic' = "pairs" PROVE PairsAreAsked'
    BY DEF PairsAreAsked
  <2>1. CASE UNCHANGED vars
    BY <2>1 DEF vars, PairsAreAsked
  <2>2. CASE Next
    <3>1. topic = "pairs" /\ question' = question /\ AnswerPairs
      BY <2>2, Topics
    <3>2. answer' = SelectedPairs(question.events, question.most)
      BY <3>1 DEF AnswerPairs
    <3> QED
      BY <3>1, <3>2 DEF PairsAreAsked
  <2> QED
    BY <2>1, <2>2
<1> QED
  BY <1>1, <1>2, PTL DEF Spec

\* What is asked about one pair, and answered.
PairIsAsked ==
    topic = "pair" =>
        /\ question.first \in Seq(Quotations) /\ question.second \in Seq(Quotations)
        /\ question.replies \in PairReplies \X PairReplies
        /\ answered => answer = Inferred(PairEvidence(question.first, question.second, question.chunks), question.replies)

LEMMA PairQuestions == Spec => []PairIsAsked
<1>1. Init => PairIsAsked
  <2> SUFFICES ASSUME Init, topic = "pair" PROVE PairIsAsked
    BY DEF PairIsAsked
  <2>1. AskPair /\ ~answered
    BY Topics
  <2> DEFINE two == 2
             quoted == BoundedSeq(Quotations, two)
             scopes == {{1}, {1, 2}}
  <2>2. PICK first \in quoted, second \in quoted, chunks \in scopes, replies \in PairReplies \X PairReplies :
               question = [first |-> first, second |-> second, chunks |-> chunks, replies |-> replies]
    BY <2>1 DEF AskPair, Ask
  <2>3. two \in Nat
    OBVIOUS
  <2> HIDE DEF two
  <2>4. first \in Seq(Quotations) /\ second \in Seq(Quotations)
    BY <2>3, Bounded
  <2>5. question.first = first /\ question.second = second /\ question.replies = replies
    BY <2>2
  <2> QED
    BY <2>1, <2>4, <2>5 DEF PairIsAsked
<1>2. PairIsAsked /\ [Next]_vars => PairIsAsked'
  <2> SUFFICES ASSUME PairIsAsked, [Next]_vars, topic' = "pair" PROVE PairIsAsked'
    BY DEF PairIsAsked
  <2>1. CASE UNCHANGED vars
    BY <2>1 DEF vars, PairIsAsked
  <2>2. CASE Next
    <3>1. topic = "pair" /\ question' = question /\ AnswerPair
      BY <2>2, Topics
    <3>2. answer' = Inferred(PairEvidence(question.first, question.second, question.chunks), question.replies)
      BY <3>1 DEF AnswerPair
    <3> QED
      BY <3>1, <3>2 DEF PairIsAsked
  <2> QED
    BY <2>1, <2>2
<1> QED
  BY <1>1, <1>2, PTL DEF Spec

LEMMA RepliesAre ==
  ASSUME NEW reply \in PairReplies
  PROVE  reply.indexes \in Seq(Int) /\ reply.arrived \in BOOLEAN
<1> DEFINE lists == {<<>>, <<0>>, <<1>>, <<3>>, <<0, 0>>, <<-1>>, <<2, 0>>}
           kinds == {"BEFORE", "UNKNOWN"}
           none == <<>>
<1>1. lists \subseteq Seq(Int) /\ none \in Seq(Int)
  OBVIOUS
<1>2. reply = [arrived |-> FALSE, kind |-> "UNKNOWN", indexes |-> none]
        \/ reply \in [arrived : {TRUE}, kind : kinds, indexes : lists]
  BY DEF PairReplies
<1>3. CASE reply = [arrived |-> FALSE, kind |-> "UNKNOWN", indexes |-> none]
  <2>1. reply.indexes = none /\ reply.arrived = FALSE
    BY <1>3
  <2> QED
    BY <1>1, <2>1
<1>4. CASE reply \in [arrived : {TRUE}, kind : kinds, indexes : lists]
  <2> HIDE DEF lists, kinds
  <2>1. reply.indexes \in lists /\ reply.arrived \in {TRUE}
    BY <1>4
  <2> QED
    BY <1>1, <2>1
<1> QED
  BY <1>2, <1>3, <1>4

\* The whole way from approved proposals to an approved Timeline: the choice of
\* pairs, for stories of any length, the answer about a pair, and Gate 3, which
\* orders what is before and after, and nothing that is simultaneous.
THEOREM TimelineIsSound == Spec => []TimelineSound
<1>1. PairsAreAsked => PairsSpread
  <2> SUFFICES ASSUME PairsAreAsked, topic = "pairs", answered PROVE PairsSpread
    BY DEF PairsSpread, Replied
  <2> DEFINE events == question.events
             most == question.most
  <2>1. Story(events) /\ most \in Positive /\ answer = SelectedPairs(events, most)
    BY DEF PairsAreAsked
  <2> HIDE DEF events, most
  <2>2. Spread(events, most, answer)
    BY <2>1, PairsAreSpread
  <2> QED
    BY <2>2 DEF Spread, PairsSpread, events, most
<1>2. PairsAreAsked => RulesOnlyHeld
  <2> SUFFICES ASSUME PairsAreAsked, topic = "pairs", Len(question.events) \in 2..5 PROVE RulesOnlyHeld
    BY DEF RulesOnlyHeld, Replied
  <2> DEFINE events == question.events
             allowed == {1}
  <2>1. Story(events) /\ Len(events) >= 2
    <3>1. Story(events)
      BY DEF PairsAreAsked
    <3> DEFINE length == Len(question.events)
    <3>2. length \in 2..5
      OBVIOUS
    <3> HIDE DEF length
    <3>3. length >= 2
      BY <3>2
    <3> QED
      BY <3>1, <3>3 DEF length
  <2> HIDE DEF events, allowed
  <2>2. Gate3Review(UnknownRelations(events), DOMAIN events, allowed).decision = "NEEDS_HUMAN_REVIEW"
    BY <2>1, UnknownIsHeld
  <2> QED
    BY <2>2 DEF RulesOnlyHeld, events, allowed
<1>3. PairIsAsked => PairGrounded
  <2> SUFFICES ASSUME PairIsAsked, topic = "pair", answered PROVE PairGrounded
    BY DEF PairGrounded, Replied
  <2> DEFINE first == question.first
             second == question.second
             chunks == question.chunks
             replies == question.replies
             refs == PairEvidence(first, second, chunks)
  <2>1. first \in Seq(Quotations) /\ second \in Seq(Quotations) /\ replies \in PairReplies \X PairReplies
        /\ answer = Inferred(refs, replies)
    BY DEF PairIsAsked
  <2> HIDE DEF first, second, chunks, replies
  <2>2. refs \in Seq(Quotations) /\ ToSet(refs) = {ref \in ToSet(first) \cup ToSet(second) : ref.chunk \in chunks}
    BY <2>1, PairEvidenceIs
  <2>3. replies[1] \in PairReplies /\ replies[2] \in PairReplies
    BY <2>1
  <2>4. \A asked \in 1..2 : replies[asked].indexes \in Seq(Int) /\ replies[asked].arrived \in BOOLEAN
    <3> SUFFICES ASSUME NEW asked \in 1..2 PROVE replies[asked].indexes \in Seq(Int) /\ replies[asked].arrived \in BOOLEAN
      OBVIOUS
    <3>1. asked = 1 \/ asked = 2
      OBVIOUS
    <3>2. replies[asked] \in PairReplies
      BY <2>3, <3>1
    <3> QED
      BY <3>2, RepliesAre
  <2> HIDE DEF refs
  <2>5. /\ answer.evidence \subseteq ToSet(refs)
        /\ ~answer.failed => (answer.kind = "UNKNOWN" <=> answer.evidence = {})
        /\ answer.failed => answer.calls = 2 \/ ~replies[1].arrived
    BY <2>1, <2>2, <2>4, InferredIs
  <2> QED
    BY <2>2, <2>5 DEF PairGrounded, first, second, chunks, replies
<1> QED
  BY <1>1, <1>2, <1>3, PairsQuestions, PairQuestions, Gate3IsSound, PTL DEF TimelineSound

LEMMA OrderQuestions == Spec => []OrderIsAsked
<1>1. Init => OrderIsAsked
  <2> SUFFICES ASSUME Init, topic = "order" PROVE OrderIsAsked
    BY DEF OrderIsAsked
  <2>1. AskOrder /\ ~answered
    BY Topics
  <2>2. PICK count \in 1..TimelineEvents :
          LET relations == {r \in [source : 1..count, target : 1..count, kind : {"BEFORE", "AFTER", "SIMULTANEOUS"}] :
                              r.source # r.target}
          IN \/ Ask("order", [events |-> 1..count, relations |-> {}])
             \/ \E one, two, three \in relations :
                    Ask("order", [events |-> 1..count, relations |-> {one, two, three}])
    BY <2>1 DEF AskOrder
  <2> DEFINE relations == {r \in [source : 1..count, target : 1..count, kind : {"BEFORE", "AFTER", "SIMULTANEOUS"}] :
                              r.source # r.target}
             some == 1..count
  <2>3. \A r \in relations : r.source \in some /\ r.target \in some
    OBVIOUS
  <2>4. \/ Ask("order", [events |-> some, relations |-> {}])
        \/ \E one, two, three \in relations : Ask("order", [events |-> some, relations |-> {one, two, three}])
    BY <2>2
  <2>5. IsFiniteSet(some)
    <3> DEFINE first == 1
    <3>1. first \in Int /\ count \in Int
      OBVIOUS
    <3> HIDE DEF first
    <3>2. IsFiniteSet(first..count)
      BY <3>1, FS_Interval
    <3> QED
      BY <3>2 DEF first
  <2> HIDE DEF relations, some
  <2>6. question.events = some /\ Within(question.relations, some)
    BY <2>3, <2>4 DEF Ask, Within
  <2> QED
    BY <2>1, <2>5, <2>6 DEF OrderIsAsked
<1>2. OrderIsAsked /\ [Next]_vars => OrderIsAsked'
  <2> SUFFICES ASSUME OrderIsAsked, [Next]_vars, topic' = "order" PROVE OrderIsAsked'
    BY DEF OrderIsAsked
  <2>1. CASE UNCHANGED vars
    BY <2>1 DEF vars, OrderIsAsked
  <2>2. CASE Next
    <3>1. topic = "order" /\ question' = question /\ AnswerOrder
      BY <2>2, Topics
    <3> DEFINE before == Predecessors(question.events, question.relations)
               cyclic == Cyclic(before)
               order == TrustedOrder(before)
    <3>2. answer' = [cyclic |-> cyclic, order |-> order]
      BY <3>1 DEF AnswerOrder, Context
    <3>3. IsFiniteSet(question.events) /\ Within(question.relations, question.events)
      BY <3>1 DEF OrderIsAsked
    <3> HIDE DEF cyclic, order
    <3>4. answer'.cyclic = cyclic /\ answer'.order = order
      BY <3>2
    <3> QED
      BY <3>1, <3>3, <3>4 DEF OrderIsAsked, cyclic, order
  <2> QED
    BY <2>1, <2>2
<1> QED
  BY <1>1, <1>2, PTL DEF Spec

LEMMA PlanQuestions == Spec => []PlanIsAsked
<1>1. Init => PlanIsAsked
  <2> SUFFICES ASSUME Init, topic = "plan" PROVE PlanIsAsked
    BY DEF PlanIsAsked
  <2>1. AskPlan /\ ~answered
    BY Topics
  <2> QED
    BY <2>1, PlansAsked DEF PlanIsAsked
<1>2. PlanIsAsked /\ [Next]_vars => PlanIsAsked'
  <2> SUFFICES ASSUME PlanIsAsked, [Next]_vars, topic' = "plan" PROVE PlanIsAsked'
    BY DEF PlanIsAsked
  <2>1. CASE UNCHANGED vars
    BY <2>1 DEF vars, PlanIsAsked
  <2>2. CASE Next
    <3>1. topic = "plan" /\ question' = question /\ AnswerPlan
      BY <2>2, Topics
    <3> DEFINE decision == PlanDecision(Problems(PlanOf(question.updates), question.canon, {1, 2}, TRUE))
               commits == Commits(question.updates, question.canon)
               rows == AfterCommit(question.canon, question.updates)
    <3>2. answer' = [decision |-> decision, commits |-> commits, rows |-> rows]
      BY <3>1 DEF AnswerPlan, PlanOf
    <3> HIDE DEF decision, commits, rows
    <3>3. answer'.decision = decision /\ answer'.commits = commits /\ answer'.rows = rows
      BY <3>2
    <3>4. /\ question.updates \in Seq(PlanUpdates)
          /\ \A i, j \in DOMAIN question.updates : i # j => question.updates[i].id # question.updates[j].id
          /\ StoredSoundly(question.canon) /\ Comparable(question.canon)
      BY <3>1 DEF PlanIsAsked
    <3> QED
      BY <3>1, <3>3, <3>4 DEF PlanIsAsked, decision, commits, rows
  <2> QED
    BY <2>1, <2>2
<1> QED
  BY <1>1, <1>2, PTL DEF Spec

LEMMA DraftQuestions == Spec => []DraftIsAsked
<1>1. Init => DraftIsAsked
  <2> SUFFICES ASSUME Init, topic = "draft" PROVE DraftIsAsked
    BY DEF DraftIsAsked
  <2>1. AskDraft /\ ~answered
    BY Topics
  <2> QED
    BY <2>1, DraftsAsked DEF DraftIsAsked
<1>2. DraftIsAsked /\ [Next]_vars => DraftIsAsked'
  <2> SUFFICES ASSUME DraftIsAsked, [Next]_vars, topic' = "draft" PROVE DraftIsAsked'
    BY DEF DraftIsAsked
  <2>1. CASE UNCHANGED vars
    BY <2>1 DEF vars, DraftIsAsked
  <2>2. CASE Next
    <3>1. topic = "draft" /\ question' = question /\ AnswerDraft
      BY <2>2, Topics
    <3> DEFINE accepted == Accepts(question.raw, question.context)
               plan == IF Accepts(question.raw, question.context) THEN NormalPlan(question.raw, question.context) ELSE <<>>
    <3>2. answer' = [accepted |-> accepted, plan |-> plan]
      BY <3>1 DEF AnswerDraft
    <3> HIDE DEF accepted, plan
    <3>3. answer'.accepted = accepted /\ answer'.plan = plan
      BY <3>2
    <3>4. /\ DraftShaped(question.raw) /\ question.raw.updates \in Seq(DraftUpdates)
          /\ question.context.canon = People \cup {StoredState}
      BY <3>1 DEF DraftIsAsked
    <3> QED
      BY <3>1, <3>3, <3>4 DEF DraftIsAsked, accepted, plan
  <2> QED
    BY <2>1, <2>2
<1> QED
  BY <1>1, <1>2, PTL DEF Spec

\* A draft is numbered, normalised, matched and approved the same however a model words it.
THEOREM PlansAreSound == Spec => []PlansSound
<1>1. OrderIsAsked => OrderEstablished
  BY OrdersEstablished
<1>2. PlanIsAsked => ApprovedCoherent /\ PlanOrderFree
  BY PlansAreCoherent
<1>3. DraftIsAsked => LocalIdsForgotten /\ NormalisedReviewable /\ TakenForOne
  BY DraftsAreSound
<1>4. OrderIsAsked /\ PlanIsAsked /\ DraftIsAsked => PlansSound
  BY <1>1, <1>2, <1>3 DEF PlansSound
<1> QED
  BY <1>4, OrderQuestions, PlanQuestions, DraftQuestions, PTL

=============================================================================
