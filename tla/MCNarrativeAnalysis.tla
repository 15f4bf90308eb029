------------------------ MODULE MCNarrativeAnalysis ------------------------
(***************************************************************************)
(* Small instances of NarrativeAnalysis.  A shape is a forest of windows:  *)
(* the planned windows are its roots, a chunk split or a slice split of a  *)
(* window creates its kids.                                                *)
(***************************************************************************)
EXTENDS NarrativeAnalysis, TLC

Leaf(w) == w :> {}

\* A window over two owned chunks.
PairWindows == {"w1", "w1a", "w1b"}
PairKids == "w1" :> {"w1a", "w1b"} @@ Leaf("w1a") @@ Leaf("w1b")
PairScope == "w1" :> {1, 2} @@ "w1a" :> {1} @@ "w1b" :> {2}
PairRank == "w1" :> 0 @@ "w1a" :> 1 @@ "w1b" :> 2

\* A tail window that reads two chunks, owns one, and can be narrowed to it and then sliced.
TailWindows == {"w1", "w1a", "w1a0", "w1a1"}
TailKids == "w1" :> {"w1a"} @@ "w1a" :> {"w1a0", "w1a1"} @@ Leaf("w1a0") @@ Leaf("w1a1")
TailScope == "w1" :> {1, 2} @@ "w1a" :> {1, 2} @@ "w1a0" :> {1} @@ "w1a1" :> {2}
TailRank == "w1" :> 0 @@ "w1a" :> 1 @@ "w1a0" :> 2 @@ "w1a1" :> 3

\* A window over three owned chunks, the default window size.
TripleWindows == {"w1", "w1a", "w1b", "w1c"}
TripleKids == "w1" :> {"w1a", "w1b", "w1c"} @@ Leaf("w1a") @@ Leaf("w1b") @@ Leaf("w1c")
TripleScope == "w1" :> {1, 2, 3} @@ "w1a" :> {1} @@ "w1b" :> {2} @@ "w1c" :> {3}
TripleRank == "w1" :> 0 @@ "w1a" :> 1 @@ "w1b" :> 2 @@ "w1c" :> 3

\* One window over one chunk, which max_split_depth = 0 keeps whole.
SingleWindows == {"w1"}
SingleKids == Leaf("w1")
SingleScope == "w1" :> {1}
SingleRank == "w1" :> 0

WorkerSymmetry == Permutations(Workers)
=============================================================================
