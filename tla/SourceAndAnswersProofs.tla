---------------------- MODULE SourceAndAnswersProofs ------------------------
(***************************************************************************)
(* The rules from the text to the answers of the agents, for inputs of     *)
(* every size: what a text of any length is cut into, and what the audit   *)
(* of a document answers, whatever it is given; what importing a text a    *)
(* second time leaves of it; what the plan of analysis windows promises    *)
(* for documents of any length and every size, stride and batch, and its   *)
(* cap on provider requests; what a reference that is good in the          *)
(* beginning of a text that a window shows is in the whole text, and what  *)
(* normalising, grounding and cutting leave of it, over any alphabet; how  *)
(* calls end and which contracts agree.                                    *)
(***************************************************************************)
EXTENDS MCRules, FiniteSetTheorems, SequenceTheorems, TLAPS

\* The least of some numbers.
LEMMA LeastOf ==
  ASSUME NEW S \in SUBSET Nat, S # {}
  PROVE  \E x \in S : \A y \in S : x <= y
<1>1. PICK x \in S : \A y \in S : <<y, x>> \notin OpToRel(<, Nat)
  BY NatLessThanWellFounded, WFMin
<1>2. ASSUME NEW y \in S PROVE x <= y
  <2>1. y < x => <<y, x>> \in OpToRel(<, Nat)
    BY DEF OpToRel
  <2>2. x \in Nat /\ y \in Nat
    OBVIOUS
  <2>3. ~(y < x)
    BY <1>1, <2>1
  <2> QED
    BY <2>2, <2>3
<1> QED
  BY <1>2

\* A set of numbers that holds 0 and every successor holds all numbers.
LEMMA InductiveSet ==
  ASSUME NEW S, 0 \in S, \A n \in Nat : n \in S => n + 1 \in S
  PROVE  Nat \subseteq S
<1> DEFINE T == Nat \ S
<1> SUFFICES ASSUME T # {} PROVE FALSE
  OBVIOUS
<1>1. T \in SUBSET Nat
  OBVIOUS
<1>2. PICK x \in T : \A y \in T : x <= y
  <2> HIDE DEF T
  <2> QED
    BY <1>1, LeastOf
<1>3. x # 0 /\ x - 1 \in Nat /\ ~(x <= x - 1) /\ (x - 1) + 1 = x
  OBVIOUS
<1>4. x - 1 \in S
  BY <1>2, <1>3
<1> QED
  BY <1>3, <1>4

LEMMA MaxIn ==
  ASSUME NEW n \in Nat, NEW S \in SUBSET (0..n), S # {}
  PROVE  Max(S) \in S /\ \A y \in S : Max(S) >= y
<1> DEFINE T == {n - x : x \in S}
<1>1. T \in SUBSET Nat /\ T # {}
  <2>1. \A x \in S : n - x \in Nat /\ n - x \in T
    OBVIOUS
  <2>2. T \in SUBSET Nat
    BY <2>1
  <2>3. PICK x \in S : TRUE
    OBVIOUS
  <2> QED
    BY <2>1, <2>2, <2>3
<1>2. PICK t \in T : \A u \in T : t <= u
  <2> HIDE DEF T
  <2> QED
    BY <1>1, LeastOf
<1>3. PICK x \in S : t = n - x
  OBVIOUS
<1>4. \A y \in S : x >= y
  <2> SUFFICES ASSUME NEW y \in S PROVE x >= y
    OBVIOUS
  <2>1. n - y \in T /\ y \in 0..n /\ x \in 0..n
    OBVIOUS
  <2>2. t <= n - y
    BY <1>2, <2>1
  <2> QED
    BY <1>3, <2>1, <2>2
<1>5. \E m \in S : \A y \in S : m >= y
  BY <1>4
<1> QED
  BY <1>5 DEF Max

OneByOne(order) == \A one, other \in DOMAIN order : order[one] = order[other] => one = other

\* A numbering counts the numbers below each.
LEMMA NumberCounts ==
  ASSUME NEW T, IsFiniteSet(T), NEW order \in [T -> 0..(Cardinality(T) - 1)], OneByOne(order), NEW t \in T
  PROVE  Cardinality({x \in T : order[x] < order[t]}) = order[t]
<1> DEFINE n == Cardinality(T)
           zero == 0
           top == n - 1
           all == zero..top
           last == order[t] - 1
           less == {x \in T : order[x] < order[t]}
           below == [x \in less |-> order[x]]
<1>1. n \in Nat /\ n > 0
  <2>1. n \in Nat /\ (n = 0 => T = {})
    BY FS_CardinalityType, FS_EmptySet
  <2> QED
    BY <2>1
<1>2. order \in Injection(T, all)
  BY DEF OneByOne, Injection, IsInjective
<1>3. IsFiniteSet(all) /\ Cardinality(all) = n
  <2>1. zero \in Int /\ top \in Int /\ ~(zero > top) /\ top - zero + 1 = n
    BY <1>1
  <2> HIDE DEF zero, top, n
  <2> QED
    BY <2>1, FS_Interval
<1>4. order \in Surjection(T, all)
  <2> HIDE DEF all
  <2> QED
    BY <1>2, <1>3, FS_Injection
<1>5. order[t] \in all /\ order[t] \in Nat /\ last \in Int /\ order[t] <= top
  BY <1>1
<1> DEFINE some == zero..last
<1>6. below \in Bijection(less, some)
  <2>1. \A x \in less : x \in T /\ order[x] \in all /\ order[x] < order[t]
    OBVIOUS
  <2>2. below \in [less -> some]
    BY <1>5, <2>1
  <2>3. \A x, y \in less : below[x] = below[y] => x = y
    BY DEF OneByOne
  <2>4. ASSUME NEW k \in some PROVE \E x \in less : below[x] = k
    <3>1. k \in all /\ k < order[t]
      BY <1>1, <1>5
    <3>2. PICK x \in T : order[x] = k
      BY <1>4, <3>1 DEF Surjection
    <3> QED
      BY <3>1, <3>2
  <2> QED
    BY <2>2, <2>3, <2>4 DEF Bijection, Injection, Surjection, IsInjective
<1>7. IsFiniteSet(less)
  BY FS_Subset
<1>8. Cardinality(some) = Cardinality(less)
  <2> HIDE DEF below, less, some
  <2>1. ExistsBijection(less, some)
    BY <1>6 DEF ExistsBijection
  <2> QED
    BY <1>7, <2>1, FS_Bijection
<1>9. Cardinality(some) = order[t]
  <2>1. zero \in Int /\ last \in Int /\ (zero > last => order[t] = 0) /\ last - zero + 1 = order[t]
    BY <1>5
  <2> HIDE DEF zero, last
  <2>2. Cardinality(some) = IF zero > last THEN 0 ELSE last - zero + 1
    BY <2>1, FS_Interval
  <2> QED
    BY <2>1, <2>2
<1> QED
  BY <1>8, <1>9

\* The least and the greatest of finitely many numbers.
LEMMA LeastIs ==
  ASSUME NEW S \in SUBSET Int, NEW x \in S, \A y \in S : x <= y
  PROVE  Min(S) = x
<1>1. \A z \in S : (\A y \in S : z <= y) => z = x
  OBVIOUS
<1>2. x \in S /\ \A y \in S : x <= y
  OBVIOUS
<1> QED
  BY <1>1, <1>2, Zenon DEF Min

\* The least of some numbers is one of them.
LEMMA MinIn ==
  ASSUME NEW S \in SUBSET Nat, S # {}
  PROVE  Min(S) \in S /\ \A y \in S : Min(S) <= y
<1>1. PICK x \in S : \A y \in S : x <= y
  BY LeastOf
<1>2. S \in SUBSET Int
  OBVIOUS
<1>3. Min(S) = x
  BY <1>1, <1>2, LeastIs
<1> QED
  BY <1>1, <1>3

(***************************************************************************)
(* The audit of a document, whatever it is given.                          *)
(***************************************************************************)

\* What every finding of the audit is.
FindingFit(finding, places) ==
    /\ finding.severity \in {"BLOCKING", "REVIEW", "WARNING"}
    /\ finding.code # "GATE1_EXECUTION_FAILED"
    /\ finding.chunks \subseteq places

\* The fields of a finding.
LEMMA FindingHas ==
  ASSUME NEW code, NEW severity, NEW chapters, NEW chunks
  PROVE  /\ Finding(code, severity, chapters, chunks).code = code
         /\ Finding(code, severity, chapters, chunks).severity = severity
         /\ Finding(code, severity, chapters, chunks).chapters = chapters
         /\ Finding(code, severity, chapters, chunks).chunks = chunks
BY DEF Finding

LEMMA OnlyHas ==
  ASSUME NEW condition, NEW finding
  PROVE  /\ \A f \in Only(condition, finding) : condition /\ f = finding
         /\ condition => finding \in Only(condition, finding)
BY DEF Only

\* Twins are all places of one value.
LEMMA TwinsAre ==
  ASSUME NEW values
  PROVE  /\ \A twins \in Twins(values) : twins \subseteq DOMAIN values
         /\ \A twins \in Twins(values) : \E i \in DOMAIN values : twins = {j \in DOMAIN values : values[j] = values[i]}
BY DEF Twins

\* What is found about the document is about none of its chapters and chunks.
LEMMA DocumentFit ==
  ASSUME NEW input, NEW places, NEW f \in DocumentFindings(input)
  PROVE  FindingFit(f, places) /\ f.chunks = {} /\ f.chapters = {}
<1> DEFINE found == {input.text[k] : k \in DOMAIN input.text}
           severity == IF "NUL" \in found THEN "BLOCKING" ELSE "REVIEW"
           run == LongestRun(input.text)
<1> HIDE DEF found, run
<1>1. \/ f \in Only(IsBlank(input.text), Finding("DOCUMENT_EMPTY", "BLOCKING", {}, {}))
      \/ f \in Only(~input.sound, Finding("DOCUMENT_CHECKSUM_MISMATCH", "BLOCKING", {}, {}))
      \/ f \in Only("FFFD" \in found, Finding("DOCUMENT_TEXT_REPLACEMENT_CHARACTER", "REVIEW", {}, {}))
      \/ f \in Only({"NUL", "CTL"} \cap found # {}, Finding("DOCUMENT_FORBIDDEN_CONTROL_CHARACTER", severity, {}, {}))
      \/ f \in WhitespaceFindings(input.text, input.version)
  BY DEF DocumentFindings, found
<1>2. f \in WhitespaceFindings(input.text, input.version) =>
        \/ f = Finding("DOCUMENT_EXCESSIVE_WHITESPACE", "REVIEW", {}, {})
        \/ f = Finding("DOCUMENT_EXCESSIVE_WHITESPACE", "WARNING", {}, {})
  BY DEF WhitespaceFindings, Only
<1>3. severity \in {"BLOCKING", "REVIEW"}
  OBVIOUS
<1> HIDE DEF severity
<1>4. \/ f = Finding("DOCUMENT_EMPTY", "BLOCKING", {}, {})
      \/ f = Finding("DOCUMENT_CHECKSUM_MISMATCH", "BLOCKING", {}, {})
      \/ f = Finding("DOCUMENT_TEXT_REPLACEMENT_CHARACTER", "REVIEW", {}, {})
      \/ f = Finding("DOCUMENT_FORBIDDEN_CONTROL_CHARACTER", severity, {}, {})
      \/ f = Finding("DOCUMENT_EXCESSIVE_WHITESPACE", "REVIEW", {}, {})
      \/ f = Finding("DOCUMENT_EXCESSIVE_WHITESPACE", "WARNING", {}, {})
  BY <1>1, <1>2 DEF Only
<1> QED
  BY <1>3, <1>4 DEF FindingFit, Finding

\* The findings about one chapter.
About(input, i) ==
    LET chapters == input.chapters
        orders == Belonging(chapters[i], input.chunks)
        one(code, severity) == Finding(code, severity, {i}, {})
    IN Only(~chapters[i].ours, one("CHAPTER_SCOPE_MISMATCH", "BLOCKING"))
       \cup Only(~chapters[i].titled, one("CHAPTER_TITLE_BLANK", "REVIEW"))
       \cup Only(orders = {}, one("CHAPTER_EMPTY", "REVIEW"))
       \cup Only(orders # {} /\ <<Min(orders), Max(orders)>> # <<chapters[i].first, chapters[i].last>>,
                 one("CHAPTER_CHUNK_RANGE_MISMATCH", "BLOCKING"))

\* The findings about chapters, by what they are about.
LEMMA ChapterFindingsAre ==
  ASSUME NEW input
  PROVE  ChapterFindings(input) =
          {Finding("CHAPTER_ID_DUPLICATE", "BLOCKING", twins, {}) :
            twins \in Twins([i \in DOMAIN input.chapters |-> input.chapters[i].id])}
          \cup {Finding("CHAPTER_ORDER_DUPLICATE", "BLOCKING", twins, {}) :
            twins \in Twins([i \in DOMAIN input.chapters |-> input.chapters[i].order])}
          \cup Only(~Contiguous([i \in DOMAIN input.chapters |-> input.chapters[i].order]),
                 Finding("CHAPTER_ORDER_NON_CONTIGUOUS", "BLOCKING", {}, {}))
          \cup UNION {About(input, i) : i \in DOMAIN input.chapters}
BY DEF ChapterFindings, About

\* What is found about chapters is about none of the chunks, and never sends a file back.
LEMMA ChapterFit ==
  ASSUME NEW input, NEW places, NEW f \in ChapterFindings(input)
  PROVE  FindingFit(f, places) /\ f.chunks = {} /\ f.code \notin ReimportCodes
<1> DEFINE ids == Twins([i \in DOMAIN input.chapters |-> input.chapters[i].id])
           orders == Twins([i \in DOMAIN input.chapters |-> input.chapters[i].order])
           gap == ~Contiguous([i \in DOMAIN input.chapters |-> input.chapters[i].order])
<1> HIDE DEF ids, orders, gap
<1>1. \/ \E twins \in ids : f = Finding("CHAPTER_ID_DUPLICATE", "BLOCKING", twins, {})
      \/ \E twins \in orders : f = Finding("CHAPTER_ORDER_DUPLICATE", "BLOCKING", twins, {})
      \/ f \in Only(gap, Finding("CHAPTER_ORDER_NON_CONTIGUOUS", "BLOCKING", {}, {}))
      \/ \E i \in DOMAIN input.chapters : f \in About(input, i)
  BY ChapterFindingsAre DEF ids, orders, gap
<1>2. \A i \in DOMAIN input.chapters : f \in About(input, i) =>
        \/ f = Finding("CHAPTER_SCOPE_MISMATCH", "BLOCKING", {i}, {})
        \/ f = Finding("CHAPTER_TITLE_BLANK", "REVIEW", {i}, {})
        \/ f = Finding("CHAPTER_EMPTY", "REVIEW", {i}, {})
        \/ f = Finding("CHAPTER_CHUNK_RANGE_MISMATCH", "BLOCKING", {i}, {})
  BY DEF About, Only
<1>3. \/ \E twins \in ids : f = Finding("CHAPTER_ID_DUPLICATE", "BLOCKING", twins, {})
      \/ \E twins \in orders : f = Finding("CHAPTER_ORDER_DUPLICATE", "BLOCKING", twins, {})
      \/ f = Finding("CHAPTER_ORDER_NON_CONTIGUOUS", "BLOCKING", {}, {})
      \/ \E i \in DOMAIN input.chapters :
        \/ f = Finding("CHAPTER_SCOPE_MISMATCH", "BLOCKING", {i}, {})
        \/ f = Finding("CHAPTER_TITLE_BLANK", "REVIEW", {i}, {})
        \/ f = Finding("CHAPTER_EMPTY", "REVIEW", {i}, {})
        \/ f = Finding("CHAPTER_CHUNK_RANGE_MISMATCH", "BLOCKING", {i}, {})
  BY <1>1, <1>2, OnlyHas
<1> QED
  BY <1>3 DEF FindingFit, Finding, ReimportCodes

Both(pair) == {pair[1], pair[2]}

ChunkIds(chunks) == [i \in DOMAIN chunks |-> chunks[i].id]

OrdersOf(chunks) == [i \in DOMAIN chunks |-> chunks[i].order]

\* The places of the chunks whose offsets can be used.
Placed(input) == {i \in DOMAIN input.chunks : Audited(input.chunks[i], input.text)}

Places(input) ==
    [i \in DOMAIN input.chunks |-> IF i \in Placed(input) THEN <<input.chunks[i].start, input.chunks[i].stop>> ELSE <<i>>]

Crossed(input) ==
    {pair \in Placed(input) \X Placed(input) :
        pair[1] < pair[2] /\ Overlapping(input.chunks[pair[1]], input.chunks[pair[2]])}

\* The findings about chunks, by what they are about.
LEMMA ChunkFindingsAre ==
  ASSUME NEW input
  PROVE  ChunkFindings(input) =
          Only(input.chunks = <<>>, Finding("NO_USABLE_CHUNKS", "BLOCKING", {}, {}))
          \cup {Finding("CHUNK_ID_DUPLICATE", "BLOCKING", {}, twins) :
            twins \in Twins(ChunkIds(input.chunks))}
          \cup {Finding("CHUNK_ORDER_DUPLICATE", "BLOCKING", {}, twins) :
            twins \in Twins(OrdersOf(input.chunks))}
          \cup Only(~Contiguous(OrdersOf(input.chunks)),
                 Finding("CHUNK_ORDER_NON_CONTIGUOUS", "BLOCKING", {}, {}))
          \cup (UNION {ChunkFinding(input, i) : i \in DOMAIN input.chunks})
          \cup {Finding("CHUNK_RANGE_DUPLICATE", "BLOCKING", {}, twins) : twins \in Twins(Places(input))}
          \cup {Finding("CHUNK_RANGE_OVERLAP", "BLOCKING", {}, Both(pair)) : pair \in Crossed(input)}
          \cup {Finding("CHUNK_TEXT_EXACT_DUPLICATE", "WARNING", {}, twins) : twins \in SameTexts(input.chunks)}
BY Zenon DEF ChunkFindings, Both, Placed, Places, Crossed, ChunkIds, OrdersOf

\* One of the findings about chunks.
LEMMA ChunkFindingIs ==
  ASSUME NEW input, NEW f
  PROVE  f \in ChunkFindings(input) <=>
      \/ input.chunks = <<>> /\ f = Finding("NO_USABLE_CHUNKS", "BLOCKING", {}, {})
      \/ \E twins \in Twins(ChunkIds(input.chunks)) :
            f = Finding("CHUNK_ID_DUPLICATE", "BLOCKING", {}, twins)
      \/ \E twins \in Twins(OrdersOf(input.chunks)) :
            f = Finding("CHUNK_ORDER_DUPLICATE", "BLOCKING", {}, twins)
      \/ /\ ~Contiguous(OrdersOf(input.chunks))
         /\ f = Finding("CHUNK_ORDER_NON_CONTIGUOUS", "BLOCKING", {}, {})
      \/ \E i \in DOMAIN input.chunks : f \in ChunkFinding(input, i)
      \/ \E twins \in Twins(Places(input)) : f = Finding("CHUNK_RANGE_DUPLICATE", "BLOCKING", {}, twins)
      \/ \E pair \in Crossed(input) : f = Finding("CHUNK_RANGE_OVERLAP", "BLOCKING", {}, Both(pair))
      \/ \E twins \in SameTexts(input.chunks) : f = Finding("CHUNK_TEXT_EXACT_DUPLICATE", "WARNING", {}, twins)
<1> DEFINE ids == Twins(ChunkIds(input.chunks))
           orders == Twins(OrdersOf(input.chunks))
           gap == ~Contiguous(OrdersOf(input.chunks))
           ranges == Twins(Places(input))
           crossed == Crossed(input)
           same == SameTexts(input.chunks)
           none == input.chunks = <<>>
<1>1. ChunkFindings(input) =
          Only(none, Finding("NO_USABLE_CHUNKS", "BLOCKING", {}, {}))
          \cup {Finding("CHUNK_ID_DUPLICATE", "BLOCKING", {}, twins) : twins \in ids}
          \cup {Finding("CHUNK_ORDER_DUPLICATE", "BLOCKING", {}, twins) : twins \in orders}
          \cup Only(gap, Finding("CHUNK_ORDER_NON_CONTIGUOUS", "BLOCKING", {}, {}))
          \cup (UNION {ChunkFinding(input, i) : i \in DOMAIN input.chunks})
          \cup {Finding("CHUNK_RANGE_DUPLICATE", "BLOCKING", {}, twins) : twins \in ranges}
          \cup {Finding("CHUNK_RANGE_OVERLAP", "BLOCKING", {}, Both(pair)) : pair \in crossed}
          \cup {Finding("CHUNK_TEXT_EXACT_DUPLICATE", "WARNING", {}, twins) : twins \in same}
  BY ChunkFindingsAre
<1> HIDE DEF ids, orders, gap, ranges, crossed, same, none
<1>2. f \in ChunkFindings(input) <=>
      \/ none /\ f = Finding("NO_USABLE_CHUNKS", "BLOCKING", {}, {})
      \/ \E twins \in ids : f = Finding("CHUNK_ID_DUPLICATE", "BLOCKING", {}, twins)
      \/ \E twins \in orders : f = Finding("CHUNK_ORDER_DUPLICATE", "BLOCKING", {}, twins)
      \/ gap /\ f = Finding("CHUNK_ORDER_NON_CONTIGUOUS", "BLOCKING", {}, {})
      \/ \E i \in DOMAIN input.chunks : f \in ChunkFinding(input, i)
      \/ \E twins \in ranges : f = Finding("CHUNK_RANGE_DUPLICATE", "BLOCKING", {}, twins)
      \/ \E pair \in crossed : f = Finding("CHUNK_RANGE_OVERLAP", "BLOCKING", {}, Both(pair))
      \/ \E twins \in same : f = Finding("CHUNK_TEXT_EXACT_DUPLICATE", "WARNING", {}, twins)
  BY <1>1 DEF Only
<1> QED
  BY <1>2, Zenon DEF ids, orders, gap, ranges, crossed, same, none

\* One of the findings about one chunk.
LEMMA OwnFindingIs ==
  ASSUME NEW input, NEW i, NEW f
  PROVE  f \in ChunkFinding(input, i) <=>
      \/ ~input.chunks[i].ours /\ f = Finding("CHUNK_SCOPE_MISMATCH", "BLOCKING", {}, {i})
      \/ /\ \A k \in DOMAIN input.chapters : input.chapters[k].id # input.chunks[i].chapter
         /\ f = Finding("CHUNK_CHAPTER_NOT_FOUND", "BLOCKING", {}, {i})
      \/ IsBlank(input.chunks[i].text) /\ f = Finding("CHUNK_TEXT_WHITESPACE_ONLY", "BLOCKING", {}, {i})
      \/ ~input.chunks[i].sound /\ f = Finding("CHUNK_CHECKSUM_MISMATCH", "BLOCKING", {}, {i})
      \/ ~Recorded(input.chunks[i]) /\ f = Finding("CHUNK_OFFSETS_MISSING", "BLOCKING", {}, {i})
      \/ /\ Recorded(input.chunks[i]) /\ ~InBounds(input.chunks[i], input.text)
         /\ f = Finding("CHUNK_OFFSET_OUT_OF_BOUNDS", "BLOCKING", {}, {i})
      \/ /\ Audited(input.chunks[i], input.text) /\ ~Verbatim(input.chunks[i], input.text)
         /\ f = Finding("CHUNK_TEXT_RANGE_MISMATCH", "BLOCKING", {}, {i})
      \/ Len(input.chunks[i].text) > MaxChunk /\ f = Finding("CHUNK_LENGTH_EXCEEDS_POLICY", "REVIEW", {}, {i})
BY DEF ChunkFinding, Only

\* What is found about chunks is about chunks that exist, and never sends a file back.
LEMMA ChunkFit ==
  ASSUME NEW input, NEW f \in ChunkFindings(input)
  PROVE  FindingFit(f, DOMAIN input.chunks) /\ f.chapters = {} /\ f.code \notin ReimportCodes
<1> DEFINE places == DOMAIN input.chunks
<1>1. \/ f = Finding("NO_USABLE_CHUNKS", "BLOCKING", {}, {})
      \/ \E twins \in Twins(ChunkIds(input.chunks)) :
            f = Finding("CHUNK_ID_DUPLICATE", "BLOCKING", {}, twins)
      \/ \E twins \in Twins(OrdersOf(input.chunks)) :
            f = Finding("CHUNK_ORDER_DUPLICATE", "BLOCKING", {}, twins)
      \/ f = Finding("CHUNK_ORDER_NON_CONTIGUOUS", "BLOCKING", {}, {})
      \/ \E i \in DOMAIN input.chunks : f \in ChunkFinding(input, i)
      \/ \E twins \in Twins(Places(input)) : f = Finding("CHUNK_RANGE_DUPLICATE", "BLOCKING", {}, twins)
      \/ \E pair \in Crossed(input) : f = Finding("CHUNK_RANGE_OVERLAP", "BLOCKING", {}, Both(pair))
      \/ \E twins \in SameTexts(input.chunks) : f = Finding("CHUNK_TEXT_EXACT_DUPLICATE", "WARNING", {}, twins)
  BY ChunkFindingIs
<1>2. \A i \in places : f \in ChunkFinding(input, i) => \E code \in
        {"CHUNK_SCOPE_MISMATCH", "CHUNK_CHAPTER_NOT_FOUND", "CHUNK_TEXT_WHITESPACE_ONLY", "CHUNK_CHECKSUM_MISMATCH",
         "CHUNK_OFFSETS_MISSING", "CHUNK_OFFSET_OUT_OF_BOUNDS", "CHUNK_TEXT_RANGE_MISMATCH",
         "CHUNK_LENGTH_EXCEEDS_POLICY"}, severity \in {"BLOCKING", "REVIEW"} :
            f = Finding(code, severity, {}, {i})
  BY OwnFindingIs
<1>3. /\ \A twins \in Twins(ChunkIds(input.chunks)) : twins \subseteq places
      /\ \A twins \in Twins(OrdersOf(input.chunks)) : twins \subseteq places
      /\ \A twins \in Twins(Places(input)) : twins \subseteq places
      /\ \A twins \in SameTexts(input.chunks) : twins \subseteq places
      /\ \A pair \in Crossed(input) : Both(pair) \subseteq places
  BY TwinsAre DEF Both, ChunkIds, OrdersOf, Places, SameTexts, Crossed, Placed
<1> HIDE DEF places
<1>4. \E code, severity, chunks : /\ code \notin ReimportCodes /\ code # "GATE1_EXECUTION_FAILED" /\ severity \in {"BLOCKING", "REVIEW", "WARNING"}
                                  /\ chunks \subseteq places /\ f = Finding(code, severity, {}, chunks)
  <2> DEFINE Kind(code, severity, chunks) ==
               /\ code \notin ReimportCodes /\ code # "GATE1_EXECUTION_FAILED" /\ severity \in {"BLOCKING", "REVIEW", "WARNING"}
               /\ chunks \subseteq places /\ f = Finding(code, severity, {}, chunks)
  <2>1. CASE f = Finding("NO_USABLE_CHUNKS", "BLOCKING", {}, {})
    <3>1. Kind("NO_USABLE_CHUNKS", "BLOCKING", {})
      BY <2>1 DEF ReimportCodes
    <3> QED
      BY <3>1
  <2>2. CASE \E twins \in Twins(ChunkIds(input.chunks)) :
                f = Finding("CHUNK_ID_DUPLICATE", "BLOCKING", {}, twins)
    <3>1. PICK twins : twins \subseteq places /\ f = Finding("CHUNK_ID_DUPLICATE", "BLOCKING", {}, twins)
      BY <2>2, <1>3
    <3>2. Kind("CHUNK_ID_DUPLICATE", "BLOCKING", twins)
      BY <3>1 DEF ReimportCodes
    <3> QED
      BY <3>2
  <2>3. CASE \E twins \in Twins(OrdersOf(input.chunks)) :
                f = Finding("CHUNK_ORDER_DUPLICATE", "BLOCKING", {}, twins)
    <3>1. PICK twins : twins \subseteq places /\ f = Finding("CHUNK_ORDER_DUPLICATE", "BLOCKING", {}, twins)
      BY <2>3, <1>3
    <3>2. Kind("CHUNK_ORDER_DUPLICATE", "BLOCKING", twins)
      BY <3>1 DEF ReimportCodes
    <3> QED
      BY <3>2
  <2>4. CASE f = Finding("CHUNK_ORDER_NON_CONTIGUOUS", "BLOCKING", {}, {})
    <3>1. Kind("CHUNK_ORDER_NON_CONTIGUOUS", "BLOCKING", {})
      BY <2>4 DEF ReimportCodes
    <3> QED
      BY <3>1
  <2>5. CASE \E i \in DOMAIN input.chunks : f \in ChunkFinding(input, i)
    <3>1. PICK i \in places : f \in ChunkFinding(input, i)
      BY <2>5 DEF places
    <3>2. PICK code \in {"CHUNK_SCOPE_MISMATCH", "CHUNK_CHAPTER_NOT_FOUND", "CHUNK_TEXT_WHITESPACE_ONLY",
                "CHUNK_CHECKSUM_MISMATCH", "CHUNK_OFFSETS_MISSING", "CHUNK_OFFSET_OUT_OF_BOUNDS",
                "CHUNK_TEXT_RANGE_MISMATCH", "CHUNK_LENGTH_EXCEEDS_POLICY"}, severity \in {"BLOCKING", "REVIEW"} :
            f = Finding(code, severity, {}, {i})
      BY <1>2, <3>1
    <3>3. Kind(code, severity, {i})
      BY <3>2 DEF ReimportCodes
    <3> QED
      BY <3>3
  <2>6. CASE \E twins \in Twins(Places(input)) : f = Finding("CHUNK_RANGE_DUPLICATE", "BLOCKING", {}, twins)
    <3>1. PICK twins : twins \subseteq places /\ f = Finding("CHUNK_RANGE_DUPLICATE", "BLOCKING", {}, twins)
      BY <2>6, <1>3
    <3>2. Kind("CHUNK_RANGE_DUPLICATE", "BLOCKING", twins)
      BY <3>1 DEF ReimportCodes
    <3> QED
      BY <3>2
  <2>7. CASE \E pair \in Crossed(input) : f = Finding("CHUNK_RANGE_OVERLAP", "BLOCKING", {}, Both(pair))
    <3>1. PICK pair \in Crossed(input) : f = Finding("CHUNK_RANGE_OVERLAP", "BLOCKING", {}, Both(pair))
      BY <2>7
    <3>2. Both(pair) \subseteq places
      BY <1>3
    <3>3. Kind("CHUNK_RANGE_OVERLAP", "BLOCKING", Both(pair))
      BY <3>1, <3>2 DEF ReimportCodes
    <3> QED
      BY <3>3
  <2>8. CASE \E twins \in SameTexts(input.chunks) : f = Finding("CHUNK_TEXT_EXACT_DUPLICATE", "WARNING", {}, twins)
    <3>1. PICK twins : twins \subseteq places /\ f = Finding("CHUNK_TEXT_EXACT_DUPLICATE", "WARNING", {}, twins)
      BY <2>8, <1>3
    <3>2. Kind("CHUNK_TEXT_EXACT_DUPLICATE", "WARNING", twins)
      BY <3>1 DEF ReimportCodes
    <3> QED
      BY <3>2
  <2> QED
    BY <1>1, <2>1, <2>2, <2>3, <2>4, <2>5, <2>6, <2>7, <2>8
<1>5. PICK code, severity, chunks :
        /\ code \notin ReimportCodes /\ code # "GATE1_EXECUTION_FAILED" /\ severity \in {"BLOCKING", "REVIEW", "WARNING"}
        /\ chunks \subseteq places /\ f = Finding(code, severity, {}, chunks)
  BY <1>4
<1> QED
  BY <1>5 DEF FindingFit, Finding, places

LEMMA FindingsFit ==
  ASSUME NEW input, NEW f \in Findings(input)
  PROVE  FindingFit(f, DOMAIN input.chunks)
<1>1. f \in DocumentFindings(input) \/ f \in ChapterFindings(input) \/ f \in ChunkFindings(input)
  BY DEF Findings
<1> QED
  BY <1>1, DocumentFit, ChapterFit, ChunkFit

LEMMA DomainIs ==
  ASSUME NEW n \in Nat
  PROVE  IsFiniteSet(1..n) /\ Cardinality(1..n) = n
<1> DEFINE first == 1
<1>1. first \in Int /\ n \in Int
  OBVIOUS
<1> HIDE DEF first
<1>2. IsFiniteSet(first..n) /\ Cardinality(first..n) = IF first > n THEN 0 ELSE n - first + 1
  BY <1>1, FS_Interval
<1> QED
  BY <1>2 DEF first

\* Without twins, values are apart.
LEMMA TwinsNone ==
  ASSUME NEW n \in Nat, NEW values, DOMAIN values = 1..n
  PROVE  Twins(values) = {} <=> OneByOne(values)
<1> DEFINE I == 1..n
           like(i) == {j \in I : values[j] = values[i]}
<1>1. IsFiniteSet(I)
  BY DomainIs
<1>2. Twins(values) = {twins \in {like(i) : i \in I} : Cardinality(twins) > 1}
  BY Zenon DEF Twins
<1>3. \A i \in I : like(i) \in SUBSET I /\ i \in like(i)
  OBVIOUS
<1>4. \A i, j \in I : values[i] = values[j] => j \in like(i)
  OBVIOUS
<1>5. \A i, j \in I : j \in like(i) => values[i] = values[j]
  OBVIOUS
<1> HIDE DEF I, like
<1>6. \A i \in I : IsFiniteSet(like(i)) /\ Cardinality(like(i)) \in Nat
  BY <1>1, <1>3, FS_Subset, FS_CardinalityType
<1>7. ASSUME Twins(values) = {}, NEW i \in I, NEW j \in I, values[i] = values[j], i # j PROVE FALSE
  <2>1. Cardinality({i}) = 1 /\ IsFiniteSet({i})
    BY FS_Singleton
  <2>2. Cardinality({i} \cup {j}) = 2
    BY <1>7, <2>1, FS_AddElement
  <2>3. {i} \cup {j} \in SUBSET like(i)
    BY <1>3, <1>4, <1>7
  <2>4. Cardinality({i} \cup {j}) <= Cardinality(like(i))
    BY <1>6, <2>3, FS_Subset
  <2>5. Cardinality(like(i)) > 1
    <3>1. Cardinality(like(i)) \in Nat
      BY <1>6
    <3>2. 2 <= Cardinality(like(i))
      BY <2>2, <2>4
    <3> QED
      BY <3>1, <3>2
  <2>6. like(i) \in Twins(values)
    BY <1>2, <2>5
  <2> QED
    BY <1>7, <2>6
<1>8. ASSUME OneByOne(values), NEW twins \in Twins(values) PROVE FALSE
  <2>1. PICK i \in I : twins = like(i) /\ Cardinality(like(i)) > 1
    BY <1>2, <1>8
  <2>2. \A j \in like(i) : j = i
    <3>1. like(i) \subseteq I
      BY <1>3
    <3>2. \A j \in I : values[i] = values[j] => j = i
      BY <1>8 DEF OneByOne, I
    <3> QED
      BY <1>5, <3>1, <3>2
  <2>3. like(i) = {i}
    BY <1>3, <2>2
  <2>4. Cardinality(like(i)) = 1
    BY <2>3, FS_Singleton
  <2> QED
    BY <2>1, <2>4
<1>9. OneByOne(values) <=> \A i, j \in I : values[i] = values[j] => i = j
  BY DEF OneByOne, I
<1> QED
  BY <1>7, <1>8, <1>9

Rank(chunks, i) == Cardinality({j \in DOMAIN chunks : chunks[j].order < chunks[i].order})

\* Chunks listed in some order: each is as far on as its number says.
LEMMA RanksAre ==
  ASSUME NEW n \in Nat, NEW chunks, DOMAIN chunks = 1..n, Len(chunks) = n,
         Contiguous(OrdersOf(chunks)), OneByOne(OrdersOf(chunks))
  PROVE  /\ \A i \in 1..n : chunks[i].order \in 0..(n - 1)
         /\ \A i \in 1..n : Rank(chunks, i) = chunks[i].order
         /\ \A k \in 1..n : \E i \in 1..n : chunks[i].order = k - 1
<1> DEFINE I == 1..n
           order == [i \in I |-> chunks[i].order]
           all == 0..(n - 1)
<1>1. DOMAIN order = I /\ Len(order) = n /\ \A i \in I : order[i] = chunks[i].order
  OBVIOUS
<1>2. OneByOne(order)
  BY DEF OrdersOf
<1>3. {order[i] : i \in I} = all
  BY <1>1 DEF Contiguous, OrdersOf
<1>4. IsFiniteSet(I) /\ Cardinality(I) = n
  BY DomainIs
<1>5. \A i \in I : chunks[i].order \in all
  BY <1>1, <1>3
<1>6. \A k \in I : \E i \in I : chunks[i].order = k - 1
  <2>1. \A k \in I : k - 1 \in all
    OBVIOUS
  <2> HIDE DEF all, order
  <2> QED
    BY <1>1, <1>3, <2>1
<1>7. order \in [I -> 0..(Cardinality(I) - 1)]
  BY <1>4, <1>5
<1>8. \A i \in I : {j \in I : order[j] < order[i]} = {j \in I : chunks[j].order < chunks[i].order}
  BY <1>1
<1>9. ASSUME NEW i \in I PROVE Cardinality({j \in I : chunks[j].order < chunks[i].order}) = chunks[i].order
  <2> HIDE DEF I, order
  <2>1. Cardinality({j \in I : order[j] < order[i]}) = order[i]
    BY <1>2, <1>4, <1>7, NumberCounts
  <2> QED
    BY <1>1, <1>8, <2>1
<1>10. \A i \in I : Rank(chunks, i) = chunks[i].order
  BY <1>9 DEF Rank
<1> QED
  BY <1>5, <1>6, <1>10

\* Chunks whose orders are the numbers from 0 on are all listed once.
LEMMA ApprovedAre ==
  ASSUME NEW n \in Nat, NEW chunks, DOMAIN chunks = 1..n, Len(chunks) = n,
         Contiguous(OrdersOf(chunks)), OneByOne(OrdersOf(chunks)),
         NEW T, \A i \in DOMAIN chunks : chunks[i].id \in T
  PROVE  /\ ApprovedIds(chunks) \in [1..n -> T]
         /\ \A k \in 1..n : \E i \in 1..n : chunks[i].order = k - 1 /\ ApprovedIds(chunks)[k] = chunks[i].id
<1> DEFINE I == DOMAIN chunks
           which(k) == CHOOSE i \in I : Rank(chunks, i) = k - 1
<1>1. ApprovedIds(chunks) = [k \in I |-> chunks[which(k)].id]
  BY Zenon DEF ApprovedIds, Rank
<1>2. \A i \in I : Rank(chunks, i) = chunks[i].order
  <2>1. \A i \in 1..n : Rank(chunks, i) = chunks[i].order
    BY RanksAre
  <2> QED
    BY <2>1
<1>3. \A k \in I : \E i \in I : chunks[i].order = k - 1
  <2>1. \A k \in 1..n : \E i \in 1..n : chunks[i].order = k - 1
    BY RanksAre
  <2> QED
    BY <2>1
<1> HIDE DEF I
<1>4. ASSUME NEW k \in I PROVE which(k) \in I /\ chunks[which(k)].order = k - 1
  <2>1. \E i \in I : Rank(chunks, i) = k - 1
    BY <1>2, <1>3
  <2>2. which(k) \in I /\ Rank(chunks, which(k)) = k - 1
    BY <2>1
  <2> QED
    BY <1>2, <2>2
<1> HIDE DEF which
<1>5. ApprovedIds(chunks) \in [I -> T]
  BY <1>1, <1>4 DEF I
<1>6. \A k \in I : \E i \in I : chunks[i].order = k - 1 /\ ApprovedIds(chunks)[k] = chunks[i].id
  BY <1>1, <1>4
<1> QED
  BY <1>5, <1>6 DEF I

\* Listed by their numbers, chunks are listed as they stand exactly when they stand in order.
LEMMA ApprovedStand ==
  ASSUME NEW n \in Nat, NEW chunks, DOMAIN chunks = 1..n, Len(chunks) = n,
         Contiguous(OrdersOf(chunks)), OneByOne(OrdersOf(chunks)),
         OneByOne(ChunkIds(chunks))
  PROVE  /\ ApprovedIds(chunks) = [i \in 1..n |-> chunks[i].id] <=> \A i \in 1..n : chunks[i].order = i - 1
         /\ \A i, j \in 1..n : ApprovedIds(chunks)[i] = ApprovedIds(chunks)[j] => i = j
<1> DEFINE I == 1..n
           ids == ApprovedIds(chunks)
           T == {chunks[i].id : i \in DOMAIN chunks}
<1>1. ids = [k \in I |-> ids[k]] /\ \A k \in I : \E i \in I : chunks[i].order = k - 1 /\ ids[k] = chunks[i].id
  <2>1. \A i \in DOMAIN chunks : chunks[i].id \in T
    OBVIOUS
  <2> HIDE DEF T
  <2>2. ids \in [I -> T]
    BY <2>1, ApprovedAre
  <2>3. \A k \in I : \E i \in I : chunks[i].order = k - 1 /\ ids[k] = chunks[i].id
    BY <2>1, ApprovedAre
  <2> HIDE DEF ids, I
  <2> QED
    BY <2>2, <2>3
<1>2. \A i, j \in I : chunks[i].id = chunks[j].id => i = j
  BY DEF OneByOne, ChunkIds
<1>3. \A i, j \in I : chunks[i].order = chunks[j].order => i = j
  BY DEF OneByOne, OrdersOf
<1>4. \A i \in I : i \in Int
  OBVIOUS
<1> HIDE DEF I, ids
<1>6. ASSUME \A i \in I : chunks[i].order = i - 1, NEW k \in I PROVE ids[k] = chunks[k].id
  <2>1. PICK i \in I : chunks[i].order = k - 1 /\ ids[k] = chunks[i].id
    BY <1>1
  <2>2. chunks[k].order = k - 1
    BY <1>6
  <2> QED
    BY <1>3, <2>1, <2>2
<1>7. ASSUME ids = [i \in I |-> chunks[i].id], NEW k \in I PROVE chunks[k].order = k - 1
  <2>1. PICK i \in I : chunks[i].order = k - 1 /\ ids[k] = chunks[i].id
    BY <1>1
  <2>2. ids[k] = chunks[k].id
    BY <1>7
  <2> QED
    BY <1>2, <2>1, <2>2
<1>8. ASSUME NEW k \in I, NEW l \in I, ids[k] = ids[l] PROVE k = l
  <2>1. PICK i \in I : chunks[i].order = k - 1 /\ ids[k] = chunks[i].id
    BY <1>1
  <2>2. PICK j \in I : chunks[j].order = l - 1 /\ ids[l] = chunks[j].id
    BY <1>1
  <2>3. i = j
    BY <1>2, <1>8, <2>1, <2>2
  <2> QED
    BY <1>4, <2>1, <2>2, <2>3
<1>9. (\A k \in I : ids[k] = chunks[k].id) => ids = [i \in I |-> chunks[i].id]
  BY <1>1
<1>10. ids = [i \in I |-> chunks[i].id] <=> \A i \in I : chunks[i].order = i - 1
  BY <1>6, <1>7, <1>9
<1> QED
  BY <1>8, <1>10 DEF I, ids

\* What is passed, held and excluded adds up.
LEMMA ReviewsAddUp ==
  ASSUME NEW n \in Nat, NEW reviews \in [1..n -> {"PASSED", "FAILED", "HELD"}]
  PROVE  /\ Cardinality({i \in 1..n : reviews[i] = "PASSED"}) + Cardinality({i \in 1..n : reviews[i] = "FAILED"})
            + Cardinality({i \in 1..n : reviews[i] = "HELD"}) = n
         /\ \A status : Cardinality({i \in 1..n : reviews[i] = status}) \in Nat
<1> DEFINE I == 1..n
           as(status) == {i \in I : reviews[i] = status}
           A == as("PASSED")
           B == as("FAILED")
           C == as("HELD")
<1>1. IsFiniteSet(I) /\ Cardinality(I) = n
  BY DomainIs
<1>2. \A status : as(status) \in SUBSET I
  OBVIOUS
<1>3. A \in SUBSET I /\ B \in SUBSET I /\ C \in SUBSET I
  BY <1>2
<1>4. A \cap B = {} /\ (A \cup B) \cap C = {} /\ (A \cup B) \cup C = I
  OBVIOUS
<1> HIDE DEF I, as
<1>5. \A status : IsFiniteSet(as(status)) /\ Cardinality(as(status)) \in Nat
  BY <1>1, <1>2, FS_Subset, FS_CardinalityType
<1>6. /\ IsFiniteSet(A) /\ Cardinality(A) \in Nat /\ IsFiniteSet(B) /\ Cardinality(B) \in Nat
      /\ IsFiniteSet(C) /\ Cardinality(C) \in Nat
  BY <1>5
<1> HIDE DEF A, B, C
<1>7. Cardinality({}) = 0
  BY FS_EmptySet
<1>8. IsFiniteSet(A \cup B) /\ Cardinality(A \cup B) = Cardinality(A) + Cardinality(B)
  <2>1. Cardinality(A \cup B) = Cardinality(A) + Cardinality(B) - Cardinality(A \cap B) /\ IsFiniteSet(A \cup B)
    BY <1>6, FS_Union
  <2>2. Cardinality(A \cap B) = 0
    BY <1>4, <1>7
  <2> QED
    BY <1>6, <2>1, <2>2
<1>9. Cardinality((A \cup B) \cup C) = Cardinality(A \cup B) + Cardinality(C)
  <2> DEFINE D == A \cup B
  <2>0. IsFiniteSet(D)
    BY <1>8
  <2>1. Cardinality(D \cup C) = Cardinality(D) + Cardinality(C) - Cardinality(D \cap C)
    <3> HIDE DEF D
    <3> QED
      BY <1>6, <2>0, FS_Union
  <2>2. Cardinality(D \cap C) = 0
    BY <1>4, <1>7
  <2>3. Cardinality(D) \in Nat
    BY <1>6, <1>8
  <2> HIDE DEF D
  <2>4. Cardinality(D \cup C) = Cardinality(D) + Cardinality(C)
    BY <1>6, <2>1, <2>2, <2>3
  <2> QED
    BY <2>4 DEF D
<1>10. Cardinality(A) + Cardinality(B) + Cardinality(C) = n
  BY <1>1, <1>4, <1>6, <1>8, <1>9
<1> QED
  BY <1>5, <1>10 DEF A, B, C, as, I

\* What is said of one chunk that is not blocked.
ChunkFine(input, i) ==
    LET chunk == input.chunks[i]
    IN /\ chunk.ours /\ chunk.sound /\ \E k \in DOMAIN input.chapters : input.chapters[k].id = chunk.chapter
       /\ ~IsBlank(chunk.text)
       /\ Recorded(chunk) /\ InBounds(chunk, input.text) /\ Verbatim(chunk, input.text)

\* Nothing is found in between: chunks and chapters without a blocking finding.
LEMMA UnblockedChunks ==
  ASSUME NEW input, Of(Findings(input), "BLOCKING") = {}
  PROVE  /\ input.chunks # <<>> /\ Twins(ChunkIds(input.chunks)) = {} /\ Twins(OrdersOf(input.chunks)) = {}
         /\ Contiguous(OrdersOf(input.chunks)) /\ Crossed(input) = {}
         /\ \A i \in DOMAIN input.chunks : ChunkFine(input, i)
<1>1. \A f \in ChunkFindings(input) : f.severity # "BLOCKING"
  BY DEF Of, Findings
<1>2. \A code, chapters, chunks : Finding(code, "BLOCKING", chapters, chunks) \notin ChunkFindings(input)
  <2>1. \A code, chapters, chunks : Finding(code, "BLOCKING", chapters, chunks).severity = "BLOCKING"
    BY DEF Finding
  <2> QED
    BY <1>1, <2>1
<1>3. input.chunks # <<>>
  <2> DEFINE f == Finding("NO_USABLE_CHUNKS", "BLOCKING", {}, {})
  <2>1. f \notin ChunkFindings(input)
    BY <1>2
  <2> QED
    BY <2>1, ChunkFindingIs
<1>4. ASSUME NEW twins \in Twins(ChunkIds(input.chunks)) PROVE FALSE
  <2> DEFINE f == Finding("CHUNK_ID_DUPLICATE", "BLOCKING", {}, twins)
  <2>1. f \notin ChunkFindings(input)
    BY <1>2
  <2> QED
    BY <2>1, ChunkFindingIs
<1>5. ASSUME NEW twins \in Twins(OrdersOf(input.chunks)) PROVE FALSE
  <2> DEFINE f == Finding("CHUNK_ORDER_DUPLICATE", "BLOCKING", {}, twins)
  <2>1. f \notin ChunkFindings(input)
    BY <1>2
  <2> QED
    BY <2>1, ChunkFindingIs
<1>6. Contiguous(OrdersOf(input.chunks))
  <2> DEFINE f == Finding("CHUNK_ORDER_NON_CONTIGUOUS", "BLOCKING", {}, {})
  <2>1. f \notin ChunkFindings(input)
    BY <1>2
  <2> QED
    BY <2>1, ChunkFindingIs
<1>7. ASSUME NEW pair \in Crossed(input) PROVE FALSE
  <2> DEFINE f == Finding("CHUNK_RANGE_OVERLAP", "BLOCKING", {}, Both(pair))
  <2>1. f \notin ChunkFindings(input)
    BY <1>2
  <2> QED
    BY <2>1, ChunkFindingIs
<1>8. ASSUME NEW i \in DOMAIN input.chunks PROVE ChunkFine(input, i)
  <2>1. \A code : Finding(code, "BLOCKING", {}, {i}) \notin ChunkFinding(input, i)
    BY <1>2, ChunkFindingIs
  <2>2. input.chunks[i].ours
    BY <2>1, OwnFindingIs
  <2>3. \E k \in DOMAIN input.chapters : input.chapters[k].id = input.chunks[i].chapter
    BY <2>1, OwnFindingIs
  <2>4. ~IsBlank(input.chunks[i].text)
    BY <2>1, OwnFindingIs
  <2>5. input.chunks[i].sound
    BY <2>1, OwnFindingIs
  <2>6. Recorded(input.chunks[i])
    BY <2>1, OwnFindingIs
  <2>7. InBounds(input.chunks[i], input.text)
    BY <2>1, <2>6, OwnFindingIs
  <2>8. Verbatim(input.chunks[i], input.text)
    BY <2>1, <2>6, <2>7, OwnFindingIs DEF Audited
  <2> QED
    BY <2>2, <2>3, <2>4, <2>5, <2>6, <2>7, <2>8 DEF ChunkFine
<1> QED
  BY <1>3, <1>4, <1>5, <1>6, <1>7, <1>8

\* A chapter of a document that is not blocked knows how far its chunks reach.
LEMMA UnblockedChapters ==
  ASSUME NEW input, Of(Findings(input), "BLOCKING") = {}, NEW k \in DOMAIN input.chapters
  PROVE  LET orders == Belonging(input.chapters[k], input.chunks)
         IN orders # {} => Min(orders) = input.chapters[k].first /\ Max(orders) = input.chapters[k].last
<1> DEFINE orders == Belonging(input.chapters[k], input.chunks)
           f == Finding("CHAPTER_CHUNK_RANGE_MISMATCH", "BLOCKING", {k}, {})
           first == input.chapters[k].first
           last == input.chapters[k].last
           wrong == orders # {} /\ <<Min(orders), Max(orders)>> # <<first, last>>
<1>1. f \notin ChapterFindings(input)
  <2>1. f.severity = "BLOCKING"
    BY DEF Finding
  <2> QED
    BY <2>1 DEF Of, Findings
<1>2. f \notin About(input, k)
  <2> HIDE DEF f
  <2> QED
    BY <1>1, ChapterFindingsAre
<1>3. Only(wrong, f) \subseteq About(input, k)
  BY DEF About
<1> HIDE DEF orders, f, first, last
<1>4. ~wrong
  <2> HIDE DEF wrong
  <2> QED
    BY <1>2, <1>3, OnlyHas
<1>5. orders # {} => <<Min(orders), Max(orders)>> = <<first, last>>
  BY <1>4
<1>6. orders # {} => Min(orders) = first /\ Max(orders) = last
  BY <1>5
<1> QED
  BY <1>6 DEF orders, first, last

\* What the review of an input rests on.
Unblocked(input) == Of(Findings(input), "BLOCKING") = {}

Unheld(input) == Of(Findings(input), "REVIEW") = {}

\* What is done about the findings of an audit: a failed execution is never among them.
LEMMA ActionIs ==
  ASSUME NEW input
  PROVE  LET action == Action(Findings(input)) IN
          /\ action \in {"REIMPORT", "RECHUNK", "HOLD", "CONTINUE"}
          /\ action = "CONTINUE" <=> Unblocked(input) /\ Unheld(input)
          /\ action = "HOLD" <=> Unblocked(input) /\ ~Unheld(input)
          /\ action = "REIMPORT" <=> \E f \in Findings(input) : f.severity = "BLOCKING" /\ f.code \in ReimportCodes
          /\ "GATE1_EXECUTION_FAILED" \notin {finding.code : finding \in Of(Findings(input), "BLOCKING")}
<1> DEFINE blocking == {finding.code : finding \in Of(Findings(input), "BLOCKING")}
<1>1. \A f \in Findings(input) : f.code # "GATE1_EXECUTION_FAILED"
  BY FindingsFit DEF FindingFit
<1>2. "GATE1_EXECUTION_FAILED" \notin blocking
  BY <1>1 DEF Of
<1>3. blocking # {} <=> ~Unblocked(input)
  BY DEF Unblocked
<1>4. blocking \cap ReimportCodes # {} <=> \E f \in Findings(input) : f.severity = "BLOCKING" /\ f.code \in ReimportCodes
  BY DEF Of
<1>5. Action(Findings(input)) = IF "GATE1_EXECUTION_FAILED" \in blocking THEN "STOP"
       ELSE IF blocking \cap ReimportCodes # {} THEN "REIMPORT"
       ELSE IF blocking # {} THEN "RECHUNK"
       ELSE IF Of(Findings(input), "REVIEW") # {} THEN "HOLD"
       ELSE "CONTINUE"
  BY DEF Action
<1>6. blocking \cap ReimportCodes # {} => blocking # {}
  OBVIOUS
<1> HIDE DEF blocking
<1>7. Action(Findings(input)) = IF blocking \cap ReimportCodes # {} THEN "REIMPORT"
       ELSE IF blocking # {} THEN "RECHUNK"
       ELSE IF ~Unheld(input) THEN "HOLD"
       ELSE "CONTINUE"
  BY <1>2, <1>5 DEF Unheld
<1> QED
  BY <1>2, <1>3, <1>4, <1>6, <1>7 DEF blocking

\* The status of some findings.
LEMMA StatusIs ==
  ASSUME NEW findings
  PROVE  /\ CheckStatus(findings) \in {"PASSED", "FAILED", "HELD"}
         /\ CheckStatus(findings) = "FAILED" <=> \E f \in findings : f.severity = "BLOCKING"
         /\ CheckStatus(findings) = "PASSED" <=>
                \A f \in findings : f.severity # "BLOCKING" /\ f.severity # "REVIEW"
BY DEF CheckStatus, Of

\* When a chunk is excluded, and when it passes.
LEMMA ChunkReviewIs ==
  ASSUME NEW findings, NEW i
  PROVE  /\ ChunkReview(findings, i) \in {"PASSED", "FAILED", "HELD"}
         /\ ChunkReview(findings, i) = "FAILED" <=>
                \/ \E f \in findings : i \in f.chunks /\ f.severity = "BLOCKING"
                \/ (\E f \in findings : f.severity = "BLOCKING") /\ \A f \in findings : i \notin f.chunks
         /\ Of(findings, "BLOCKING") = {} /\ Of(findings, "REVIEW") = {} => ChunkReview(findings, i) = "PASSED"
<1> DEFINE own == {f \in findings : i \in f.chunks}
           related == Related(findings, i)
<1>1. related = IF own = {} THEN Of(findings, "BLOCKING") ELSE own
  BY DEF Related
<1>2. ChunkReview(findings, i) = IF related # {} THEN CheckStatus(related)
            ELSE IF Of(findings, "REVIEW") # {} THEN "HELD" ELSE "PASSED"
  BY DEF ChunkReview
<1>3. own = {} <=> \A f \in findings : i \notin f.chunks
  OBVIOUS
<1>4. \A f : f \in own <=> f \in findings /\ i \in f.chunks
  OBVIOUS
<1>5. \A f : f \in Of(findings, "BLOCKING") <=> f \in findings /\ f.severity = "BLOCKING"
  BY DEF Of
<1>6. \A f : f \in Of(findings, "REVIEW") <=> f \in findings /\ f.severity = "REVIEW"
  BY DEF Of
<1> HIDE DEF own, related
<1>7. /\ CheckStatus(related) \in {"PASSED", "FAILED", "HELD"}
      /\ CheckStatus(related) = "FAILED" <=> \E f \in related : f.severity = "BLOCKING"
      /\ CheckStatus(related) = "PASSED" <=> \A f \in related : f.severity # "BLOCKING" /\ f.severity # "REVIEW"
  BY StatusIs
<1>8. CASE own = {}
  BY <1>1, <1>2, <1>3, <1>5, <1>6, <1>7, <1>8
<1>9. CASE own # {}
  <2>1. ChunkReview(findings, i) = CheckStatus(own) /\ related = own
    BY <1>1, <1>2, <1>9
  <2> QED
    BY <1>3, <1>4, <1>5, <1>6, <1>7, <1>9, <2>1
<1> QED
  BY <1>8, <1>9

LEMMA ResultIs ==
  ASSUME NEW input, NEW findings, NEW reviews, NEW metrics
  PROVE  LET result == Result(input, findings, reviews, metrics)
             action == Action(findings)
         IN /\ result.action = action /\ result.findings = findings /\ result.chunks = reviews
            /\ result.metrics = metrics
            /\ result.decision = Settled(action, input.chunks)[1] /\ result.status = Settled(action, input.chunks)[2]
            /\ result.bundle = IF Settled(action, input.chunks) = <<"APPROVED", "COMPLETED">>
                                THEN ApprovedIds(input.chunks) ELSE <<>>
BY Zenon DEF Result

\* What is decided of an action.
LEMMA SettledIs ==
  ASSUME NEW chunks
  PROVE  /\ chunks # <<>> => Settled("CONTINUE", chunks) = <<"APPROVED", "COMPLETED">>
         /\ Settled("HOLD", chunks) = <<"HELD", "HELD">>
         /\ Settled("REIMPORT", chunks) = <<"REJECTED", "COMPLETED">>
         /\ Settled("RECHUNK", chunks) = <<"REJECTED", "COMPLETED">>
         /\ Settled("STOP", chunks) = <<"REJECTED", "FAILED">>
BY DEF Settled

\* What a failed execution finds stops the import.
LEMMA ExecutionHas ==
  ASSUME NEW input
  PROVE  /\ Of({ExecutionFailed(input)}, "BLOCKING") = {ExecutionFailed(input)}
         /\ Of({ExecutionFailed(input)}, "REVIEW") = {}
         /\ ExecutionFailed(input).code = "GATE1_EXECUTION_FAILED"
         /\ "GATE1_EXECUTION_FAILED" \in {f.code : f \in Of({ExecutionFailed(input)}, "BLOCKING")}
         /\ Action({ExecutionFailed(input)}) = "STOP"
<1> DEFINE one == ExecutionFailed(input)
<1>1. one.severity = "BLOCKING" /\ one.code = "GATE1_EXECUTION_FAILED"
  BY DEF ExecutionFailed, Finding
<1> HIDE DEF one
<1>2. Of({one}, "BLOCKING") = {one} /\ Of({one}, "REVIEW") = {}
  BY <1>1 DEF Of
<1>3. "GATE1_EXECUTION_FAILED" \in {f.code : f \in Of({one}, "BLOCKING")}
  BY <1>1, <1>2
<1>4. Action({one}) = "STOP"
  BY <1>3 DEF Action
<1> QED
  BY <1>1, <1>2, <1>3, <1>4 DEF one

\* The schema accepts the result of a failed execution.
LEMMA FailedIs ==
  ASSUME NEW input, NEW n \in Nat, DOMAIN input.chunks = 1..n, Len(input.chunks) = n
  PROVE  /\ FailedResult(input).action = "STOP" /\ FailedResult(input).decision = "REJECTED"
         /\ FailedResult(input).bundle = <<>> /\ Contract(input, FailedResult(input))
<1> DEFINE count == Len(input.chunks)
           findings == {ExecutionFailed(input)}
           reviews == [i \in DOMAIN input.chunks |-> "FAILED"]
           metrics == [chunks |-> count, complete |-> 0, valid |-> 0, usable |-> 0, excluded |-> count, held |-> 0]
           result == Result(input, findings, reviews, metrics)
<1>1. FailedResult(input) = result
  BY DEF FailedResult
<1>2. Action(findings) = "STOP"
  BY ExecutionHas
<1>3. Settled("STOP", input.chunks) = <<"REJECTED", "FAILED">>
  BY SettledIs
<1>4. Len(reviews) = n /\ DOMAIN reviews = 1..n
  OBVIOUS
<1>5. /\ metrics.chunks = n /\ metrics.complete = 0 /\ metrics.valid = 0 /\ metrics.usable = 0
      /\ metrics.excluded = n /\ metrics.held = 0
  OBVIOUS
<1>6. /\ Of(findings, "BLOCKING") # {} /\ "GATE1_EXECUTION_FAILED" \in {f.code : f \in Of(findings, "BLOCKING")}
  BY ExecutionHas
<1> HIDE DEF findings, reviews, metrics, count
<1>7. /\ result.action = "STOP" /\ result.findings = findings /\ result.chunks = reviews /\ result.metrics = metrics
      /\ result.decision = "REJECTED" /\ result.status = "FAILED" /\ result.bundle = <<>>
  <2>1. /\ result.action = Action(findings) /\ result.findings = findings /\ result.chunks = reviews
        /\ result.metrics = metrics
        /\ result.decision = Settled(Action(findings), input.chunks)[1]
        /\ result.status = Settled(Action(findings), input.chunks)[2]
        /\ result.bundle = IF Settled(Action(findings), input.chunks) = <<"APPROVED", "COMPLETED">>
                           THEN ApprovedIds(input.chunks) ELSE <<>>
    BY ResultIs
  <2> HIDE DEF result
  <2> QED
    BY <1>2, <1>3, <2>1
<1> HIDE DEF result
<1>8. RoutingContract(result)
  BY <1>6, <1>7 DEF RoutingContract
<1>9. MetricsContract(result)
  BY <1>4, <1>5, <1>7 DEF MetricsContract
<1>10. VerdictContract(result)
  BY <1>6, <1>7 DEF VerdictContract
<1>11. BundleContract(input, result)
  BY <1>7 DEF BundleContract
<1>12. AgreementContract(result)
  BY <1>7 DEF AgreementContract
<1> QED
  BY <1>1, <1>7, <1>8, <1>9, <1>10, <1>11, <1>12 DEF Contract

\* Chunks out of order; and a blocked document whose every chunk has a lesser finding of its own.
Unordered(input) == \E i \in DOMAIN input.chunks : input.chunks[i].order # i - 1

Shadowed(input) ==
    /\ input.chunks # <<>>
    /\ \A i \in DOMAIN input.chunks : \E finding \in Findings(input) : i \in finding.chunks /\ finding.severity # "BLOCKING"
    /\ \A finding \in Findings(input) : finding.severity = "BLOCKING" => finding.chunks = {}

\* Some chunk of a blocked document is excluded, unless each has a lesser finding of its own.
LEMMA SomeExcluded ==
  ASSUME NEW input, ~Unblocked(input), input.chunks # <<>>, NEW n \in Nat, DOMAIN input.chunks = 1..n,
         n # 0
  PROVE  (\E i \in DOMAIN input.chunks : ChunkReview(Findings(input), i) = "FAILED") <=> ~Shadowed(input)
<1> DEFINE I == DOMAIN input.chunks
           findings == Findings(input)
<1>1. PICK blocked \in findings : blocked.severity = "BLOCKING"
  BY DEF Unblocked, Of
<1>2. \A f \in findings : f.chunks \subseteq I
  BY FindingsFit DEF FindingFit
<1>3. \A i \in I : ChunkReview(findings, i) = "FAILED" <=>
                \/ \E f \in findings : i \in f.chunks /\ f.severity = "BLOCKING"
                \/ (\E f \in findings : f.severity = "BLOCKING") /\ \A f \in findings : i \notin f.chunks
  BY ChunkReviewIs
<1>4. Shadowed(input) <=>
        /\ \A i \in I : \E f \in findings : i \in f.chunks /\ f.severity # "BLOCKING"
        /\ \A f \in findings : f.severity = "BLOCKING" => f.chunks = {}
  BY DEF Shadowed
<1> HIDE DEF I, findings
<1>5. ASSUME Shadowed(input), NEW i \in I PROVE ChunkReview(findings, i) # "FAILED"
  BY <1>3, <1>4, <1>5
<1>6. ASSUME ~Shadowed(input) PROVE \E i \in I : ChunkReview(findings, i) = "FAILED"
  <2>1. CASE \E f \in findings : f.severity = "BLOCKING" /\ f.chunks # {}
    <3>1. PICK f \in findings : f.severity = "BLOCKING" /\ f.chunks # {}
      BY <2>1
    <3>2. PICK i \in I : i \in f.chunks
      BY <1>2, <3>1
    <3> QED
      BY <1>3, <3>1, <3>2
  <2>2. CASE \E i \in I : \A f \in findings : i \in f.chunks => f.severity = "BLOCKING"
    <3>1. PICK i \in I : \A f \in findings : i \in f.chunks => f.severity = "BLOCKING"
      BY <2>2
    <3> QED
      BY <1>1, <1>3, <3>1
  <2> QED
    BY <1>4, <1>6, <2>1, <2>2
<1> QED
  BY <1>5, <1>6 DEF I, findings

ReviewStatuses == {"PASSED", "FAILED", "HELD"}

\* The counts of a result add up.
LEMMA MetricsAre ==
  ASSUME NEW input, NEW n \in Nat, DOMAIN input.chunks = 1..n, Len(input.chunks) = n,
         NEW reviews \in [1..n -> ReviewStatuses]
  PROVE  LET metrics == Metrics(input, reviews) IN
          /\ metrics.chunks = n /\ metrics.usable + metrics.excluded + metrics.held = n
          /\ metrics.complete <= n /\ metrics.valid <= n
          /\ (\A i \in 1..n : Audited(input.chunks[i], input.text) /\ Verbatim(input.chunks[i], input.text)) =>
                metrics.valid = n
          /\ (\A i \in 1..n : reviews[i] = "PASSED") => metrics.usable = n
<1> DEFINE I == 1..n
           complete == {i \in I : Recorded(input.chunks[i])}
           valid == {i \in I : Audited(input.chunks[i], input.text) /\ Verbatim(input.chunks[i], input.text)}
           as(status) == {i \in I : reviews[i] = status}
           metrics == Metrics(input, reviews)
<1>1. /\ metrics.chunks = Len(input.chunks)
      /\ metrics.complete = Cardinality({i \in DOMAIN input.chunks : Recorded(input.chunks[i])})
      /\ metrics.valid = Cardinality({i \in DOMAIN input.chunks :
                Audited(input.chunks[i], input.text) /\ Verbatim(input.chunks[i], input.text)})
      /\ metrics.usable = Cardinality({i \in DOMAIN reviews : reviews[i] = "PASSED"})
      /\ metrics.excluded = Cardinality({i \in DOMAIN reviews : reviews[i] = "FAILED"})
      /\ metrics.held = Cardinality({i \in DOMAIN reviews : reviews[i] = "HELD"})
  BY Zenon DEF Metrics
<1>2. DOMAIN reviews = I
  OBVIOUS
<1>3. /\ metrics.chunks = n /\ metrics.complete = Cardinality(complete) /\ metrics.valid = Cardinality(valid)
      /\ metrics.usable = Cardinality(as("PASSED")) /\ metrics.excluded = Cardinality(as("FAILED"))
      /\ metrics.held = Cardinality(as("HELD"))
  <2> HIDE DEF metrics
  <2> QED
    BY <1>1, <1>2
<1>4. IsFiniteSet(I) /\ Cardinality(I) = n
  BY DomainIs
<1>5. /\ Cardinality(as("PASSED")) + Cardinality(as("FAILED")) + Cardinality(as("HELD")) = n
  BY ReviewsAddUp DEF ReviewStatuses
<1>6. complete \in SUBSET I /\ valid \in SUBSET I
  OBVIOUS
<1>7. (\A i \in I : Audited(input.chunks[i], input.text) /\ Verbatim(input.chunks[i], input.text)) => valid = I
  OBVIOUS
<1>8. (\A i \in I : reviews[i] = "PASSED") => as("PASSED") = I
  OBVIOUS
<1> HIDE DEF complete, valid, as, metrics, I
<1>9. Cardinality(complete) <= n /\ Cardinality(valid) <= n
  BY <1>4, <1>6, FS_Subset
<1>10. /\ metrics.chunks = n /\ metrics.usable + metrics.excluded + metrics.held = n
       /\ metrics.complete <= n /\ metrics.valid <= n
  BY <1>3, <1>5, <1>9
<1>11. (\A i \in I : Audited(input.chunks[i], input.text) /\ Verbatim(input.chunks[i], input.text)) => metrics.valid = n
  BY <1>3, <1>4, <1>7
<1>12. (\A i \in I : reviews[i] = "PASSED") => metrics.usable = n
  BY <1>3, <1>4, <1>8
<1> QED
  BY <1>10, <1>11, <1>12 DEF metrics, I

\* The parts of what is proposed.
ReviewsOf(input) == [i \in DOMAIN input.chunks |-> ChunkReview(Findings(input), i)]

\* What is computed before the schema looks at it.
LEMMA ProposedIs ==
  ASSUME NEW input, NEW C, input.chunks \in Seq(C)
  PROVE  LET proposed == Proposed(input)
             n == Len(input.chunks)
         IN /\ proposed.action = Action(Findings(input)) /\ proposed.findings = Findings(input)
            /\ proposed.chunks = ReviewsOf(input) /\ proposed.metrics = Metrics(input, ReviewsOf(input))
            /\ proposed.decision = Settled(proposed.action, input.chunks)[1]
            /\ proposed.status = Settled(proposed.action, input.chunks)[2]
            /\ proposed.bundle = IF Settled(proposed.action, input.chunks) = <<"APPROVED", "COMPLETED">>
                                  THEN ApprovedIds(input.chunks) ELSE <<>>
            /\ ReviewsOf(input) \in [1..n -> ReviewStatuses] /\ Len(ReviewsOf(input)) = n
            /\ ReviewsOf(input) # <<>> <=> input.chunks # <<>>
            /\ MetricsContract(proposed)
<1> DEFINE findings == Findings(input)
           reviews == ReviewsOf(input)
           metrics == Metrics(input, reviews)
           n == Len(input.chunks)
           proposed == Proposed(input)
<1>1. proposed = Result(input, findings, reviews, metrics)
  BY Zenon DEF Proposed, ReviewsOf
<1>2. n \in Nat /\ DOMAIN input.chunks = 1..n /\ (n # 0 <=> input.chunks # <<>>)
  OBVIOUS
<1>3. \A i \in 1..n : ChunkReview(findings, i) \in ReviewStatuses
  BY ChunkReviewIs DEF ReviewStatuses
<1> HIDE DEF findings
<1>4. reviews = [i \in 1..n |-> ChunkReview(findings, i)]
  BY <1>2 DEF ReviewsOf, findings
<1>5. reviews \in [1..n -> ReviewStatuses]
  BY <1>3, <1>4
<1> HIDE DEF n, reviews
<1>6. reviews \in Seq(ReviewStatuses) /\ Len(reviews) = n /\ DOMAIN reviews = 1..n
  BY <1>2, <1>5
<1>7. reviews # <<>> <=> input.chunks # <<>>
  BY <1>2, <1>6
<1>8. Len(input.chunks) = n
  BY DEF n
<1>9. /\ metrics.chunks = n /\ metrics.usable + metrics.excluded + metrics.held = n
      /\ metrics.complete <= n /\ metrics.valid <= n
  BY <1>2, <1>5, <1>8, MetricsAre
<1> HIDE DEF metrics, proposed
<1>10. /\ proposed.action = Action(findings) /\ proposed.findings = findings
       /\ proposed.chunks = reviews /\ proposed.metrics = metrics
       /\ proposed.decision = Settled(Action(findings), input.chunks)[1]
       /\ proposed.status = Settled(Action(findings), input.chunks)[2]
       /\ proposed.bundle = IF Settled(Action(findings), input.chunks) = <<"APPROVED", "COMPLETED">>
                             THEN ApprovedIds(input.chunks) ELSE <<>>
  BY <1>1, ResultIs
<1>11. MetricsContract(proposed)
  BY <1>6, <1>9, <1>10 DEF MetricsContract
<1> QED
  BY <1>5, <1>6, <1>7, <1>10, <1>11 DEF findings, reviews, metrics, n, proposed

\* A document that goes on keeps the contract if its chunks stand in order.
LEMMA ContinueKeeps ==
  ASSUME NEW input, NEW C, input.chunks \in Seq(C), Unblocked(input), Unheld(input)
  PROVE  LET proposed == Proposed(input) IN
          /\ Contract(input, proposed) <=> ~Unordered(input)
          /\ proposed.action = "CONTINUE" /\ proposed.decision = "APPROVED"
          /\ \A i \in DOMAIN input.chunks : ReviewsOf(input)[i] = "PASSED"
          /\ proposed.bundle = ApprovedIds(input.chunks)
<1> DEFINE proposed == Proposed(input)
           n == Len(input.chunks)
           reviews == ReviewsOf(input)
           bundle == ApprovedIds(input.chunks)
           T == {input.chunks[i].id : i \in DOMAIN input.chunks}
<1>1. n \in Nat /\ DOMAIN input.chunks = 1..n /\ (n # 0 <=> input.chunks # <<>>)
  OBVIOUS
<1>2. /\ proposed.action = Action(Findings(input)) /\ proposed.findings = Findings(input)
      /\ proposed.chunks = reviews
      /\ proposed.decision = Settled(proposed.action, input.chunks)[1]
      /\ proposed.status = Settled(proposed.action, input.chunks)[2]
      /\ proposed.bundle = IF Settled(proposed.action, input.chunks) = <<"APPROVED", "COMPLETED">>
                            THEN bundle ELSE <<>>
      /\ reviews \in [1..n -> ReviewStatuses]
      /\ MetricsContract(proposed)
  BY ProposedIs
<1>3. Action(Findings(input)) = "CONTINUE"
  BY ActionIs
<1>4. /\ input.chunks # <<>> /\ Twins(ChunkIds(input.chunks)) = {} /\ Twins(OrdersOf(input.chunks)) = {}
      /\ Contiguous(OrdersOf(input.chunks))
  BY UnblockedChunks DEF Unblocked
<1>5. Settled("CONTINUE", input.chunks) = <<"APPROVED", "COMPLETED">>
  BY <1>4, SettledIs
<1>6. OneByOne(OrdersOf(input.chunks)) /\ OneByOne(ChunkIds(input.chunks))
  <2>1. DOMAIN OrdersOf(input.chunks) = 1..n /\ DOMAIN ChunkIds(input.chunks) = 1..n
    BY <1>1 DEF OrdersOf, ChunkIds
  <2> QED
    BY <1>1, <1>4, <2>1, TwinsNone
<1>7. \A i \in 1..n : reviews[i] = "PASSED"
  <2>1. reviews = [i \in DOMAIN input.chunks |-> ChunkReview(Findings(input), i)]
    BY DEF ReviewsOf
  <2>2. \A i \in 1..n : ChunkReview(Findings(input), i) = "PASSED"
    BY ChunkReviewIs DEF Unblocked, Unheld
  <2> HIDE DEF n, reviews
  <2> QED
    BY <1>1, <2>1, <2>2
<1>8. bundle \in [1..n -> T]
  <2>1. \A i \in DOMAIN input.chunks : input.chunks[i].id \in T
    OBVIOUS
  <2> HIDE DEF T
  <2> QED
    BY <1>1, <1>4, <1>6, <2>1, ApprovedAre
<1>9. /\ bundle = [i \in 1..n |-> input.chunks[i].id] <=> ~Unordered(input)
      /\ \A i, j \in 1..n : bundle[i] = bundle[j] => i = j
  <2>1. /\ bundle = [i \in 1..n |-> input.chunks[i].id] <=> \A i \in 1..n : input.chunks[i].order = i - 1
        /\ \A i, j \in 1..n : bundle[i] = bundle[j] => i = j
    BY <1>1, <1>4, <1>6, ApprovedStand
  <2> QED
    BY <1>1, <2>1 DEF Unordered
<1> HIDE DEF proposed, n, reviews, bundle, T
<1>10. /\ proposed.action = "CONTINUE" /\ proposed.decision = "APPROVED" /\ proposed.status = "COMPLETED"
       /\ proposed.bundle = bundle
  BY <1>2, <1>3, <1>5
<1>11. bundle # <<>>
  <2>1. 1 \in DOMAIN bundle
    BY <1>1, <1>4, <1>8
  <2> QED
    BY <2>1
<1>12. RoutingContract(proposed)
  BY <1>2, <1>10 DEF RoutingContract, Unblocked, Unheld
<1>13. VerdictContract(proposed)
  <2>1. DOMAIN reviews = 1..n
    BY <1>2
  <2> QED
    BY <1>2, <1>7, <1>10, <1>11, <2>1 DEF VerdictContract, Unblocked, Unheld
<1>14. AgreementContract(proposed)
  BY <1>10 DEF AgreementContract
<1>15. BundleContract(input, proposed) <=> ~Unordered(input)
  <2>1. [i \in DOMAIN input.chunks |-> input.chunks[i].id] = [i \in 1..n |-> input.chunks[i].id] /\ DOMAIN bundle = 1..n
    BY <1>1, <1>8
  <2>2. BundleContract(input, proposed) <=> (bundle = [i \in 1..n |-> input.chunks[i].id])
    BY <1>9, <1>10, <1>11, <2>1 DEF BundleContract
  <2> QED
    BY <1>9, <2>2
<1>16. Contract(input, proposed) <=> ~Unordered(input)
  BY <1>2, <1>12, <1>13, <1>14, <1>15 DEF Contract
<1> QED
  BY <1>1, <1>7, <1>10, <1>16 DEF proposed, reviews, bundle

\* The schema accepts every result that holds a document.
LEMMA HoldKeeps ==
  ASSUME NEW input, NEW C, input.chunks \in Seq(C), Unblocked(input), ~Unheld(input)
  PROVE  Contract(input, Proposed(input)) /\ Proposed(input).action = "HOLD"
<1> DEFINE proposed == Proposed(input)
           findings == Findings(input)
<1>1. /\ proposed.action = Action(findings) /\ proposed.findings = findings
      /\ proposed.decision = Settled(proposed.action, input.chunks)[1]
      /\ proposed.status = Settled(proposed.action, input.chunks)[2]
      /\ proposed.bundle = IF Settled(proposed.action, input.chunks) = <<"APPROVED", "COMPLETED">>
                            THEN ApprovedIds(input.chunks) ELSE <<>>
      /\ MetricsContract(proposed)
  BY ProposedIs
<1>2. Action(findings) = "HOLD"
  BY ActionIs
<1>3. Settled("HOLD", input.chunks) = <<"HELD", "HELD">>
  BY SettledIs
<1>4. Of(findings, "REVIEW") # {}
  BY DEF Unheld
<1> HIDE DEF proposed, findings
<1>5. /\ proposed.action = "HOLD" /\ proposed.decision = "HELD" /\ proposed.bundle = <<>>
  BY <1>1, <1>2, <1>3
<1>6. RoutingContract(proposed)
  BY <1>1, <1>4, <1>5 DEF RoutingContract
<1>7. VerdictContract(proposed)
  BY <1>1, <1>4, <1>5 DEF VerdictContract
<1>8. BundleContract(input, proposed) /\ AgreementContract(proposed)
  BY <1>5 DEF BundleContract, AgreementContract
<1> QED
  BY <1>1, <1>5, <1>6, <1>7, <1>8 DEF Contract, proposed

\* A blocked document keeps the contract if a chunk is excluded, when it has any.
LEMMA RejectedKeeps ==
  ASSUME NEW input, NEW C, input.chunks \in Seq(C), ~Unblocked(input)
  PROVE  /\ Contract(input, Proposed(input)) <=> ~Shadowed(input)
         /\ Proposed(input).action \in {"REIMPORT", "RECHUNK"}
<1> DEFINE proposed == Proposed(input)
           findings == Findings(input)
           reviews == ReviewsOf(input)
           codes == {finding.code : finding \in Of(findings, "BLOCKING")}
<1>1. /\ proposed.action = Action(findings) /\ proposed.findings = findings /\ proposed.chunks = reviews
      /\ proposed.decision = Settled(proposed.action, input.chunks)[1]
      /\ proposed.status = Settled(proposed.action, input.chunks)[2]
      /\ proposed.bundle = IF Settled(proposed.action, input.chunks) = <<"APPROVED", "COMPLETED">>
                            THEN ApprovedIds(input.chunks) ELSE <<>>
      /\ reviews # <<>> <=> input.chunks # <<>>
      /\ MetricsContract(proposed)
  BY ProposedIs
<1>2. /\ Action(findings) \in {"REIMPORT", "RECHUNK"}
      /\ Action(findings) = "REIMPORT" <=> \E f \in findings : f.severity = "BLOCKING" /\ f.code \in ReimportCodes
      /\ "GATE1_EXECUTION_FAILED" \notin codes
  <2>1. /\ Action(findings) \in {"REIMPORT", "RECHUNK", "HOLD", "CONTINUE"}
        /\ Action(findings) = "CONTINUE" => Unblocked(input)
        /\ Action(findings) = "HOLD" => Unblocked(input)
        /\ Action(findings) = "REIMPORT" <=> \E f \in findings : f.severity = "BLOCKING" /\ f.code \in ReimportCodes
        /\ "GATE1_EXECUTION_FAILED" \notin codes
    BY ActionIs
  <2> HIDE DEF findings, codes
  <2> QED
    BY <2>1
<1>3. /\ Settled("REIMPORT", input.chunks) = <<"REJECTED", "COMPLETED">>
      /\ Settled("RECHUNK", input.chunks) = <<"REJECTED", "COMPLETED">>
  BY SettledIs
<1>4. Of(findings, "BLOCKING") # {}
  BY DEF Unblocked
<1>5. codes # {} /\ \A code \in codes : \E f \in findings : f.severity = "BLOCKING" /\ f.code = code
  BY <1>4 DEF Of
<1>6. (\E f \in findings : f.severity = "BLOCKING" /\ f.code \in ReimportCodes) => codes \cap ReimportCodes # {}
  BY DEF Of
<1>7. (\E i \in DOMAIN reviews : reviews[i] = "FAILED") <=>
        \E i \in DOMAIN input.chunks : ChunkReview(findings, i) = "FAILED"
  BY DEF ReviewsOf
<1>8. input.chunks # <<>> => ((\E i \in DOMAIN input.chunks : ChunkReview(findings, i) = "FAILED") <=> ~Shadowed(input))
  <2> DEFINE n == Len(input.chunks)
  <2>1. n \in Nat /\ DOMAIN input.chunks = 1..n /\ (n # 0 <=> input.chunks # <<>>)
    OBVIOUS
  <2> HIDE DEF n
  <2> QED
    BY <2>1, SomeExcluded
<1>9. Shadowed(input) => input.chunks # <<>>
  BY DEF Shadowed
<1> HIDE DEF proposed, findings, reviews, codes
<1>10. /\ proposed.action \in {"REIMPORT", "RECHUNK"} /\ proposed.decision = "REJECTED"
       /\ proposed.status = "COMPLETED" /\ proposed.bundle = <<>>
  BY <1>1, <1>2, <1>3
<1>11. RoutingContract(proposed)
  <2>1. CASE proposed.action = "REIMPORT"
    <3>1. codes \cap ReimportCodes # {}
      BY <1>1, <1>2, <1>6, <2>1
    <3> QED
      BY <1>1, <2>1, <3>1 DEF RoutingContract, codes
  <2>2. CASE proposed.action = "RECHUNK"
    <3>1. \A code \in codes : code \notin ReimportCodes
      BY <1>1, <1>2, <1>5, <2>2
    <3>2. codes \ (ReimportCodes \cup {"GATE1_EXECUTION_FAILED"}) # {}
      BY <1>2, <1>5, <3>1
    <3> QED
      BY <1>1, <2>2, <3>2 DEF RoutingContract, codes
  <2> QED
    BY <1>10, <2>1, <2>2
<1>12. VerdictContract(proposed) <=> (reviews # <<>> => \E i \in DOMAIN reviews : reviews[i] = "FAILED")
  BY <1>1, <1>4, <1>10 DEF VerdictContract
<1>13. BundleContract(input, proposed) /\ AgreementContract(proposed)
  BY <1>10 DEF BundleContract, AgreementContract
<1>14. VerdictContract(proposed) <=> ~Shadowed(input)
  BY <1>1, <1>7, <1>8, <1>9, <1>12
<1> QED
  BY <1>1, <1>10, <1>11, <1>13, <1>14 DEF Contract, proposed

\* Every input gets a result its schema accepts; the execution fails only for chunks
\* out of order, or for a blocked document whose every chunk has a lesser finding of its own.
THEOREM EveryInputAnswered ==
  ASSUME NEW input, NEW C, input.chunks \in Seq(C)
  PROVE  LET action == Proposed(input).action IN
          /\ Contract(input, Reviewed(input))
          /\ Reviewed(input).action = "STOP" <=>
                \/ action = "CONTINUE" /\ Unordered(input)
                \/ action \in {"REIMPORT", "RECHUNK"} /\ Shadowed(input)
          /\ Reviewed(input).action # "STOP" => Reviewed(input) = Proposed(input)
          /\ Reviewed(input).action = "STOP" => Reviewed(input) = FailedResult(input)
          /\ FailedResult(input).action = "STOP"
<1> DEFINE proposed == Proposed(input)
           n == Len(input.chunks)
<1>1. n \in Nat /\ DOMAIN input.chunks = 1..n /\ Len(input.chunks) = n
  OBVIOUS
<1>2. FailedResult(input).action = "STOP" /\ Contract(input, FailedResult(input))
  <2> HIDE DEF n
  <2> QED
    BY <1>1, FailedIs
<1>3. CASE Unblocked(input) /\ Unheld(input)
  <2>1. (Contract(input, proposed) <=> ~Unordered(input)) /\ proposed.action = "CONTINUE"
    BY <1>3, ContinueKeeps
  <2> QED
    BY <1>2, <2>1 DEF Reviewed
<1>4. CASE Unblocked(input) /\ ~Unheld(input)
  <2>1. Contract(input, proposed) /\ proposed.action = "HOLD"
    BY <1>4, HoldKeeps
  <2> QED
    BY <1>2, <2>1 DEF Reviewed
<1>5. CASE ~Unblocked(input)
  <2>1. (Contract(input, proposed) <=> ~Shadowed(input)) /\ proposed.action \in {"REIMPORT", "RECHUNK"}
    BY <1>5, RejectedKeeps
  <2> QED
    BY <1>2, <2>1 DEF Reviewed
<1> QED
  BY <1>3, <1>4, <1>5

\* A text is sent back for being empty, changed or holding a forbidden character.
LEMMA ReimportIs ==
  ASSUME NEW input
  PROVE  (\E f \in Findings(input) : f.severity = "BLOCKING" /\ f.code \in ReimportCodes) <=>
            IsBlank(input.text) \/ ~input.sound \/ \E k \in DOMAIN input.text : input.text[k] = "NUL"
<1> DEFINE found == {input.text[k] : k \in DOMAIN input.text}
           kind == IF "NUL" \in found THEN "BLOCKING" ELSE "REVIEW"
           white == WhitespaceFindings(input.text, input.version)
           empty == IsBlank(input.text)
           changed == ~input.sound
           odd == {"NUL", "CTL"} \cap found # {}
           lost == "FFFD" \in found
<1>1. "NUL" \in found <=> \E k \in DOMAIN input.text : input.text[k] = "NUL"
  OBVIOUS
<1>2. DocumentFindings(input) =
         Only(empty, Finding("DOCUMENT_EMPTY", "BLOCKING", {}, {}))
         \cup Only(changed, Finding("DOCUMENT_CHECKSUM_MISMATCH", "BLOCKING", {}, {}))
         \cup Only(lost, Finding("DOCUMENT_TEXT_REPLACEMENT_CHARACTER", "REVIEW", {}, {}))
         \cup Only(odd, Finding("DOCUMENT_FORBIDDEN_CONTROL_CHARACTER", kind, {}, {}))
         \cup white
  BY DEF DocumentFindings
<1>3. \A f \in white : f.code \notin ReimportCodes
  BY DEF WhitespaceFindings, Only, Finding, ReimportCodes
<1>4. \A f \in Findings(input) : f.code \in ReimportCodes => f \in DocumentFindings(input)
  BY ChapterFit, ChunkFit DEF Findings
<1>5. DocumentFindings(input) \subseteq Findings(input)
  BY DEF Findings
<1>6. kind = "BLOCKING" <=> "NUL" \in found
  OBVIOUS
<1>7. "NUL" \in found => odd
  OBVIOUS
<1> HIDE DEF found, kind, white, empty, changed, odd, lost
<1>8. ASSUME NEW f \in Findings(input), f.severity = "BLOCKING", f.code \in ReimportCodes
      PROVE  empty \/ changed \/ "NUL" \in found
  <2>1. \/ empty \/ changed
        \/ f = Finding("DOCUMENT_TEXT_REPLACEMENT_CHARACTER", "REVIEW", {}, {})
        \/ f = Finding("DOCUMENT_FORBIDDEN_CONTROL_CHARACTER", kind, {}, {})
    BY <1>2, <1>3, <1>4, <1>8 DEF Only
  <2>2. \/ empty \/ changed \/ kind = "BLOCKING"
    BY <1>8, <2>1 DEF Finding
  <2> QED
    BY <1>6, <2>2
<1>9. ASSUME empty \/ changed \/ "NUL" \in found
      PROVE  \E f \in Findings(input) : f.severity = "BLOCKING" /\ f.code \in ReimportCodes
  <2>1. CASE empty
    <3> DEFINE f == Finding("DOCUMENT_EMPTY", "BLOCKING", {}, {})
    <3>1. f \in Findings(input)
      BY <1>2, <1>5, <2>1 DEF Only
    <3>2. f.severity = "BLOCKING" /\ f.code \in ReimportCodes
      BY DEF Finding, ReimportCodes
    <3> QED
      BY <3>1, <3>2
  <2>2. CASE changed
    <3> DEFINE f == Finding("DOCUMENT_CHECKSUM_MISMATCH", "BLOCKING", {}, {})
    <3>1. f \in Findings(input)
      BY <1>2, <1>5, <2>2 DEF Only
    <3>2. f.severity = "BLOCKING" /\ f.code \in ReimportCodes
      BY DEF Finding, ReimportCodes
    <3> QED
      BY <3>1, <3>2
  <2>3. CASE "NUL" \in found
    <3> DEFINE f == Finding("DOCUMENT_FORBIDDEN_CONTROL_CHARACTER", kind, {}, {})
    <3>1. f \in Findings(input)
      BY <1>2, <1>5, <1>7, <2>3 DEF Only
    <3>2. f.severity = "BLOCKING" /\ f.code \in ReimportCodes
      BY <1>6, <2>3 DEF Finding, ReimportCodes
    <3> QED
      BY <3>1, <3>2
  <2> QED
    BY <1>9, <2>1, <2>2, <2>3
<1> QED
  BY <1>1, <1>8, <1>9 DEF empty, changed

\* What a chunk is, and a document, that goes on.
StandsSoundly(input, i) ==
    LET chunks == input.chunks
    IN /\ chunks[i].order = i - 1 /\ chunks[i].ours /\ chunks[i].sound
       /\ chunks[i].text = SubSeq(input.text, chunks[i].start + 1, chunks[i].stop)
       /\ \A j \in DOMAIN chunks : i = j \/ (chunks[i].id # chunks[j].id
               /\ (chunks[i].stop <= chunks[j].start \/ chunks[j].stop <= chunks[i].start))
       /\ \E k \in DOMAIN input.chapters :
               /\ input.chapters[k].id = chunks[i].chapter
               /\ chunks[i].order \in input.chapters[k].first..input.chapters[k].last

GoesOnSoundly(input, result) ==
    /\ result.bundle = [i \in DOMAIN input.chunks |-> input.chunks[i].id] /\ input.chunks # <<>>
    /\ \A i \in DOMAIN input.chunks : StandsSoundly(input, i)
    /\ result.metrics.valid = Len(input.chunks) /\ result.metrics.usable = Len(input.chunks)

\* A document that goes on has no finding but warnings, and its chunks are listed in order.
LEMMA ContinuedIs ==
  ASSUME NEW input, NEW C, input.chunks \in Seq(C), Reviewed(input).action = "CONTINUE"
  PROVE  Reviewed(input) = Proposed(input) /\ Unblocked(input) /\ Unheld(input) /\ ~Unordered(input)
<1>1. Reviewed(input) = Proposed(input)
  BY EveryInputAnswered
<1>2. Proposed(input).action = "CONTINUE"
  BY <1>1
<1>3. Proposed(input).action = Action(Findings(input))
  BY ProposedIs
<1>4. Unblocked(input) /\ Unheld(input)
  BY <1>2, <1>3, ActionIs
<1>5. ~Unordered(input)
  BY <1>2, EveryInputAnswered
<1> QED
  BY <1>1, <1>4, <1>5

\* A document goes on only with chunks that are verbatim, apart and in order, each in a chapter
\* of the document that knows how far it reaches.
THEOREM GoesOnSound ==
  ASSUME NEW input, NEW C, input.chunks \in Seq(C), \A chunk \in C : chunk.start \in Int /\ chunk.stop \in Int,
         Reviewed(input).action = "CONTINUE"
  PROVE  GoesOnSoundly(input, Reviewed(input))
<1> DEFINE chunks == input.chunks
           n == Len(chunks)
           I == 1..n
           proposed == Proposed(input)
<1>1. n \in Nat /\ DOMAIN chunks = I /\ Len(chunks) = n
  OBVIOUS
<1>2. \A i \in I : chunks[i].start \in Int /\ chunks[i].stop \in Int
  OBVIOUS
<1>3. Reviewed(input) = proposed /\ Unblocked(input) /\ Unheld(input) /\ ~Unordered(input)
  BY ContinuedIs
<1>4. /\ \A i \in DOMAIN chunks : ReviewsOf(input)[i] = "PASSED"
      /\ proposed.bundle = ApprovedIds(chunks)
  BY <1>3, ContinueKeeps
<1>5. /\ chunks # <<>> /\ Twins(ChunkIds(chunks)) = {} /\ Twins(OrdersOf(chunks)) = {}
      /\ Contiguous(OrdersOf(chunks)) /\ Crossed(input) = {}
      /\ \A i \in DOMAIN chunks : ChunkFine(input, i)
  BY <1>3, UnblockedChunks DEF Unblocked
<1>6. proposed.metrics = Metrics(input, ReviewsOf(input)) /\ ReviewsOf(input) \in [I -> ReviewStatuses]
  BY ProposedIs
<1>7. \A i \in I : chunks[i].order = i - 1
  BY <1>1, <1>3 DEF Unordered
<1>8. OneByOne(OrdersOf(chunks)) /\ OneByOne(ChunkIds(chunks))
  <2>1. DOMAIN OrdersOf(chunks) = I /\ DOMAIN ChunkIds(chunks) = I
    BY <1>1 DEF OrdersOf, ChunkIds
  <2> HIDE DEF chunks, n
  <2> QED
    BY <1>1, <1>5, <2>1, TwinsNone
<1>9. proposed.bundle = [i \in DOMAIN chunks |-> chunks[i].id]
  <2>1. ApprovedIds(chunks) = [i \in 1..n |-> chunks[i].id] <=> \A i \in 1..n : chunks[i].order = i - 1
    BY <1>1, <1>5, <1>8, ApprovedStand
  <2> QED
    BY <1>1, <1>4, <1>7, <2>1
<1>10. \A i, j \in I : chunks[i].id = chunks[j].id => i = j
  BY <1>1, <1>8 DEF OneByOne, ChunkIds
<1>11. \A i \in I : /\ chunks[i].ours /\ chunks[i].sound
                    /\ \E k \in DOMAIN input.chapters : input.chapters[k].id = chunks[i].chapter
                    /\ Audited(chunks[i], input.text) /\ Verbatim(chunks[i], input.text)
                    /\ SubSeq(input.text, chunks[i].start + 1, chunks[i].stop) = chunks[i].text
  BY <1>1, <1>5 DEF ChunkFine, Audited, Verbatim
<1>12. proposed.metrics.valid = n /\ proposed.metrics.usable = n
  <2> DEFINE reviews == ReviewsOf(input)
  <2> HIDE DEF n, reviews
  <2>1. reviews \in [1..n -> ReviewStatuses]
    BY <1>6 DEF reviews
  <2>2. \A i \in 1..n : Audited(input.chunks[i], input.text) /\ Verbatim(input.chunks[i], input.text)
    BY <1>11
  <2>3. \A i \in 1..n : reviews[i] = "PASSED"
    BY <1>1, <1>4 DEF reviews
  <2>4. DOMAIN input.chunks = 1..n /\ Len(input.chunks) = n
    BY <1>1
  <2>5. Metrics(input, reviews).valid = n /\ Metrics(input, reviews).usable = n
    BY <1>1, <2>1, <2>2, <2>3, <2>4, MetricsAre
  <2> QED
    BY <1>6, <2>5 DEF reviews
<1> HIDE DEF proposed
<1>13. ASSUME NEW i \in I, NEW j \in I, i # j
       PROVE  chunks[i].stop <= chunks[j].start \/ chunks[j].stop <= chunks[i].start
  <2>1. i \in Placed(input) /\ j \in Placed(input)
    BY <1>1, <1>11 DEF Placed
  <2>2. \A a, b \in Placed(input) : a < b => ~Overlapping(chunks[a], chunks[b])
    <3> SUFFICES ASSUME NEW a \in Placed(input), NEW b \in Placed(input), a < b, Overlapping(chunks[a], chunks[b])
                 PROVE  FALSE
      OBVIOUS
    <3>1. <<a, b>> \in Crossed(input)
      BY DEF Crossed
    <3> QED
      BY <1>5, <3>1
  <2>3. i < j \/ j < i
    BY <1>1, <1>13
  <2>4. ~Overlapping(chunks[i], chunks[j]) \/ ~Overlapping(chunks[j], chunks[i])
    BY <2>1, <2>2, <2>3
  <2> HIDE DEF chunks
  <2> QED
    BY <1>2, <2>4 DEF Overlapping
<1>14. ASSUME NEW i \in I
       PROVE  \E k \in DOMAIN input.chapters :
                    /\ input.chapters[k].id = chunks[i].chapter
                    /\ chunks[i].order \in input.chapters[k].first..input.chapters[k].last
  <2>1. PICK k \in DOMAIN input.chapters : input.chapters[k].id = chunks[i].chapter
    BY <1>11
  <2> DEFINE orders == Belonging(input.chapters[k], chunks)
  <2>2. chunks[i].order \in orders
    BY <1>1, <2>1 DEF Belonging
  <2>3. orders \in SUBSET (0..n)
    BY <1>1, <1>7 DEF Belonging
  <2>4. orders # {} => Min(orders) = input.chapters[k].first /\ Max(orders) = input.chapters[k].last
    BY <1>3, UnblockedChapters DEF Unblocked
  <2> HIDE DEF orders, n
  <2>5. Min(orders) \in orders /\ \A y \in orders : Min(orders) <= y
    <3>1. orders \in SUBSET Nat
      BY <2>3
    <3> QED
      BY <2>2, <3>1, MinIn
  <2>6. Max(orders) \in orders /\ \A y \in orders : Max(orders) >= y
    BY <1>1, <2>2, <2>3, MaxIn
  <2>7. chunks[i].order \in input.chapters[k].first..input.chapters[k].last
    <3>1. orders \in SUBSET Int
      BY <1>1, <2>3
    <3>2. \E first, last \in orders : /\ first = input.chapters[k].first /\ last = input.chapters[k].last
                                     /\ \A y \in orders : first <= y /\ y <= last
      <4>1. \A y \in orders : Min(orders) <= y /\ y <= Max(orders)
        BY <2>5, <2>6, <3>1
      <4> QED
        BY <2>2, <2>4, <2>5, <2>6, <4>1
    <3>3. PICK first, last \in orders : /\ first = input.chapters[k].first /\ last = input.chapters[k].last
                                       /\ \A y \in orders : first <= y /\ y <= last
      BY <3>2
    <3> DEFINE order == chunks[i].order
    <3>4. order \in orders /\ order \in Int /\ first \in Int /\ last \in Int
      BY <2>2, <3>1
    <3> HIDE DEF order
    <3>5. order \in first..last
      BY <3>3, <3>4
    <3> QED
      BY <3>3, <3>5 DEF order
  <2> QED
    BY <2>1, <2>7
<1> HIDE DEF chunks, n
<1>15. ASSUME NEW i \in I PROVE StandsSoundly(input, i)
  <2>1. \A j \in I : i = j \/ (chunks[i].id # chunks[j].id
                            /\ (chunks[i].stop <= chunks[j].start \/ chunks[j].stop <= chunks[i].start))
    BY <1>10, <1>13
  <2>2. chunks[i].text = SubSeq(input.text, chunks[i].start + 1, chunks[i].stop)
    BY <1>11
  <2>3. \A j \in DOMAIN chunks : i = j \/ (chunks[i].id # chunks[j].id
                            /\ (chunks[i].stop <= chunks[j].start \/ chunks[j].stop <= chunks[i].start))
    BY <1>1, <2>1
  <2>4. chunks[i].order = i - 1 /\ chunks[i].ours /\ chunks[i].sound
    BY <1>7, <1>11
  <2> QED
    BY <1>14, <2>2, <2>3, <2>4, Zenon DEF StandsSoundly, chunks
<1>16. \A i \in DOMAIN chunks : StandsSoundly(input, i)
  BY <1>1, <1>15
<1> QED
  BY <1>1, <1>3, <1>5, <1>9, <1>12, <1>16 DEF GoesOnSoundly, chunks

(***************************************************************************)
(* What a text is cut into: its chapters, paragraphs and chunks.           *)
(***************************************************************************)

LineEnds == {"NL", "LS"}

\* A line ends at its first separator.
LEMMA LineStopIs ==
  ASSUME NEW S, NEW text \in Seq(S), NEW k \in 1..Len(text)
  PROVE  /\ LineStop(text, k) \in k..Len(text)
         /\ \A j \in k..Len(text) : text[j] \in LineEnds => LineStop(text, k) <= j
<1> DEFINE n == Len(text)
           some == {j \in k..n : text[j] \in LineEnds} \cup {n}
<1>1. n \in Nat /\ k \in Nat /\ k <= n
  OBVIOUS
<1>2. LineStop(text, k) = Min(some)
  BY DEF LineStop, LineEnds
<1> HIDE DEF n
<1>3. some \in SUBSET Nat /\ some # {} /\ \A j \in some : j \in k..n
  BY <1>1
<1>4. \A j \in k..n : text[j] \in LineEnds => j \in some
  OBVIOUS
<1> HIDE DEF some
<1>5. Min(some) \in some /\ \A y \in some : Min(some) <= y
  BY <1>3, MinIn
<1> QED
  BY <1>2, <1>3, <1>4, <1>5 DEF n

\* A heading begins a line.
LEMMA HeadingIs ==
  ASSUME NEW S, NEW text \in Seq(S), NEW h \in Headings(text)
  PROVE  h \in 1..Len(text) /\ (h = 1 \/ text[h - 1] \in LineEnds)
BY DEF Headings, LineEnds

\* The line of a heading ends before the next heading.
LEMMA HeadingsApart ==
  ASSUME NEW S, NEW text \in Seq(S), NEW h \in Headings(text), NEW l \in Headings(text), h < l
  PROVE  LineStop(text, h) < l
<1>1. h \in 1..Len(text) /\ l \in 1..Len(text) /\ Len(text) \in Nat
  BY HeadingIs
<1>2. text[l - 1] \in LineEnds
  BY <1>1, HeadingIs
<1>3. l - 1 \in h..Len(text)
  BY <1>1
<1>4. LineStop(text, h) <= l - 1 /\ LineStop(text, h) \in Int
  BY <1>1, <1>2, <1>3, LineStopIs
<1> QED
  BY <1>1, <1>4

NextHeading(text, k) == Min({next \in Headings(text) : next > k} \cup {Len(text) + 1})

\* Where the next heading is, or the text ends.
LEMMA NextHeadingIs ==
  ASSUME NEW S, NEW text \in Seq(S), NEW k \in 1..Len(text)
  PROVE  /\ NextHeading(text, k) \in (k + 1)..(Len(text) + 1)
         /\ \A h \in Headings(text) : h > k => NextHeading(text, k) <= h
         /\ NextHeading(text, k) \in Headings(text) \/ NextHeading(text, k) = Len(text) + 1
<1> DEFINE n == Len(text)
           some == {next \in Headings(text) : next > k} \cup {n + 1}
<1>1. n \in Nat /\ k \in 1..n
  OBVIOUS
<1>2. NextHeading(text, k) = Min(some)
  BY DEF NextHeading
<1>3. \A h \in Headings(text) : h \in 1..n
  BY HeadingIs
<1> HIDE DEF n
<1>4. some \in SUBSET Nat /\ some # {} /\ \A j \in some : j \in (k + 1)..(n + 1)
  BY <1>1, <1>3
<1>5. /\ \A j \in some : j \in Headings(text) \/ j = n + 1
      /\ \A h \in Headings(text) : h > k => h \in some
  OBVIOUS
<1> HIDE DEF some
<1>6. Min(some) \in some /\ \A y \in some : Min(some) <= y
  BY <1>4, MinIn
<1> QED
  BY <1>2, <1>4, <1>5, <1>6 DEF n

BodyAt(text, k) == [from |-> LineStop(text, k) + 1, to |-> NextHeading(text, k) - 1]

LEMMA BodiesWhich ==
  ASSUME NEW text
  PROVE  Bodies(text) = IF Headings(text) = {} THEN {[from |-> 1, to |-> Len(text)]}
                        ELSE {BodyAt(text, k) : k \in Headings(text)}
BY Zenon DEF Bodies, BodyAt, NextHeading

\* A chapter with a heading begins behind its line and ends before the next one.
LEMMA BodyIs ==
  ASSUME NEW S, NEW text \in Seq(S), NEW h \in Headings(text)
  PROVE  /\ BodyAt(text, h).from = LineStop(text, h) + 1 /\ BodyAt(text, h).to = NextHeading(text, h) - 1
         /\ BodyAt(text, h).from \in (h + 1)..(Len(text) + 1) /\ BodyAt(text, h).to \in h..Len(text)
         /\ BodyAt(text, h).from <= BodyAt(text, h).to + 1
         /\ \A l \in Headings(text) : h < l => BodyAt(text, h).to < l
<1> DEFINE n == Len(text)
           stop == LineStop(text, h)
           next == NextHeading(text, h)
<1>1. n \in Nat /\ h \in 1..n
  BY HeadingIs
<1>2. BodyAt(text, h).from = stop + 1 /\ BodyAt(text, h).to = next - 1
  BY DEF BodyAt
<1>3. stop \in h..n
  BY <1>1, LineStopIs
<1>4. next \in (h + 1)..(n + 1) /\ (next \in Headings(text) \/ next = n + 1)
      /\ \A l \in Headings(text) : l > h => next <= l
  BY <1>1, NextHeadingIs
<1>5. next \in Headings(text) => stop < next
  BY <1>1, <1>4, HeadingsApart
<1>6. \A l \in Headings(text) : l \in 1..n
  BY HeadingIs
<1> HIDE DEF n, stop, next
<1>7. stop + 1 \in (h + 1)..(n + 1) /\ next - 1 \in h..n /\ stop + 1 <= (next - 1) + 1
  BY <1>1, <1>3, <1>4, <1>5
<1>8. \A l \in Headings(text) : h < l => next - 1 < l
  BY <1>1, <1>4, <1>6
<1> QED
  BY <1>2, <1>7, <1>8 DEF n, stop, next

\* Where the text of the chapters is.
Inside(one, first, last) == one.from \in Int /\ one.to \in Int /\ first <= one.from /\ one.to <= last

HeldBy(one, x) == one.from <= x /\ x <= one.to

\* Chapters are apart.
LEMMA BodiesAre ==
  ASSUME NEW S, NEW text \in Seq(S)
  PROVE  /\ \A body \in Bodies(text) : Inside(body, 1, Len(text)) /\ body.from <= body.to + 1
         /\ \A one, other \in Bodies(text) :
                one = other \/ (one.to < other.from /\ one.from < other.from) \/ (other.to < one.from /\ other.from < one.from)
<1> DEFINE n == Len(text)
<1>1. n \in Nat
  OBVIOUS
<1>2. CASE Headings(text) = {}
  <2>1. Bodies(text) = {[from |-> 1, to |-> n]}
    BY <1>2, BodiesWhich
  <2> DEFINE body == [from |-> 1, to |-> n]
  <2>2. body.from = 1 /\ body.to = n
    OBVIOUS
  <2> HIDE DEF body, n
  <2> QED
    BY <1>1, <2>1, <2>2 DEF Inside, body, n
<1>3. CASE Headings(text) # {}
  <2>1. Bodies(text) = {BodyAt(text, k) : k \in Headings(text)}
    BY <1>3, BodiesWhich
  <2>2. \A h \in Headings(text) :
          /\ h \in 1..n
          /\ BodyAt(text, h).from \in (h + 1)..(n + 1) /\ BodyAt(text, h).to \in h..n
          /\ BodyAt(text, h).from <= BodyAt(text, h).to + 1
          /\ BodyAt(text, h).from = LineStop(text, h) + 1
          /\ \A l \in Headings(text) : h < l => BodyAt(text, h).to < l
    BY HeadingIs, BodyIs
  <2> HIDE DEF n
  <2>3. ASSUME NEW h \in Headings(text) PROVE Inside(BodyAt(text, h), 1, n) /\ BodyAt(text, h).from <= BodyAt(text, h).to + 1
    BY <1>1, <2>2 DEF Inside
  <2>4. ASSUME NEW h \in Headings(text), NEW l \in Headings(text), h < l
        PROVE  BodyAt(text, h).to < BodyAt(text, l).from /\ BodyAt(text, h).from < BodyAt(text, l).from
    <3>1. LineStop(text, h) < l
      BY <2>4, HeadingsApart
    <3>2. LineStop(text, h) \in Int
      BY HeadingIs, LineStopIs
    <3>3. BodyAt(text, h).to < l
      BY <2>2, <2>4
    <3> QED
      BY <1>1, <2>2, <3>1, <3>2, <3>3
  <2>5. ASSUME NEW one \in Bodies(text), NEW other \in Bodies(text)
        PROVE  one = other \/ (one.to < other.from /\ one.from < other.from) \/ (other.to < one.from /\ other.from < one.from)
    <3>1. PICK h \in Headings(text) : one = BodyAt(text, h)
      BY <2>1
    <3>2. PICK l \in Headings(text) : other = BodyAt(text, l)
      BY <2>1
    <3>3. h \in Int /\ l \in Int
      BY <2>2
    <3>4. h = l \/ h < l \/ l < h
      BY <3>3
    <3> QED
      BY <2>4, <3>1, <3>2, <3>4
  <2> QED
    BY <2>1, <2>3, <2>5 DEF n
<1> QED
  BY <1>2, <1>3

Dropped(text, k) ==
    \E head \in Headings(text) : k < Min(Headings(text)) \/ (head <= k /\ k <= LineStop(text, head))

\* A character is in a chapter unless it is in a heading or precedes the first.
LEMMA BodiesHold ==
  ASSUME NEW S, NEW text \in Seq(S), NEW k \in DOMAIN text
  PROVE  (\E body \in Bodies(text) : HeldBy(body, k)) <=> ~Dropped(text, k)
<1> DEFINE n == Len(text)
           heads == Headings(text)
<1>1. n \in Nat /\ k \in 1..n
  OBVIOUS
<1>2. CASE heads = {}
  <2>1. Bodies(text) = {[from |-> 1, to |-> n]}
    BY <1>2, BodiesWhich
  <2> HIDE DEF n
  <2>2. HeldBy([from |-> 1, to |-> n], k)
    BY <1>1 DEF HeldBy
  <2> QED
    BY <1>2, <2>1, <2>2 DEF Dropped
<1>3. CASE heads # {}
  <2>1. Bodies(text) = {BodyAt(text, h) : h \in heads}
    BY <1>3, BodiesWhich
  <2>2. \A h \in heads :
          /\ h \in 1..n /\ LineStop(text, h) \in h..n
          /\ BodyAt(text, h).from = LineStop(text, h) + 1 /\ BodyAt(text, h).to = NextHeading(text, h) - 1
          /\ NextHeading(text, h) \in (h + 1)..(n + 1)
          /\ NextHeading(text, h) \in heads \/ NextHeading(text, h) = n + 1
          /\ \A l \in heads : h < l => LineStop(text, h) < l /\ NextHeading(text, h) <= l
    BY HeadingIs, BodyIs, LineStopIs, NextHeadingIs, HeadingsApart
  <2>3. heads \in SUBSET Nat
    BY <1>1, <2>2
  <2> HIDE DEF n, heads
  <2>4. Min(heads) \in heads /\ \A h \in heads : Min(heads) <= h
    BY <1>3, <2>3, MinIn
  <2>5. ASSUME NEW h \in heads, HeldBy(BodyAt(text, h), k) PROVE ~Dropped(text, k)
    <3>1. LineStop(text, h) < k /\ k < NextHeading(text, h) /\ h <= LineStop(text, h)
      BY <1>1, <2>2, <2>5 DEF HeldBy
    <3>2. ~(k < Min(heads))
      <4>a. h \in Nat
        BY <2>3
      <4>b. LineStop(text, h) \in Int
        BY <2>2
      <4>c. Min(heads) \in Nat
        BY <2>3, <2>4
      <4>d. Min(heads) <= h
        BY <2>4
      <4>1. h \in Nat /\ LineStop(text, h) \in Int /\ Min(heads) \in Nat /\ Min(heads) <= h
        BY <4>a, <4>b, <4>c, <4>d
      <4> DEFINE least == Min(heads)
                 stop == LineStop(text, h)
      <4> HIDE DEF least, stop
      <4>2. h \in Nat /\ stop \in Int /\ least \in Nat /\ least <= h /\ stop < k /\ h <= stop
        BY <3>1, <4>1 DEF least, stop
      <4> QED
        BY <1>1, <4>2 DEF least
    <3>3. ASSUME NEW l \in heads, l <= k, k <= LineStop(text, l) PROVE FALSE
      <4>1. l = h \/ l < h \/ h < l
        BY <2>3
      <4>2. l # h
        BY <1>1, <2>2, <3>1, <3>3
      <4>3. l < h => FALSE
        <5>1. l < h => LineStop(text, l) < h
          BY <2>2
        <5> QED
          BY <1>1, <2>2, <2>3, <3>1, <3>3, <5>1
      <4>4. h < l => FALSE
        <5>1. h < l => NextHeading(text, h) <= l
          BY <2>2
        <5> QED
          BY <1>1, <2>2, <2>3, <3>1, <3>3, <5>1
      <4> QED
        BY <4>1, <4>2, <4>3, <4>4
    <3> QED
      BY <3>2, <3>3 DEF Dropped, heads
  <2>6. ASSUME ~Dropped(text, k) PROVE \E h \in heads : HeldBy(BodyAt(text, h), k)
    <3> DEFINE prior == {h \in heads : h <= k}
    <3>1. ~(k < Min(heads)) /\ \A h \in heads : ~(h <= k /\ k <= LineStop(text, h))
      BY <1>3, <2>6 DEF Dropped, heads
    <3>2. prior \in SUBSET (0..n) /\ Min(heads) \in prior
      <4>1. \A h \in heads : h \in Nat
        BY <2>3
      <4>2. \A h \in prior : h \in 0..n
        BY <1>1, <2>2, <4>1
      <4>3. Min(heads) \in heads /\ Min(heads) <= k
        BY <1>1, <2>4, <3>1, <4>1
      <4> QED
        BY <4>2, <4>3
    <3>3. prior # {} /\ \A h \in prior : h \in heads /\ h <= k
      BY <3>2
    <3>4. \A h \in heads : h <= k => h \in prior
      OBVIOUS
    <3> HIDE DEF prior
    <3>5. Max(prior) \in prior /\ \A h \in prior : Max(prior) >= h
      BY <1>1, <3>2, <3>3, MaxIn
    <3> DEFINE h == Max(prior)
    <3> HIDE DEF h
    <3>6. h \in heads /\ h <= k /\ \A l \in heads : l <= k => h >= l
      BY <3>3, <3>4, <3>5 DEF h
    <3>7. LineStop(text, h) < k
      BY <1>1, <2>2, <3>1, <3>6
    <3>8. k < NextHeading(text, h)
      <4>1. NextHeading(text, h) \in heads => NextHeading(text, h) > k
        <5>1. NextHeading(text, h) > h /\ NextHeading(text, h) \in Int /\ h \in Int
          BY <1>1, <2>2, <2>3, <3>6
        <5> QED
          BY <1>1, <3>6, <5>1
      <4> QED
        BY <1>1, <2>2, <3>6, <4>1
    <3>9. HeldBy(BodyAt(text, h), k)
      <4> DEFINE stop == LineStop(text, h)
                 next == NextHeading(text, h)
      <4>1. /\ stop \in Int /\ next \in Int /\ BodyAt(text, h).from = stop + 1 /\ BodyAt(text, h).to = next - 1
            /\ stop < k /\ k < next
        BY <2>2, <3>6, <3>7, <3>8
      <4> HIDE DEF stop, next
      <4> QED
        BY <1>1, <4>1 DEF HeldBy
    <3> QED
      BY <3>6, <3>9
  <2> QED
    BY <2>1, <2>5, <2>6
<1> QED
  BY <1>2, <1>3

Opens(text, body, k) ==
    /\ Solid(text, k)
    /\ \A prior \in body.from..(k - 1) :
        (Solid(text, prior) /\ \A j \in (prior + 1)..(k - 1) : ~Solid(text, j)) =>
            \E j \in (prior + 1)..(k - 1) : Break(text, j, body.to)

Close(text, body, k) == Min({j \in k..body.to : Break(text, j, body.to)} \cup {body.to + 1}) - 1

ParagraphAt(text, body, k) == [from |-> k, to |-> Max({j \in k..Close(text, body, k) : text[j] # "NL"})]

LEMMA ParagraphsWhich ==
  ASSUME NEW text, NEW body
  PROVE  Paragraphs(text, body) = {ParagraphAt(text, body, k) : k \in {j \in body.from..body.to : Opens(text, body, j)}}
BY Zenon DEF Paragraphs, ParagraphAt, Opens, Close

\* A paragraph ends at a newline.
LEMMA BreakIs ==
  ASSUME NEW text, NEW k, NEW to, Break(text, k, to)
  PROVE  ~Solid(text, k) /\ text[k] = "NL"
BY DEF Break, Solid, Spaces

\* Where the paragraph ends that begins here.
LEMMA CloseIs ==
  ASSUME NEW S, NEW text \in Seq(S), NEW body, Inside(body, 1, Len(text)), NEW k \in body.from..body.to, Solid(text, k)
  PROVE  /\ Close(text, body, k) \in k..body.to
         /\ \A j \in k..body.to : Break(text, j, body.to) => Close(text, body, k) < j
         /\ \A x \in k..body.to : (\A j \in k..x : ~Break(text, j, body.to)) => x <= Close(text, body, k)
<1> DEFINE to == body.to
           from == body.from
           some == {j \in k..to : Break(text, j, to)} \cup {to + 1}
<1>1. from \in Int /\ to \in Int /\ 1 <= from
  BY DEF Inside
<1>2. Close(text, body, k) = Min(some) - 1
  BY DEF Close
<1>3. k \in from..to
  OBVIOUS
<1>4. ~Break(text, k, to)
  BY BreakIs
<1> HIDE DEF to, from
<1>5. some \in SUBSET Nat /\ some # {} /\ \A j \in some : j \in (k + 1)..(to + 1)
  <2>1. \A j \in some : j \in (k + 1)..(to + 1)
    BY <1>1, <1>3, <1>4
  <2> QED
    BY <1>1, <1>3, <2>1
<1>6. \A j \in k..to : Break(text, j, to) => j \in some
  OBVIOUS
<1>7. \A j \in some : j = to + 1 \/ (j \in k..to /\ Break(text, j, to))
  OBVIOUS
<1> HIDE DEF some
<1>8. Min(some) \in some /\ \A y \in some : Min(some) <= y
  BY <1>5, MinIn
<1> DEFINE stop == Min(some)
<1> HIDE DEF stop
<1>9. stop \in some /\ (\A y \in some : stop <= y) /\ Close(text, body, k) = stop - 1
  BY <1>2, <1>8 DEF stop
<1>10. stop \in (k + 1)..(to + 1) /\ k \in Int
  BY <1>3, <1>5, <1>9
<1>11. stop - 1 \in k..to
  BY <1>1, <1>10
<1>12. ASSUME NEW j \in k..to, Break(text, j, to) PROVE stop - 1 < j
  <2>1. stop <= j
    BY <1>6, <1>9, <1>12
  <2> QED
    BY <1>1, <1>10, <2>1
<1>13. ASSUME NEW x \in k..to, \A j \in k..x : ~Break(text, j, to) PROVE x <= stop - 1
  <2>1. CASE stop = to + 1
    BY <1>1, <1>10, <2>1
  <2>2. CASE stop \in k..to /\ Break(text, stop, to)
    <3>1. stop \notin k..x
      BY <1>13, <2>2
    <3> QED
      BY <1>1, <1>10, <2>2, <3>1
  <2> QED
    BY <1>7, <1>9, <2>1, <2>2
<1> QED
  BY <1>9, <1>11, <1>12, <1>13 DEF to

\* A paragraph ends with the last character before its end that is no newline.
LEMMA ParagraphIs ==
  ASSUME NEW S, NEW text \in Seq(S), NEW body, Inside(body, 1, Len(text)), NEW k \in body.from..body.to, Solid(text, k)
  PROVE  LET p == ParagraphAt(text, body, k) IN
          /\ p.from = k /\ p.to \in k..Close(text, body, k) /\ text[p.to] # "NL"
          /\ \A x \in k..Close(text, body, k) : text[x] # "NL" => x <= p.to
<1> DEFINE p == ParagraphAt(text, body, k)
           close == Close(text, body, k)
           some == {j \in k..close : text[j] # "NL"}
<1>1. p.from = k /\ p.to = Max(some)
  BY DEF ParagraphAt
<1>2. close \in k..body.to
  BY CloseIs
<1>3. body.from \in Int /\ body.to \in Int /\ 1 <= body.from
  BY DEF Inside
<1>4. text[k] # "NL"
  BY DEF Solid, Spaces
<1> HIDE DEF p, close
<1>5. k \in Nat /\ close \in Nat /\ k <= close
  BY <1>2, <1>3
<1>6. some \in SUBSET (0..close) /\ k \in some
  BY <1>4, <1>5
<1>7. \A j \in some : j \in k..close /\ text[j] # "NL"
  OBVIOUS
<1>8. \A x \in k..close : text[x] # "NL" => x \in some
  OBVIOUS
<1> HIDE DEF some
<1>9. Max(some) \in some /\ \A y \in some : Max(some) >= y
  BY <1>5, <1>6, MaxIn
<1>10. \A x \in k..close : text[x] # "NL" => x <= Max(some)
  <2> DEFINE top == Max(some)
  <2>1. top \in some /\ \A y \in some : top >= y
    BY <1>9
  <2>2. top \in Int
    BY <1>7, <2>1
  <2> HIDE DEF top
  <2>3. ASSUME NEW x \in k..close, text[x] # "NL" PROVE x <= top
    <3>1. top >= x
      BY <1>8, <2>1, <2>3
    <3> QED
      BY <1>5, <2>2, <3>1
  <2> QED
    BY <2>3 DEF top
<1> QED
  BY <1>1, <1>7, <1>9, <1>10 DEF p, close

\* A character that is no space is in a paragraph.
LEMMA ParagraphsHold ==
  ASSUME NEW S, NEW text \in Seq(S), NEW body, Inside(body, 1, Len(text)), NEW x \in body.from..body.to, Solid(text, x)
  PROVE  \E p \in Paragraphs(text, body) : HeldBy(p, x)
<1> DEFINE from == body.from
           to == body.to
           some == {k \in from..x : Solid(text, k) /\ \A j \in k..x : ~Break(text, j, to)}
<1>1. from \in Int /\ to \in Int /\ 1 <= from /\ x \in from..to
  BY DEF Inside
<1>2. ~Break(text, x, to) /\ text[x] # "NL"
  <2>1. ~Break(text, x, to)
    BY BreakIs
  <2> QED
    BY <2>1 DEF Solid, Spaces
<1> HIDE DEF from, to
<1>3. x \in some
  <2>1. \A j \in x..x : j = x
    BY <1>1
  <2>2. x \in from..x
    BY <1>1
  <2> QED
    BY <1>2, <2>1, <2>2
<1>4. some \in SUBSET Nat
  BY <1>1
<1>5. \A k \in some : k \in from..x /\ Solid(text, k) /\ \A j \in k..x : ~Break(text, j, to)
  OBVIOUS
<1>6. \A k \in from..x : (Solid(text, k) /\ \A j \in k..x : ~Break(text, j, to)) => k \in some
  OBVIOUS
<1> HIDE DEF some
<1>7. Min(some) \in some /\ \A y \in some : Min(some) <= y
  BY <1>3, <1>4, MinIn
<1> DEFINE k == Min(some)
<1>8. k \in some /\ \A y \in some : k <= y
  BY <1>7
<1> HIDE DEF k
<1>9. k \in from..x /\ Solid(text, k) /\ \A j \in k..x : ~Break(text, j, to)
  BY <1>5, <1>8
<1>10. k \in from..to
  BY <1>1, <1>9
<1>11. ASSUME NEW prior \in from..(k - 1), Solid(text, prior), \A j \in (prior + 1)..(k - 1) : ~Solid(text, j),
              \A j \in (prior + 1)..(k - 1) : ~Break(text, j, to)
       PROVE  FALSE
  <2>1. ~Break(text, prior, to)
    BY <1>11, BreakIs
  <2>2. prior \in from..x /\ prior < k /\ prior \in Int /\ k \in Int
    BY <1>1, <1>9
  <2>3. ASSUME NEW j \in prior..x PROVE ~Break(text, j, to)
    <3>1. j = prior \/ j \in (prior + 1)..(k - 1) \/ j \in k..x
      BY <1>1, <2>2
    <3> QED
      BY <1>9, <1>11, <2>1, <3>1
  <2>4. prior \in some
    BY <1>6, <1>11, <2>2, <2>3
  <2>5. k <= prior
    BY <1>8, <2>4
  <2> QED
    BY <2>2, <2>5
<1>12. Opens(text, body, k)
  BY <1>9, <1>11 DEF Opens, from, to
<1> DEFINE p == ParagraphAt(text, body, k)
<1>13. p \in Paragraphs(text, body)
  BY <1>10, <1>12, ParagraphsWhich DEF from, to
<1>14. /\ p.from = k /\ \A y \in k..Close(text, body, k) : text[y] # "NL" => y <= p.to
  BY <1>9, <1>10, ParagraphIs DEF from, to
<1>15. x <= Close(text, body, k)
  <2>1. x \in k..to
    BY <1>1, <1>9
  <2> QED
    BY <1>9, <1>10, <2>1, CloseIs DEF from, to
<1>16. Close(text, body, k) \in Int
  <2>1. Close(text, body, k) \in k..body.to
    BY <1>9, <1>10, CloseIs DEF from, to
  <2> QED
    BY <2>1
<1> HIDE DEF p
<1>17. x \in k..Close(text, body, k)
  BY <1>1, <1>9, <1>15, <1>16
<1>18. HeldBy(p, x)
  <2>1. x <= p.to
    BY <1>2, <1>14, <1>17
  <2>2. p.from <= x
    BY <1>1, <1>9, <1>14
  <2> QED
    BY <2>1, <2>2 DEF HeldBy
<1> QED
  BY <1>13, <1>18

\* Between two places where paragraphs begin one ends.
LEMMA OpeningsApart ==
  ASSUME NEW S, NEW text \in Seq(S), NEW body, Inside(body, 1, Len(text)),
         NEW k \in body.from..body.to, NEW l \in body.from..body.to, k < l, Solid(text, k), Opens(text, body, l)
  PROVE  Close(text, body, k) < l
<1> DEFINE from == body.from
           to == body.to
           some == {j \in k..(l - 1) : Solid(text, j)}
<1>1. from \in Int /\ to \in Int /\ 1 <= from /\ k \in from..to /\ l \in from..to
  BY DEF Inside
<1>2. \A prior \in from..(l - 1) :
        (Solid(text, prior) /\ \A j \in (prior + 1)..(l - 1) : ~Solid(text, j)) =>
            \E j \in (prior + 1)..(l - 1) : Break(text, j, to)
  BY DEF Opens
<1> HIDE DEF from, to
<1>3. k \in Nat /\ l \in Nat /\ l - 1 \in Nat
  BY <1>1
<1>4. some \in SUBSET (0..(l - 1)) /\ k \in some
  BY <1>3
<1>5. \A j \in some : j \in k..(l - 1) /\ Solid(text, j)
  OBVIOUS
<1>6. \A j \in k..(l - 1) : Solid(text, j) => j \in some
  OBVIOUS
<1> DEFINE last == l - 1
<1> HIDE DEF some
<1>7. Max(some) \in some /\ \A y \in some : Max(some) >= y
  <2>1. last \in Nat /\ some \in SUBSET (0..last) /\ some # {}
    BY <1>3, <1>4
  <2> HIDE DEF last
  <2> QED
    BY <2>1, MaxIn
<1> DEFINE prior == Max(some)
<1>8. prior \in some /\ \A y \in some : prior >= y
  BY <1>7
<1> HIDE DEF prior
<1>9. prior \in k..(l - 1) /\ Solid(text, prior)
  BY <1>5, <1>8
<1>10. \A j \in (prior + 1)..(l - 1) : ~Solid(text, j)
  <2> SUFFICES ASSUME NEW j \in (prior + 1)..(l - 1), Solid(text, j) PROVE FALSE
    OBVIOUS
  <2>1. j \in k..(l - 1) /\ j > prior /\ prior \in Int /\ j \in Int
    BY <1>3, <1>9
  <2>2. prior >= j
    BY <1>6, <1>8, <2>1
  <2> QED
    BY <2>1, <2>2
<1>11. prior \in from..(l - 1)
  BY <1>1, <1>9
<1>12. PICK j \in (prior + 1)..(l - 1) : Break(text, j, to)
  BY <1>2, <1>9, <1>10, <1>11
<1>13. j \in k..to /\ j < l /\ j \in Int
  BY <1>1, <1>3, <1>9
<1>14. Close(text, body, k) < j /\ Close(text, body, k) \in k..to
  BY <1>12, <1>13, CloseIs DEF to
<1>15. Close(text, body, k) \in Int
  BY <1>14
<1> QED
  BY <1>3, <1>13, <1>14, <1>15

\* Paragraphs lie within their chapter and apart.
LEMMA ParagraphsAre ==
  ASSUME NEW S, NEW text \in Seq(S), NEW body, Inside(body, 1, Len(text))
  PROVE  /\ \A p \in Paragraphs(text, body) : Inside(p, body.from, body.to) /\ p.from <= p.to /\ text[p.to] # "NL"
         /\ \A p, q \in Paragraphs(text, body) : p = q \/ p.to < q.from \/ q.to < p.from
<1> DEFINE from == body.from
           to == body.to
           at(k) == ParagraphAt(text, body, k)
           opening == {k \in from..to : Opens(text, body, k)}
<1>1. from \in Int /\ to \in Int /\ 1 <= from
  BY DEF Inside
<1>2. Paragraphs(text, body) = {at(k) : k \in opening}
  BY ParagraphsWhich
<1>3. \A k \in opening : k \in from..to /\ Opens(text, body, k) /\ Solid(text, k)
  BY DEF Opens
<1>4. ASSUME NEW k \in opening
      PROVE  /\ at(k).from = k /\ at(k).to \in k..Close(text, body, k) /\ text[at(k).to] # "NL"
             /\ Close(text, body, k) \in k..to
  BY <1>3, ParagraphIs, CloseIs
<1> HIDE DEF from, to, at, opening
<1>5. ASSUME NEW k \in opening PROVE Inside(at(k), from, to) /\ at(k).from <= at(k).to /\ at(k).to <= Close(text, body, k)
  <2>1. k \in Int /\ k \in from..to
    BY <1>1, <1>3
  <2>2. Close(text, body, k) \in Int /\ k <= Close(text, body, k) /\ Close(text, body, k) <= to
    BY <1>1, <1>4, <2>1
  <2>3. at(k).to \in Int /\ k <= at(k).to /\ at(k).to <= Close(text, body, k) /\ at(k).from = k
    BY <1>4, <2>1, <2>2
  <2>4. at(k).to <= to
    BY <1>1, <2>2, <2>3
  <2> QED
    BY <1>1, <2>1, <2>3, <2>4 DEF Inside
<1>6. ASSUME NEW k \in opening, NEW l \in opening, k < l PROVE at(k).to < at(l).from
  <2>1. Close(text, body, k) < l
    BY <1>3, <1>6, OpeningsApart DEF from, to
  <2>2. at(k).to <= Close(text, body, k) /\ at(k).to \in Int /\ Close(text, body, k) \in Int /\ l \in Int
    BY <1>1, <1>3, <1>4, <1>5 DEF Inside
  <2>3. at(l).from = l
    BY <1>4
  <2> QED
    BY <2>1, <2>2, <2>3
<1>7. ASSUME NEW p \in Paragraphs(text, body), NEW q \in Paragraphs(text, body)
      PROVE  p = q \/ p.to < q.from \/ q.to < p.from
  <2>1. PICK k \in opening : p = at(k)
    BY <1>2
  <2>2. PICK l \in opening : q = at(l)
    BY <1>2
  <2>3. k \in Int /\ l \in Int
    BY <1>1, <1>3
  <2>4. k = l \/ k < l \/ l < k
    BY <2>3
  <2> QED
    BY <1>6, <2>1, <2>2, <2>4
<1>8. ASSUME NEW p \in Paragraphs(text, body) PROVE Inside(p, from, to) /\ p.from <= p.to /\ text[p.to] # "NL"
  BY <1>2, <1>4, <1>5
<1> QED
  BY <1>7, <1>8 DEF from, to

NextFrom(text, stop, to) == Min({k \in (stop + 1)..to : text[k] # "NL"} \cup {to + 1})

\* One step of the cut of a paragraph, the rest of which is cut already.
SpanStep(text, to, f, from) ==
    IF from > to THEN {}
    ELSE IF to - from < MaxChunk THEN {[from |-> from, to |-> to]}
    ELSE {[from |-> from, to |-> SentenceStop(text, from, to)]}
         \cup f[NextFrom(text, SentenceStop(text, from, to), to)]

\* A cut leaves a chunk that is not empty and no longer than the limit.
LEMMA SentenceStopIs ==
  ASSUME NEW text, NEW from \in Nat, NEW to
  PROVE  SentenceStop(text, from, to) \in from..(from + MaxChunk - 1)
<1> DEFINE top == from + MaxChunk - 1
           good == {k \in (from + MinSentence)..top : text[k] = "."}
           rest == IF \E k \in (from + MinSentence)..top : text[k] = "." THEN {} ELSE {top}
           some == good \cup rest
<1>1. MinSentence \in Nat /\ MaxChunk \in Nat /\ MaxChunk > 0 /\ MinSentence < MaxChunk
  BY ChunkAssumption
<1>2. SentenceStop(text, from, to) = Max(some)
  BY DEF SentenceStop
<1>3. top \in Nat /\ top >= from
  BY <1>1
<1>4. good # {} \/ rest = {top}
  OBVIOUS
<1>5. rest = {} \/ rest = {top}
  OBVIOUS
<1>6. \A k \in good : k \in (from + MinSentence)..top
  OBVIOUS
<1> HIDE DEF top, good, rest
<1>7. \A k \in some : k \in from..top
  <2>1. \A k \in good : k \in from..top
    BY <1>1, <1>3, <1>6
  <2> QED
    BY <1>3, <1>5, <2>1
<1>8. some \in SUBSET (0..top) /\ some # {}
  BY <1>3, <1>4, <1>7
<1> HIDE DEF some
<1>9. Max(some) \in some
  BY <1>3, <1>8, MaxIn
<1> QED
  BY <1>2, <1>7, <1>9 DEF top

\* The next chunk begins behind the cut and skips newlines alone.
LEMMA NextFromIs ==
  ASSUME NEW text, NEW stop \in Nat, NEW to \in Nat, stop <= to
  PROVE  /\ NextFrom(text, stop, to) \in (stop + 1)..(to + 1)
         /\ \A j \in (stop + 1)..to : text[j] # "NL" => NextFrom(text, stop, to) <= j
<1> DEFINE some == {k \in (stop + 1)..to : text[k] # "NL"} \cup {to + 1}
<1>1. NextFrom(text, stop, to) = Min(some)
  BY DEF NextFrom
<1>2. some \in SUBSET Nat /\ some # {} /\ \A k \in some : k \in (stop + 1)..(to + 1)
  OBVIOUS
<1>3. \A j \in (stop + 1)..to : text[j] # "NL" => j \in some
  OBVIOUS
<1> HIDE DEF some
<1>4. Min(some) \in some /\ \A y \in some : Min(some) <= y
  BY <1>2, MinIn
<1> QED
  BY <1>1, <1>2, <1>3, <1>4

\* Where the rest of a long paragraph begins.
LEMMA RestIs ==
  ASSUME NEW text, NEW from \in Nat, NEW to \in Nat, ~(to - from < MaxChunk)
  PROVE  LET stop == SentenceStop(text, from, to)
             next == NextFrom(text, stop, to)
         IN /\ stop \in from..(to - 1) /\ stop - from < MaxChunk
            /\ next \in (stop + 1)..(to + 1) /\ next \in (from + 1)..(to + 1)
            /\ \A j \in (stop + 1)..to : text[j] # "NL" => next <= j
<1> DEFINE stop == SentenceStop(text, from, to)
           next == NextFrom(text, stop, to)
<1>1. MaxChunk \in Nat /\ MaxChunk > 0
  BY ChunkAssumption
<1>2. stop \in from..(from + MaxChunk - 1)
  BY SentenceStopIs
<1> HIDE DEF stop
<1>3. stop \in from..(to - 1) /\ stop - from < MaxChunk /\ stop \in Nat /\ stop <= to
  BY <1>1, <1>2
<1>4. next \in (stop + 1)..(to + 1) /\ \A j \in (stop + 1)..to : text[j] # "NL" => next <= j
  BY <1>3, NextFromIs
<1> HIDE DEF next
<1>5. next \in (from + 1)..(to + 1)
  BY <1>3, <1>4
<1> QED
  BY <1>3, <1>4, <1>5 DEF stop, next

\* How a paragraph is cut from some place on depends on what follows alone.
LEMMA StepSame ==
  ASSUME NEW text, NEW from \in Nat, NEW to \in Nat, NEW f, NEW g,
         \A i \in (from + 1)..(to + 1) : f[i] = g[i]
  PROVE  SpanStep(text, to, f, from) = SpanStep(text, to, g, from)
<1>1. CASE to - from < MaxChunk
  BY <1>1 DEF SpanStep
<1>2. CASE ~(to - from < MaxChunk)
  <2> DEFINE next == NextFrom(text, SentenceStop(text, from, to), to)
  <2>1. next \in (from + 1)..(to + 1)
    BY <1>2, RestIs
  <2> HIDE DEF next
  <2>2. f[next] = g[next]
    BY <2>1
  <2> QED
    BY <2>2 DEF SpanStep, next
<1> QED
  BY <1>1, <1>2

\* The cut of the paragraph from each place on.
Solves(text, to, first, f) == f = [from \in first..(to + 1) |-> SpanStep(text, to, f, from)]

\* Cutting a paragraph ends: there is a function that solves its recursion.
LEMMA CutsExist ==
  ASSUME NEW text, NEW to \in Nat, NEW first \in Nat, first <= to + 1
  PROVE  \E f : Solves(text, to, first, f)
<1> DEFINE S == {m \in Nat : m <= to + 1 => \E f : Solves(text, to, (to + 1) - m, f)}
<1>1. 0 \in S
  <2> DEFINE f == [from \in (to + 1)..(to + 1) |-> {}]
  <2>1. \A from \in (to + 1)..(to + 1) : SpanStep(text, to, f, from) = {}
    BY DEF SpanStep
  <2>2. f = [from \in (to + 1)..(to + 1) |-> SpanStep(text, to, f, from)]
    BY <2>1
  <2> HIDE DEF f
  <2>3. Solves(text, to, to + 1, f)
    BY <2>2 DEF Solves
  <2>4. (to + 1) - 0 = to + 1
    OBVIOUS
  <2>5. \E g : Solves(text, to, (to + 1) - 0, g)
    BY <2>3, <2>4
  <2> QED
    BY <2>5
<1>2. ASSUME NEW m \in Nat, m \in S PROVE m + 1 \in S
  <2> SUFFICES ASSUME m + 1 <= to + 1 PROVE \E f : Solves(text, to, (to + 1) - (m + 1), f)
    OBVIOUS
  <2> DEFINE c == (to + 1) - m
             d == (to + 1) - (m + 1)
  <2>1. PICK f : Solves(text, to, c, f)
    BY <1>2
  <2>2. c \in Nat /\ d \in Nat /\ c = d + 1 /\ c <= to + 1
    OBVIOUS
  <2> HIDE DEF c, d
  <2> DEFINE h == [i \in d..(to + 1) |-> IF i = d THEN SpanStep(text, to, f, d) ELSE f[i]]
  <2>3. \A i \in c..(to + 1) : f[i] = SpanStep(text, to, f, i)
    BY <2>1 DEF Solves
  <2>4. /\ h[d] = SpanStep(text, to, f, d)
        /\ \A i \in c..(to + 1) : h[i] = f[i]
        /\ h = [i \in d..(to + 1) |-> h[i]]
    <3>1. \A i \in c..(to + 1) : i \in d..(to + 1) /\ i # d
      BY <2>2
    <3>2. d \in d..(to + 1)
      BY <2>2
    <3> QED
      BY <3>1, <3>2
  <2> HIDE DEF h
  <2>5. ASSUME NEW i \in d..(to + 1) PROVE h[i] = SpanStep(text, to, h, i)
    <3>1. i \in Nat /\ \A j \in (i + 1)..(to + 1) : h[j] = f[j]
      <4>1. \A j \in (i + 1)..(to + 1) : j \in c..(to + 1)
        BY <2>2
      <4> QED
        BY <2>2, <2>4, <4>1
    <3>2. SpanStep(text, to, h, i) = SpanStep(text, to, f, i)
      BY <3>1, StepSame
    <3>3. CASE i = d
      BY <2>4, <3>2, <3>3
    <3>4. CASE i # d
      <4>1. i \in c..(to + 1)
        BY <2>2, <3>4
      <4> QED
        BY <2>3, <2>4, <3>2, <4>1
    <3> QED
      BY <3>3, <3>4
  <2>6. Solves(text, to, d, h)
    BY <2>4, <2>5 DEF Solves
  <2> QED
    BY <2>6 DEF d
<1>3. Nat \subseteq S
  <2> HIDE DEF S
  <2> QED
    BY <1>1, <1>2, InductiveSet
<1>4. (to + 1) - first \in Nat /\ (to + 1) - first <= to + 1 /\ (to + 1) - ((to + 1) - first) = first
  OBVIOUS
<1> DEFINE m == (to + 1) - first
<1>5. m \in S
  <2> HIDE DEF m, S
  <2>1. m \in Nat
    BY <1>4 DEF m
  <2> QED
    BY <1>3, <2>1
<1>6. \E f : Solves(text, to, (to + 1) - m, f)
  BY <1>4, <1>5
<1> QED
  BY <1>4, <1>6

\* The chunks of a paragraph are such a solution's.
LEMMA SpansWhich ==
  ASSUME NEW text, NEW p, p.from \in Nat, p.to \in Nat, p.from <= p.to + 1
  PROVE  \E f : Solves(text, p.to, p.from, f) /\ Spans(text, p) = f[p.from]
<1> DEFINE to == p.to
           first == p.from
           Cuts(f) == f = [from \in first..(to + 1) |->
                IF from > to THEN {}
                ELSE IF to - from < MaxChunk THEN {[from |-> from, to |-> to]}
                ELSE {[from |-> from, to |-> SentenceStop(text, from, to)]} \cup
                     f[Min({k \in (SentenceStop(text, from, to) + 1)..to : text[k] # "NL"} \cup {to + 1})]]
           spans == CHOOSE f : Cuts(f)
<1>1. Spans(text, p) = spans[first]
  BY DEF Spans
<1>2. \A f : Cuts(f) <=> Solves(text, to, first, f)
  BY Zenon DEF Solves, SpanStep, NextFrom
<1> HIDE DEF Cuts
<1>3. \E f : Cuts(f)
  <2> HIDE DEF to, first
  <2>1. to \in Nat /\ first \in Nat /\ first <= to + 1
    BY DEF to, first
  <2> QED
    BY <1>2, <2>1, CutsExist
<1>4. Cuts(spans)
  BY <1>3
<1> HIDE DEF spans
<1> QED
  BY <1>1, <1>2, <1>4

\* A cut keeps every character but newlines, in pieces that are apart and not too long.
SpannedBy(text, cut, from, to) ==
    /\ \A s \in cut : Inside(s, from, to) /\ s.from <= s.to /\ s.to - s.from < MaxChunk
    /\ \A s, t \in cut : s = t \/ s.to < t.from \/ t.to < s.from
    /\ \A x \in from..to : text[x] # "NL" => \E s \in cut : HeldBy(s, x)

\* If what follows a cut is spanned, so is what it begins.
LEMMA StepSpanned ==
  ASSUME NEW text, NEW from \in Nat, NEW to \in Nat, from <= to + 1, NEW f,
         \A i \in (from + 1)..(to + 1) : SpannedBy(text, f[i], i, to)
  PROVE  SpannedBy(text, SpanStep(text, to, f, from), from, to)
<1> DEFINE cut == SpanStep(text, to, f, from)
<1>1. CASE from > to
  <2>1. cut = {}
    BY <1>1 DEF SpanStep
  <2>2. from..to = {}
    BY <1>1
  <2> QED
    BY <2>1, <2>2 DEF SpannedBy
<1>2. CASE ~(from > to) /\ to - from < MaxChunk
  <2> DEFINE one == [from |-> from, to |-> to]
  <2>1. cut = {one}
    BY <1>2 DEF SpanStep
  <2>2. one.from = from /\ one.to = to
    OBVIOUS
  <2> HIDE DEF one, cut
  <2>3. Inside(one, from, to) /\ one.from <= one.to /\ one.to - one.from < MaxChunk
    BY <1>2, <2>2 DEF Inside
  <2>4. \A x \in from..to : HeldBy(one, x)
    BY <2>2 DEF HeldBy
  <2> QED
    BY <2>1, <2>3, <2>4 DEF SpannedBy, cut
<1>3. CASE ~(from > to) /\ ~(to - from < MaxChunk)
  <2> DEFINE stop == SentenceStop(text, from, to)
             next == NextFrom(text, stop, to)
             one == [from |-> from, to |-> stop]
             rest == f[next]
  <2>1. cut = {one} \cup rest
    BY <1>3 DEF SpanStep
  <2>2. one.from = from /\ one.to = stop
    OBVIOUS
  <2>3. /\ stop \in from..(to - 1) /\ stop - from < MaxChunk
        /\ next \in (stop + 1)..(to + 1) /\ next \in (from + 1)..(to + 1)
        /\ \A j \in (stop + 1)..to : text[j] # "NL" => next <= j
    BY <1>3, RestIs
  <2> HIDE DEF one, cut, stop, next, rest
  <2>4. SpannedBy(text, rest, next, to)
    BY <2>3 DEF rest
  <2>5. stop \in Int /\ next \in Int /\ from <= stop /\ stop < next /\ from < next /\ stop <= to
    BY <2>3
  <2>6. Inside(one, from, to) /\ one.from <= one.to /\ one.to - one.from < MaxChunk
    BY <2>2, <2>3, <2>5 DEF Inside
  <2>7. ASSUME NEW s \in rest PROVE Inside(s, from, to) /\ s.from <= s.to /\ s.to - s.from < MaxChunk /\ one.to < s.from
    <3>1. Inside(s, next, to) /\ s.from <= s.to /\ s.to - s.from < MaxChunk
      BY <2>4 DEF SpannedBy
    <3>2. Inside(s, from, to)
      BY <2>5, <3>1 DEF Inside
    <3>3. one.to < s.from
      BY <2>2, <2>5, <3>1 DEF Inside
    <3> QED
      BY <3>1, <3>2, <3>3
  <2>8. \A s, t \in rest : s = t \/ s.to < t.from \/ t.to < s.from
    BY <2>4 DEF SpannedBy
  <2>9. ASSUME NEW x \in from..to, text[x] # "NL" PROVE \E s \in cut : HeldBy(s, x)
    <3>1. CASE x <= stop
      <4>1. HeldBy(one, x)
        BY <2>2, <2>9, <3>1 DEF HeldBy
      <4> QED
        BY <2>1, <4>1
    <3>2. CASE ~(x <= stop)
      <4>1. x \in (stop + 1)..to
        BY <2>5, <3>2
      <4>2. x \in next..to
        BY <2>3, <2>5, <2>9, <4>1
      <4>3. \E s \in rest : HeldBy(s, x)
        BY <2>4, <2>9, <4>2 DEF SpannedBy
      <4> QED
        BY <2>1, <4>3
    <3> QED
      BY <3>1, <3>2
  <2>10. \A s \in cut : Inside(s, from, to) /\ s.from <= s.to /\ s.to - s.from < MaxChunk
    BY <2>1, <2>6, <2>7
  <2>11. \A s, t \in cut : s = t \/ s.to < t.from \/ t.to < s.from
    BY <2>1, <2>7, <2>8
  <2> QED
    BY <2>9, <2>10, <2>11 DEF SpannedBy, cut
<1> QED
  BY <1>1, <1>2, <1>3

\* The pieces of a paragraph lie within it, apart, none is too long, and they hold every
\* character but newlines.
LEMMA SpansAre ==
  ASSUME NEW text, NEW p, p.from \in Nat, p.to \in Nat, p.from <= p.to
  PROVE  SpannedBy(text, Spans(text, p), p.from, p.to)
<1> DEFINE to == p.to
           first == p.from
<1>1. to \in Nat /\ first \in Nat /\ first <= to + 1 /\ first <= to
  OBVIOUS
<1>2. PICK f : Solves(text, to, first, f) /\ Spans(text, p) = f[first]
  BY SpansWhich
<1> HIDE DEF to, first
<1>3. \A i \in first..(to + 1) : f[i] = SpanStep(text, to, f, i)
  BY <1>2 DEF Solves
<1> DEFINE S == {m \in Nat : \A i \in first..(to + 1) : (to + 1) - i <= m => SpannedBy(text, f[i], i, to)}
<1>4. ASSUME NEW i \in first..(to + 1), \A j \in (i + 1)..(to + 1) : SpannedBy(text, f[j], j, to)
      PROVE  SpannedBy(text, f[i], i, to)
  <2>1. i \in Nat /\ i <= to + 1
    BY <1>1
  <2>2. SpannedBy(text, SpanStep(text, to, f, i), i, to)
    BY <1>1, <1>4, <2>1, StepSpanned
  <2> QED
    BY <1>3, <2>2
<1>5. 0 \in S
  <2> SUFFICES ASSUME NEW i \in first..(to + 1), (to + 1) - i <= 0 PROVE SpannedBy(text, f[i], i, to)
    OBVIOUS
  <2>1. (i + 1)..(to + 1) = {}
    BY <1>1
  <2> QED
    BY <1>4, <2>1
<1>6. ASSUME NEW m \in Nat, m \in S PROVE m + 1 \in S
  <2> SUFFICES ASSUME NEW i \in first..(to + 1), (to + 1) - i <= m + 1 PROVE SpannedBy(text, f[i], i, to)
    OBVIOUS
  <2>1. \A j \in (i + 1)..(to + 1) : j \in first..(to + 1) /\ (to + 1) - j <= m
    BY <1>1
  <2>2. \A j \in (i + 1)..(to + 1) : SpannedBy(text, f[j], j, to)
    BY <1>6, <2>1
  <2> QED
    BY <1>4, <2>2
<1>7. Nat \subseteq S
  <2> HIDE DEF S
  <2> QED
    BY <1>5, <1>6, InductiveSet
<1>8. (to + 1) - first \in S /\ first \in first..(to + 1)
  <2>1. (to + 1) - first \in Nat
    BY <1>1
  <2> QED
    BY <1>1, <1>7, <2>1
<1>9. (to + 1) - first <= (to + 1) - first
  BY <1>1
<1>10. SpannedBy(text, f[first], first, to)
  BY <1>8, <1>9
<1> QED
  BY <1>2, <1>10 DEF to, first

\* Pieces between two places that are apart, not too long, with a character that is no
\* space in each; together they hold all of those.
Carved(text, cut, first, last) ==
    /\ \A s \in cut : /\ Inside(s, first, last) /\ s.from <= s.to /\ s.to - s.from < MaxChunk
                      /\ \E x \in s.from..s.to : Solid(text, x)
    /\ \A s, t \in cut : s = t \/ s.to < t.from \/ t.to < s.from
    /\ \A x \in first..last : Solid(text, x) => \E s \in cut : HeldBy(s, x)

\* A piece without the newlines around it holds what is no space, or nothing remains.
LEMMA StrippedIs ==
  ASSUME NEW text, NEW n \in Nat, NEW span, Inside(span, 1, n), span.from <= span.to, span.to - span.from < MaxChunk
  PROVE  Carved(text, Stripped(text, span), span.from, span.to)
<1> DEFINE from == span.from
           to == span.to
           kept == {k \in from..to : text[k] # "NL"}
           least == Min(kept)
           most == Max(kept)
           one == [from |-> least, to |-> most]
           stripped == Stripped(text, span)
<1>1. from \in Nat /\ to \in Nat /\ from <= to /\ 1 <= from /\ to <= n /\ to - from < MaxChunk /\ MaxChunk \in Nat
  BY ChunkAssumption DEF Inside
<1>2. stripped = IF \A k \in kept : ~Solid(text, k) THEN {} ELSE {one}
  BY DEF Stripped
<1>3. \A x \in from..to : Solid(text, x) => x \in kept
  BY DEF Solid, Spaces
<1>4. \A k \in kept : k \in from..to
  OBVIOUS
<1> HIDE DEF kept, stripped
<1>5. CASE \A k \in kept : ~Solid(text, k)
  <2>1. stripped = {} /\ \A x \in from..to : ~Solid(text, x)
    BY <1>2, <1>3, <1>5
  <2> QED
    BY <2>1 DEF Carved, stripped
<1>6. CASE \E k \in kept : Solid(text, k)
  <2>1. PICK k \in kept : Solid(text, k)
    BY <1>6
  <2>2. kept \in SUBSET Nat /\ kept \in SUBSET (0..n) /\ kept # {}
    BY <1>1, <1>4, <2>1
  <2>3. least \in kept /\ \A y \in kept : least <= y
    BY <2>2, MinIn
  <2>4. most \in kept /\ \A y \in kept : y <= most
    <3>1. Max(kept) \in kept /\ \A y \in kept : Max(kept) >= y
      BY <1>1, <2>2, MaxIn
    <3> QED
      BY <2>2, <3>1
  <2>5. stripped = {one} /\ one.from = least /\ one.to = most
    BY <1>2, <1>6
  <2> HIDE DEF least, most, one
  <2>6. least \in from..to /\ most \in from..to /\ k \in from..to /\ least <= k /\ k <= most
    BY <1>4, <2>1, <2>3, <2>4
  <2> HIDE DEF from, to
  <2>7. Inside(one, from, to) /\ one.from <= one.to /\ one.to - one.from < MaxChunk
    BY <1>1, <2>5, <2>6 DEF Inside
  <2>8. \E x \in one.from..one.to : Solid(text, x)
    <3>1. k \in one.from..one.to
      BY <1>1, <2>5, <2>6
    <3> QED
      BY <2>1, <3>1
  <2>9. \A x \in from..to : Solid(text, x) => HeldBy(one, x)
    BY <1>3, <2>3, <2>4, <2>5 DEF HeldBy
  <2>10. Carved(text, stripped, from, to)
    BY <2>5, <2>7, <2>8, <2>9 DEF Carved
  <2> QED
    BY <2>10 DEF stripped, from, to
<1> QED
  BY <1>5, <1>6

\* The pieces of a paragraph.
Pieces(text, p) == UNION {Stripped(text, span) : span \in Spans(text, p)}

\* They still do without the newlines around them.
LEMMA PiecesAre ==
  ASSUME NEW text, NEW n \in Nat, NEW p, Inside(p, 1, n), p.from <= p.to
  PROVE  Carved(text, Pieces(text, p), p.from, p.to)
<1> DEFINE from == p.from
           to == p.to
           spans == Spans(text, p)
           pieces == Pieces(text, p)
<1>1. from \in Nat /\ to \in Nat /\ 1 <= from /\ to <= n
  BY DEF Inside
<1>2. SpannedBy(text, spans, from, to)
  <2>1. p.from \in Nat /\ p.to \in Nat /\ p.from <= p.to
    BY <1>1
  <2> QED
    BY <2>1, SpansAre
<1>3. \A s \in pieces : \E span \in spans : s \in Stripped(text, span)
  BY DEF Pieces
<1>4. \A span \in spans : \A s \in Stripped(text, span) : s \in pieces
  BY DEF Pieces
<1> HIDE DEF from, to, spans, pieces
<1>5. ASSUME NEW span \in spans
      PROVE  /\ Inside(span, from, to) /\ span.from \in Int /\ span.to \in Int
             /\ Carved(text, Stripped(text, span), span.from, span.to)
  <2>1. Inside(span, from, to) /\ span.from <= span.to /\ span.to - span.from < MaxChunk
    BY <1>2 DEF SpannedBy
  <2>2. Inside(span, 1, n)
    BY <1>1, <2>1 DEF Inside
  <2>3. Carved(text, Stripped(text, span), span.from, span.to)
    BY <2>1, <2>2, StrippedIs
  <2> QED
    BY <2>1, <2>3 DEF Inside
<1>6. ASSUME NEW s \in pieces
      PROVE  /\ Inside(s, from, to) /\ s.from <= s.to /\ s.to - s.from < MaxChunk
             /\ \E x \in s.from..s.to : Solid(text, x)
  <2>1. PICK span \in spans : s \in Stripped(text, span)
    BY <1>3
  <2>2. Inside(span, from, to)
    BY <1>5
  <2>3. /\ Inside(s, span.from, span.to) /\ s.from <= s.to /\ s.to - s.from < MaxChunk
        /\ \E x \in s.from..s.to : Solid(text, x)
    BY <1>5, <2>1 DEF Carved
  <2>4. Inside(s, from, to)
    BY <1>1, <2>2, <2>3 DEF Inside
  <2> QED
    BY <2>3, <2>4
<1>7. ASSUME NEW s \in pieces, NEW t \in pieces PROVE s = t \/ s.to < t.from \/ t.to < s.from
  <2>1. PICK a \in spans : s \in Stripped(text, a)
    BY <1>3
  <2>2. PICK b \in spans : t \in Stripped(text, b)
    BY <1>3
  <2>3. CASE a = b
    <3>1. Carved(text, Stripped(text, a), a.from, a.to)
      BY <1>5
    <3>2. s \in Stripped(text, a) /\ t \in Stripped(text, a)
      BY <2>1, <2>2, <2>3
    <3> QED
      BY <3>1, <3>2 DEF Carved
  <2>4. CASE a # b
    <3>1. a.to < b.from \/ b.to < a.from
      BY <1>2, <2>4 DEF SpannedBy
    <3>2. Inside(s, a.from, a.to)
      BY <1>5, <2>1 DEF Carved
    <3>3. Inside(t, b.from, b.to)
      BY <1>5, <2>2 DEF Carved
    <3>4. a.from \in Int /\ a.to \in Int /\ b.from \in Int /\ b.to \in Int
      BY <1>5
    <3> QED
      BY <3>1, <3>2, <3>3, <3>4 DEF Inside
  <2> QED
    BY <2>3, <2>4
<1>8. ASSUME NEW x \in from..to, Solid(text, x) PROVE \E s \in pieces : HeldBy(s, x)
  <2>1. text[x] # "NL"
    BY <1>8 DEF Solid, Spaces
  <2>2. PICK span \in spans : HeldBy(span, x)
    BY <1>2, <2>1 DEF SpannedBy
  <2>3. x \in span.from..span.to
    BY <1>1, <1>5, <2>2 DEF HeldBy
  <2>4. PICK s \in Stripped(text, span) : HeldBy(s, x)
    BY <1>5, <1>8, <2>3 DEF Carved
  <2> QED
    BY <1>4, <2>4
<1>9. Carved(text, pieces, from, to)
  BY <1>6, <1>7, <1>8 DEF Carved
<1> QED
  BY <1>9 DEF pieces, from, to

LEMMA ChunkSpansWhich ==
  ASSUME NEW text, NEW body
  PROVE  /\ \A s \in ChunkSpans(text, body) : \E p \in Paragraphs(text, body) : s \in Pieces(text, p)
         /\ \A p \in Paragraphs(text, body) : \A s \in Pieces(text, p) : s \in ChunkSpans(text, body)
BY DEF ChunkSpans, Pieces

\* The chunks of a chapter.
LEMMA ChunkSpansAre ==
  ASSUME NEW S, NEW text \in Seq(S), NEW body, Inside(body, 1, Len(text))
  PROVE  Carved(text, ChunkSpans(text, body), body.from, body.to)
<1> DEFINE n == Len(text)
           from == body.from
           to == body.to
           paragraphs == Paragraphs(text, body)
           cut == ChunkSpans(text, body)
<1>1. n \in Nat /\ from \in Nat /\ to \in Int /\ 1 <= from /\ to <= n
  BY DEF Inside
<1>2. \A p \in paragraphs : Inside(p, from, to) /\ p.from <= p.to
  BY ParagraphsAre
<1>3. \A p, q \in paragraphs : p = q \/ p.to < q.from \/ q.to < p.from
  BY ParagraphsAre
<1>4. \A x \in from..to : Solid(text, x) => \E p \in paragraphs : HeldBy(p, x)
  BY ParagraphsHold
<1>5. \A s \in cut : \E p \in paragraphs : s \in Pieces(text, p)
  BY ChunkSpansWhich
<1>6. \A p \in paragraphs : \A s \in Pieces(text, p) : s \in cut
  BY ChunkSpansWhich
<1> HIDE DEF n, from, to, paragraphs, cut
<1>7. ASSUME NEW p \in paragraphs
      PROVE  /\ Inside(p, from, to) /\ p.from \in Int /\ p.to \in Int
             /\ Carved(text, Pieces(text, p), p.from, p.to)
  <2>1. Inside(p, from, to) /\ p.from <= p.to
    BY <1>2
  <2>2. Inside(p, 1, n)
    BY <1>1, <2>1 DEF Inside
  <2>3. Carved(text, Pieces(text, p), p.from, p.to)
    BY <1>1, <2>1, <2>2, PiecesAre
  <2> QED
    BY <2>1, <2>3 DEF Inside
<1>8. ASSUME NEW s \in cut
      PROVE  /\ Inside(s, from, to) /\ s.from <= s.to /\ s.to - s.from < MaxChunk
             /\ \E x \in s.from..s.to : Solid(text, x)
  <2>1. PICK p \in paragraphs : s \in Pieces(text, p)
    BY <1>5
  <2>2. Inside(p, from, to)
    BY <1>7
  <2>3. /\ Inside(s, p.from, p.to) /\ s.from <= s.to /\ s.to - s.from < MaxChunk
        /\ \E x \in s.from..s.to : Solid(text, x)
    BY <1>7, <2>1 DEF Carved
  <2>4. Inside(s, from, to)
    BY <1>1, <2>2, <2>3 DEF Inside
  <2> QED
    BY <2>3, <2>4
<1>9. ASSUME NEW s \in cut, NEW t \in cut PROVE s = t \/ s.to < t.from \/ t.to < s.from
  <2>1. PICK a \in paragraphs : s \in Pieces(text, a)
    BY <1>5
  <2>2. PICK b \in paragraphs : t \in Pieces(text, b)
    BY <1>5
  <2>3. CASE a = b
    <3>1. Carved(text, Pieces(text, a), a.from, a.to)
      BY <1>7
    <3>2. s \in Pieces(text, a) /\ t \in Pieces(text, a)
      BY <2>1, <2>2, <2>3
    <3> QED
      BY <3>1, <3>2 DEF Carved
  <2>4. CASE a # b
    <3>1. a.to < b.from \/ b.to < a.from
      BY <1>3, <2>4
    <3>2. Inside(s, a.from, a.to)
      BY <1>7, <2>1 DEF Carved
    <3>3. Inside(t, b.from, b.to)
      BY <1>7, <2>2 DEF Carved
    <3>4. a.from \in Int /\ a.to \in Int /\ b.from \in Int /\ b.to \in Int
      BY <1>7
    <3> QED
      BY <3>1, <3>2, <3>3, <3>4 DEF Inside
  <2> QED
    BY <2>3, <2>4
<1>10. ASSUME NEW x \in from..to, Solid(text, x) PROVE \E s \in cut : HeldBy(s, x)
  <2>1. PICK p \in paragraphs : HeldBy(p, x)
    BY <1>4, <1>10
  <2>2. x \in p.from..p.to
    BY <1>1, <1>7, <2>1 DEF HeldBy
  <2>3. PICK s \in Pieces(text, p) : HeldBy(s, x)
    BY <1>7, <1>10, <2>2 DEF Carved
  <2> QED
    BY <1>6, <2>3
<1>11. Carved(text, cut, from, to)
  BY <1>8, <1>9, <1>10 DEF Carved
<1> QED
  BY <1>11 DEF cut, from, to

\* All chunks of a text.
AllSpans(text) == UNION {ChunkSpans(text, body) : body \in Bodies(text)}

LEMMA AllSpansWhich ==
  ASSUME NEW text
  PROVE  /\ \A s \in AllSpans(text) : \E body \in Bodies(text) : s \in ChunkSpans(text, body)
         /\ \A body \in Bodies(text) : \A s \in ChunkSpans(text, body) : s \in AllSpans(text)
BY DEF AllSpans

\* What the chunks of a text are, by where they begin and end.
LEMMA AllSpansAre ==
  ASSUME NEW S, NEW text \in Seq(S)
  PROVE  LET cut == AllSpans(text) IN
          /\ \A s \in cut : /\ Inside(s, 1, Len(text)) /\ s.from <= s.to /\ s.to - s.from < MaxChunk
                            /\ \E x \in s.from..s.to : Solid(text, x)
          /\ \A s, t \in cut : s = t \/ s.to < t.from \/ t.to < s.from
          /\ \A x \in DOMAIN text : Solid(text, x) => (Dropped(text, x) <=> \A s \in cut : ~HeldBy(s, x))
          /\ \A s \in cut : \E body \in Bodies(text) : Inside(s, body.from, body.to)
<1> DEFINE n == Len(text)
           bodies == Bodies(text)
           cut == AllSpans(text)
<1>1. n \in Nat /\ DOMAIN text = 1..n
  OBVIOUS
<1>2. /\ \A body \in bodies : Inside(body, 1, n) /\ body.from <= body.to + 1
      /\ \A one, other \in bodies :
            one = other \/ (one.to < other.from /\ one.from < other.from) \/ (other.to < one.from /\ other.from < one.from)
  BY BodiesAre
<1>3. \A body \in bodies : Carved(text, ChunkSpans(text, body), body.from, body.to)
  BY <1>2, ChunkSpansAre
<1>4. \A k \in 1..n : (\E body \in bodies : HeldBy(body, k)) <=> ~Dropped(text, k)
  BY <1>1, BodiesHold
<1>5. \A s \in cut : \E body \in bodies : s \in ChunkSpans(text, body)
  BY AllSpansWhich
<1>6. \A body \in bodies : \A s \in ChunkSpans(text, body) : s \in cut
  BY AllSpansWhich
<1> HIDE DEF n, bodies, cut
<1>7. ASSUME NEW body \in bodies PROVE body.from \in Int /\ body.to \in Int /\ 1 <= body.from /\ body.to <= n
  BY <1>2 DEF Inside
<1>8. ASSUME NEW s \in cut
      PROVE  \E body \in bodies : s \in ChunkSpans(text, body) /\ Inside(s, body.from, body.to)
  <2>1. PICK body \in bodies : s \in ChunkSpans(text, body)
    BY <1>5
  <2>2. Inside(s, body.from, body.to)
    BY <1>3, <2>1 DEF Carved
  <2> QED
    BY <2>1, <2>2
<1>9. ASSUME NEW s \in cut
      PROVE  /\ Inside(s, 1, n) /\ s.from <= s.to /\ s.to - s.from < MaxChunk
             /\ \E x \in s.from..s.to : Solid(text, x)
  <2>1. PICK body \in bodies : s \in ChunkSpans(text, body) /\ Inside(s, body.from, body.to)
    BY <1>8
  <2>2. s.from <= s.to /\ s.to - s.from < MaxChunk /\ \E x \in s.from..s.to : Solid(text, x)
    BY <1>3, <2>1 DEF Carved
  <2>3. Inside(s, 1, n)
    BY <1>1, <1>7, <2>1 DEF Inside
  <2> QED
    BY <2>2, <2>3
<1>10. ASSUME NEW s \in cut, NEW t \in cut PROVE s = t \/ s.to < t.from \/ t.to < s.from
  <2>1. PICK a \in bodies : s \in ChunkSpans(text, a) /\ Inside(s, a.from, a.to)
    BY <1>8
  <2>2. PICK b \in bodies : t \in ChunkSpans(text, b) /\ Inside(t, b.from, b.to)
    BY <1>8
  <2>3. CASE a = b
    BY <1>3, <2>1, <2>2, <2>3 DEF Carved
  <2>4. CASE a # b
    <3>1. a.to < b.from \/ b.to < a.from
      BY <1>2, <2>4
    <3>2. a.from \in Int /\ a.to \in Int /\ b.from \in Int /\ b.to \in Int
      BY <1>7
    <3> QED
      BY <2>1, <2>2, <3>1, <3>2 DEF Inside
  <2> QED
    BY <2>3, <2>4
<1>11. ASSUME NEW x \in 1..n, Solid(text, x) PROVE Dropped(text, x) <=> \A s \in cut : ~HeldBy(s, x)
  <2>1. ASSUME ~Dropped(text, x) PROVE \E s \in cut : HeldBy(s, x)
    <3>1. PICK body \in bodies : HeldBy(body, x)
      BY <1>4, <2>1
    <3>2. x \in body.from..body.to
      BY <1>1, <1>7, <3>1 DEF HeldBy
    <3>3. PICK s \in ChunkSpans(text, body) : HeldBy(s, x)
      BY <1>3, <1>11, <3>2 DEF Carved
    <3> QED
      BY <1>6, <3>3
  <2>2. ASSUME NEW s \in cut, HeldBy(s, x) PROVE ~Dropped(text, x)
    <3>1. PICK body \in bodies : s \in ChunkSpans(text, body) /\ Inside(s, body.from, body.to)
      BY <1>8
    <3>2. HeldBy(body, x)
      <4>1. body.from \in Int /\ body.to \in Int /\ x \in Int
        BY <1>1, <1>7
      <4> QED
        BY <2>2, <3>1, <4>1 DEF HeldBy, Inside
    <3> QED
      BY <1>4, <3>2
  <2> QED
    BY <2>1, <2>2
<1>12. \A s \in cut : \E body \in bodies : Inside(s, body.from, body.to)
  BY <1>8
<1> QED
  BY <1>1, <1>9, <1>10, <1>11, <1>12 DEF n, bodies, cut

\* Things that begin in different places, up to some place.
Listed(S, N) ==
    /\ \A s \in S : s.from \in 0..N
    /\ \A s, t \in S : s.from = t.from => s = t

\* How many begin before a place.
SpansBefore(S, x) == Cardinality({s \in S : s.from < x})

\* Spans that are apart are finitely many.
LEMMA ListedFinite ==
  ASSUME NEW N \in Nat, NEW S, Listed(S, N)
  PROVE  IsFiniteSet(S) /\ Cardinality(S) \in Nat
<1> DEFINE zero == 0
           all == zero..N
           f == [s \in S |-> s.from]
<1>1. f \in [S -> all]
  BY DEF Listed
<1>2. \A s, t \in S : f[s] = f[t] => s = t
  BY DEF Listed
<1>3. f \in Injection(S, all)
  <2> HIDE DEF f, all
  <2> QED
    BY <1>1, <1>2 DEF Injection, IsInjective
<1>4. IsFiniteSet(all)
  <2>1. zero \in Int /\ N \in Int
    OBVIOUS
  <2> HIDE DEF zero
  <2> QED
    BY <2>1, FS_Interval
<1> HIDE DEF f, all
<1>5. IsFiniteSet(S)
  BY <1>3, <1>4, FS_Injection
<1> QED
  BY <1>5, FS_CardinalityType

\* The further to the right, the more spans are before.
LEMMA BeforeGrows ==
  ASSUME NEW N \in Nat, NEW S, Listed(S, N), NEW x \in Int, NEW y \in Int, x <= y
  PROVE  /\ SpansBefore(S, x) \in Nat /\ SpansBefore(S, y) \in Nat
         /\ SpansBefore(S, x) <= SpansBefore(S, y) /\ SpansBefore(S, y) <= Cardinality(S)
         /\ \A s \in S : x <= s.from /\ s.from < y => SpansBefore(S, x) < SpansBefore(S, y)
<1> DEFINE low == {s \in S : s.from < x}
           high == {s \in S : s.from < y}
<1>1. IsFiniteSet(S) /\ Cardinality(S) \in Nat
  BY ListedFinite
<1>2. \A s \in S : s.from \in Int
  BY DEF Listed
<1>3. low \in SUBSET high /\ high \in SUBSET S
  BY <1>2
<1>4. \A s \in S : x <= s.from /\ s.from < y => s \in high /\ s \notin low
  BY <1>2
<1>5. SpansBefore(S, x) = Cardinality(low) /\ SpansBefore(S, y) = Cardinality(high)
  BY DEF SpansBefore
<1> HIDE DEF low, high
<1>6. IsFiniteSet(high) /\ Cardinality(high) <= Cardinality(S)
  BY <1>1, <1>3, FS_Subset
<1>7. IsFiniteSet(low) /\ Cardinality(low) <= Cardinality(high) /\ (Cardinality(high) = Cardinality(low) => high = low)
  BY <1>3, <1>6, FS_Subset
<1>8. Cardinality(low) \in Nat /\ Cardinality(high) \in Nat
  BY <1>6, <1>7, FS_CardinalityType
<1>9. \A s \in S : x <= s.from /\ s.from < y => Cardinality(low) # Cardinality(high)
  BY <1>4, <1>7
<1> QED
  BY <1>5, <1>6, <1>7, <1>8, <1>9

\* Counting those before each numbers them from 0.
LEMMA BeforeNumbers ==
  ASSUME NEW N \in Nat, NEW S, Listed(S, N)
  PROVE  /\ \A s \in S : SpansBefore(S, s.from) \in 0..(Cardinality(S) - 1)
         /\ \A s, t \in S : SpansBefore(S, s.from) = SpansBefore(S, t.from) => s = t
         /\ \A k \in 0..(Cardinality(S) - 1) : \E s \in S : SpansBefore(S, s.from) = k
<1> DEFINE n == Cardinality(S)
           zero == 0
           top == n - 1
           all == zero..top
           rank == [s \in S |-> SpansBefore(S, s.from)]
<1>1. IsFiniteSet(S) /\ n \in Nat
  BY ListedFinite
<1>2. \A s \in S : s.from \in Int /\ s.from <= N
  BY DEF Listed
<1>3. ASSUME NEW s \in S PROVE SpansBefore(S, s.from) \in 0..(n - 1)
  <2> DEFINE x == s.from
             y == N + 1
  <2>1. x \in Int /\ y \in Int /\ x <= y /\ x <= s.from /\ s.from < y
    BY <1>2
  <2> HIDE DEF x, y, n
  <2>2. /\ SpansBefore(S, x) \in Nat /\ SpansBefore(S, y) \in Nat /\ SpansBefore(S, y) <= Cardinality(S)
        /\ \A t \in S : x <= t.from /\ t.from < y => SpansBefore(S, x) < SpansBefore(S, y)
    BY <2>1, BeforeGrows
  <2>3. SpansBefore(S, x) < SpansBefore(S, y)
    BY <2>1, <2>2
  <2> QED
    BY <1>1, <2>2, <2>3 DEF x, n
<1>4. ASSUME NEW s \in S, NEW t \in S, s.from < t.from PROVE SpansBefore(S, s.from) < SpansBefore(S, t.from)
  <2> DEFINE x == s.from
             y == t.from
  <2>1. x \in Int /\ y \in Int /\ x <= y /\ x <= s.from /\ s.from < y
    BY <1>2, <1>4
  <2> HIDE DEF x, y
  <2>2. \A u \in S : x <= u.from /\ u.from < y => SpansBefore(S, x) < SpansBefore(S, y)
    BY <2>1, BeforeGrows
  <2>3. SpansBefore(S, x) < SpansBefore(S, y)
    BY <2>1, <2>2
  <2> QED
    BY <2>3 DEF x, y
<1>5. ASSUME NEW s \in S, NEW t \in S, SpansBefore(S, s.from) = SpansBefore(S, t.from) PROVE s = t
  <2>1. ~(s.from < t.from)
    BY <1>3, <1>4, <1>5
  <2>2. ~(t.from < s.from)
    BY <1>3, <1>4, <1>5
  <2>3. s.from = t.from
    BY <1>2, <2>1, <2>2
  <2> QED
    BY <2>3 DEF Listed
<1>6. rank \in [S -> all] /\ \A s \in S : rank[s] = SpansBefore(S, s.from)
  BY <1>3
<1>7. IsFiniteSet(all) /\ Cardinality(all) = n
  <2>1. zero \in Int /\ top \in Int
    BY <1>1
  <2>2. IF zero > top THEN n = 0 ELSE n = top - zero + 1
    BY <1>1
  <2> HIDE DEF zero, top
  <2>3. IsFiniteSet(all) /\ Cardinality(all) = IF zero > top THEN 0 ELSE top - zero + 1
    BY <2>1, FS_Interval
  <2> QED
    BY <2>2, <2>3
<1> HIDE DEF rank, all
<1>8. rank \in Injection(S, all)
  BY <1>5, <1>6 DEF Injection, IsInjective
<1>9. rank \in Surjection(S, all)
  BY <1>1, <1>7, <1>8, FS_Injection
<1>10. \A k \in all : \E s \in S : SpansBefore(S, s.from) = k
  <2>1. \A k \in all : \E s \in S : rank[s] = k
    BY <1>9 DEF Surjection
  <2> QED
    BY <1>6, <2>1
<1> QED
  BY <1>3, <1>5, <1>10 DEF all, n, zero, top

\* The order of the list, its numbers and the counts.
LEMMA InOrderIs ==
  ASSUME NEW N \in Nat, NEW S, Listed(S, N)
  PROVE  LET n == Cardinality(S)
             list == InOrder(S)
         IN /\ n \in Nat /\ DOMAIN list = 1..n
            /\ \A k \in 1..n : list[k] \in S /\ SpansBefore(S, list[k].from) = k - 1
            /\ \A s \in S : \E k \in 1..n : list[k] = s
            /\ \A j, k \in 1..n : j < k => list[j].from < list[k].from
            /\ \A x \in Int : \A k \in 1..n : list[k].from < x <=> k <= SpansBefore(S, x)
            /\ \A x \in Int : SpansBefore(S, x) \in 0..n
<1> DEFINE n == Cardinality(S)
           list == InOrder(S)
<1>1. n \in Nat
  BY ListedFinite
<1>2. DOMAIN list = 1..n /\ \A k \in 1..n : list[k] = CHOOSE s \in S : SpansBefore(S, s.from) = k - 1
  BY DEF InOrder, SpansBefore
<1>3. /\ \A s \in S : SpansBefore(S, s.from) \in 0..(n - 1)
      /\ \A s, t \in S : SpansBefore(S, s.from) = SpansBefore(S, t.from) => s = t
      /\ \A k \in 0..(n - 1) : \E s \in S : SpansBefore(S, s.from) = k
  BY BeforeNumbers
<1>4. \A s \in S : s.from \in Int
  BY DEF Listed
<1> HIDE DEF n, list
<1>5. ASSUME NEW k \in 1..n PROVE list[k] \in S /\ SpansBefore(S, list[k].from) = k - 1
  <2>1. k - 1 \in 0..(n - 1)
    BY <1>1
  <2>2. \E s \in S : SpansBefore(S, s.from) = k - 1
    BY <1>3, <2>1
  <2> QED
    BY <1>2, <2>2
<1>6. ASSUME NEW s \in S PROVE \E k \in 1..n : list[k] = s
  <2> DEFINE k == SpansBefore(S, s.from) + 1
  <2>1. k \in 1..n /\ k - 1 = SpansBefore(S, s.from)
    BY <1>1, <1>3
  <2> HIDE DEF k
  <2>2. list[k] \in S /\ SpansBefore(S, list[k].from) = SpansBefore(S, s.from)
    BY <1>5, <2>1
  <2>3. list[k] = s
    BY <1>3, <2>2
  <2> QED
    BY <2>1, <2>3
<1>7. ASSUME NEW x \in Int, NEW k \in 1..n PROVE list[k].from < x <=> k <= SpansBefore(S, x)
  <2> DEFINE one == list[k]
             from == one.from
  <2>1. one \in S /\ SpansBefore(S, from) = k - 1 /\ from \in Int
    BY <1>4, <1>5
  <2> HIDE DEF one, from
  <2>2. CASE from < x
    <3>1. /\ SpansBefore(S, x) \in Nat
          /\ \A s \in S : from <= s.from /\ s.from < x => SpansBefore(S, from) < SpansBefore(S, x)
      <4>1. from <= x
        BY <2>1, <2>2
      <4> QED
        BY <2>1, <4>1, BeforeGrows
    <3>2. SpansBefore(S, from) < SpansBefore(S, x)
      BY <2>1, <2>2, <3>1 DEF from
    <3> QED
      BY <2>1, <2>2, <3>1, <3>2 DEF one, from
  <2>3. CASE ~(from < x)
    <3>1. SpansBefore(S, x) \in Nat /\ SpansBefore(S, x) <= SpansBefore(S, from)
      <4>1. x <= from
        BY <2>1, <2>3
      <4> QED
        BY <2>1, <4>1, BeforeGrows
    <3> QED
      BY <2>1, <2>3, <3>1 DEF one, from
  <2> QED
    BY <2>2, <2>3
<1>8. ASSUME NEW j \in 1..n, NEW k \in 1..n, j < k PROVE list[j].from < list[k].from
  <2> DEFINE x == list[k].from
  <2>1. x \in Int /\ SpansBefore(S, x) = k - 1
    BY <1>4, <1>5
  <2> HIDE DEF x
  <2>2. list[j].from < x <=> j <= SpansBefore(S, x)
    BY <1>7, <2>1
  <2> QED
    BY <1>8, <2>1, <2>2 DEF x
<1>9. ASSUME NEW x \in Int PROVE SpansBefore(S, x) \in 0..n
  <2>1. x <= x
    OBVIOUS
  <2>2. SpansBefore(S, x) \in Nat /\ SpansBefore(S, x) <= Cardinality(S)
    BY <2>1, BeforeGrows
  <2> QED
    BY <1>1, <2>2 DEF n
<1> QED
  BY <1>1, <1>2, <1>5, <1>6, <1>7, <1>8, <1>9 DEF n, list

\* The chapter a piece of text is in.
BookOf(text, span) ==
    CHOOSE k \in DOMAIN InOrder(Bodies(text)) :
        InOrder(Bodies(text))[k].from <= span.from /\ span.to <= InOrder(Bodies(text))[k].to

ChapterAt(document, text, k) ==
    LET body == InOrder(Bodies(text))[k]
        first == SpansBefore(AllSpans(text), body.from)
        inside == SpansBefore(AllSpans(text), body.to + 1) - first
    IN [id |-> <<document, k - 1>>, order |-> k - 1, ours |-> TRUE, titled |-> TRUE,
        first |-> first, last |-> first + (IF inside = 0 THEN 0 ELSE inside - 1)]

ChunkAt(document, text, k) ==
    LET span == InOrder(AllSpans(text))[k]
        cut == SubSeq(text, span.from, span.to)
    IN [id |-> <<document, k - 1, cut>>, order |-> k - 1, ours |-> TRUE,
        chapter |-> <<document, BookOf(text, span) - 1>>, text |-> cut, sound |-> TRUE,
        start |-> span.from - 1, stop |-> span.to]

LEMMA ParsedWhich ==
  ASSUME NEW document, NEW text
  PROVE  /\ Parsed(document, text).chapters = [k \in DOMAIN InOrder(Bodies(text)) |-> ChapterAt(document, text, k)]
         /\ Parsed(document, text).chunks = [k \in 1..Cardinality(AllSpans(text)) |-> ChunkAt(document, text, k)]
BY DEF Parsed, AllSpans, SpansBefore, BookOf, ChapterAt, ChunkAt

LEMMA ChunkAtHas ==
  ASSUME NEW document, NEW text, NEW k
  PROVE  LET chunk == ChunkAt(document, text, k)
             span == InOrder(AllSpans(text))[k]
         IN /\ chunk.id = <<document, k - 1, chunk.text>> /\ chunk.order = k - 1 /\ chunk.ours /\ chunk.sound
            /\ chunk.chapter = <<document, BookOf(text, span) - 1>>
            /\ chunk.text = SubSeq(text, span.from, span.to)
            /\ chunk.start = span.from - 1 /\ chunk.stop = span.to
BY DEF ChunkAt

LEMMA ChapterAtHas ==
  ASSUME NEW document, NEW text, NEW k
  PROVE  LET chapter == ChapterAt(document, text, k)
             body == InOrder(Bodies(text))[k]
             first == SpansBefore(AllSpans(text), body.from)
             inside == SpansBefore(AllSpans(text), body.to + 1) - first
         IN /\ chapter.id = <<document, k - 1>> /\ chapter.order = k - 1 /\ chapter.ours /\ chapter.titled
            /\ chapter.first = first /\ chapter.last = first + (IF inside = 0 THEN 0 ELSE inside - 1)
BY DEF ChapterAt

\* The chunks of a text can be listed from left to right.
LEMMA SpansListed ==
  ASSUME NEW C, NEW text \in Seq(C)
  PROVE  Listed(AllSpans(text), Len(text))
<1> DEFINE n == Len(text)
           cut == AllSpans(text)
<1>1. /\ \A s \in cut : Inside(s, 1, n) /\ s.from <= s.to
      /\ \A s, t \in cut : s = t \/ s.to < t.from \/ t.to < s.from
  BY AllSpansAre
<1>2. n \in Nat
  OBVIOUS
<1> HIDE DEF n, cut
<1>3. \A s \in cut : s.from \in 0..n /\ s.to \in Int /\ s.from <= s.to
  BY <1>1, <1>2 DEF Inside
<1>4. \A s, t \in cut : s.from = t.from => s = t
  BY <1>1, <1>2, <1>3
<1>5. Listed(cut, n)
  BY <1>3, <1>4 DEF Listed
<1> QED
  BY <1>5 DEF cut, n

\* And so can its chapters.
LEMMA BodiesListed ==
  ASSUME NEW C, NEW text \in Seq(C)
  PROVE  Listed(Bodies(text), Len(text) + 1)
<1> DEFINE n == Len(text)
           bodies == Bodies(text)
<1>1. /\ \A body \in bodies : Inside(body, 1, n) /\ body.from <= body.to + 1
      /\ \A one, other \in bodies :
            one = other \/ (one.to < other.from /\ one.from < other.from) \/ (other.to < one.from /\ other.from < one.from)
  BY BodiesAre
<1>2. n \in Nat
  OBVIOUS
<1> HIDE DEF n, bodies
<1>3. \A s \in bodies : s.from \in 0..(n + 1)
  BY <1>1, <1>2 DEF Inside
<1>4. \A s, t \in bodies : s.from = t.from => s = t
  BY <1>1, <1>2, <1>3
<1>5. Listed(bodies, n + 1)
  BY <1>3, <1>4 DEF Listed
<1> QED
  BY <1>5 DEF bodies, n

\* What is cut out of a text and holds a character that is no space.
LEMMA ChunkCutIs ==
  ASSUME NEW C, NEW text \in Seq(C), NEW from \in 1..Len(text), NEW to \in from..Len(text),
         NEW x \in from..to, Solid(text, x)
  PROVE  LET cut == SubSeq(text, from, to) IN
          /\ cut \in Seq(C) /\ Len(cut) = to - from + 1 /\ ~IsBlank(cut)
          /\ \A i \in 1..(to - from + 1) : cut[i] = text[from + i - 1]
<1> DEFINE cut == SubSeq(text, from, to)
           i == x - from + 1
<1>1. cut \in Seq(C) /\ Len(cut) = to - from + 1 /\ \A j \in 1..(to - from + 1) : cut[j] = text[from + j - 1]
  OBVIOUS
<1>2. DOMAIN cut = 1..(to - from + 1)
  BY <1>1
<1>3. i \in 1..(to - from + 1) /\ from + i - 1 = x
  OBVIOUS
<1> HIDE DEF cut, i
<1>4. cut[i] = text[x]
  BY <1>1, <1>3
<1>5. Solid(cut, i)
  BY <1>4 DEF Solid
<1>6. ~IsBlank(cut)
  BY <1>2, <1>3, <1>5 DEF IsBlank
<1> QED
  BY <1>1, <1>6 DEF cut

\* What a chunk of a parsed text is.
CutFrom(chunk, document, text, k) ==
    /\ chunk.id = <<document, k - 1, chunk.text>> /\ chunk.order = k - 1 /\ chunk.ours /\ chunk.sound
    /\ chunk.start \in Nat /\ chunk.stop \in Nat /\ chunk.start < chunk.stop /\ chunk.stop <= Len(text)
    /\ chunk.text = SubSeq(text, chunk.start + 1, chunk.stop)
    /\ Len(chunk.text) = chunk.stop - chunk.start /\ Len(chunk.text) <= MaxChunk
    /\ ~IsBlank(chunk.text)

\* The chunks of a parsed text are verbatim, apart, in order and no longer than the limit, and
\* hold every character but spaces, headings and what precedes them.
THEOREM ParsedChunks ==
  ASSUME NEW C, NEW text \in Seq(C), NEW document
  PROVE  LET chunks == Parsed(document, text).chunks
             m == Cardinality(AllSpans(text))
         IN /\ m \in Nat /\ DOMAIN chunks = 1..m /\ Len(chunks) = m
            /\ \A k \in 1..m : chunks[k] = ChunkAt(document, text, k) /\ CutFrom(chunks[k], document, text, k)
            /\ \A j, k \in 1..m : j < k => chunks[j].stop <= chunks[k].start
            /\ \A x \in DOMAIN text : Solid(text, x) =>
                 (Dropped(text, x) <=> \A k \in 1..m : x \notin (chunks[k].start + 1)..chunks[k].stop)
<1> DEFINE n == Len(text)
           cut == AllSpans(text)
           m == Cardinality(cut)
           list == InOrder(cut)
           chunks == Parsed(document, text).chunks
<1>1. n \in Nat /\ DOMAIN text = 1..n
  OBVIOUS
<1>2. chunks = [k \in 1..m |-> ChunkAt(document, text, k)]
  BY ParsedWhich
<1>3. Listed(cut, n)
  BY SpansListed
<1>4. /\ \A s \in cut : /\ Inside(s, 1, n) /\ s.from <= s.to /\ s.to - s.from < MaxChunk
                        /\ \E x \in s.from..s.to : Solid(text, x)
      /\ \A s, t \in cut : s = t \/ s.to < t.from \/ t.to < s.from
      /\ \A x \in 1..n : Solid(text, x) => (Dropped(text, x) <=> \A s \in cut : ~HeldBy(s, x))
  BY <1>1, AllSpansAre
<1>5. \A k \in 1..m : LET chunk == ChunkAt(document, text, k) IN
         /\ chunk.id = <<document, k - 1, chunk.text>> /\ chunk.order = k - 1 /\ chunk.ours /\ chunk.sound
         /\ chunk.text = SubSeq(text, list[k].from, list[k].to)
         /\ chunk.start = list[k].from - 1 /\ chunk.stop = list[k].to
  BY ChunkAtHas
<1> HIDE DEF n, cut, list
<1>6. /\ m \in Nat
      /\ \A k \in 1..m : list[k] \in cut
      /\ \A s \in cut : \E k \in 1..m : list[k] = s
      /\ \A j, k \in 1..m : j < k => list[j].from < list[k].from
  <2>1. LET size == Cardinality(cut)
            all == InOrder(cut)
        IN /\ size \in Nat
           /\ \A k \in 1..size : all[k] \in cut
           /\ \A s \in cut : \E k \in 1..size : all[k] = s
           /\ \A j, k \in 1..size : j < k => all[j].from < all[k].from
    BY <1>1, <1>3, InOrderIs
  <2> QED
    BY <2>1 DEF list
<1> HIDE DEF m
<1>7. DOMAIN chunks = 1..m /\ \A k \in 1..m : chunks[k] = ChunkAt(document, text, k)
  BY <1>2
<1>8. Len(chunks) = m
  <2> DEFINE all == {ChunkAt(document, text, k) : k \in 1..m}
  <2>1. \A k \in 1..m : ChunkAt(document, text, k) \in all
    OBVIOUS
  <2> HIDE DEF all
  <2>2. chunks \in Seq(all)
    BY <1>2, <1>6, <2>1
  <2> QED
    BY <1>6, <1>7, <2>2
<1> HIDE DEF chunks
<1>9. \A k \in 1..m : /\ list[k].from \in Int /\ list[k].to \in Int /\ 1 <= list[k].from /\ list[k].from <= list[k].to
                      /\ list[k].to <= n /\ list[k].to - list[k].from < MaxChunk
                      /\ \E x \in list[k].from..list[k].to : Solid(text, x)
  BY <1>4, <1>6 DEF Inside
<1>10. \A k \in 1..m : /\ chunks[k].id = <<document, k - 1, chunks[k].text>> /\ chunks[k].order = k - 1
                       /\ chunks[k].ours /\ chunks[k].sound
                       /\ chunks[k].text = SubSeq(text, list[k].from, list[k].to)
                       /\ chunks[k].start = list[k].from - 1 /\ chunks[k].stop = list[k].to
  BY <1>5, <1>7
<1>11. ASSUME NEW k \in 1..m PROVE CutFrom(chunks[k], document, text, k)
  <2> DEFINE chunk == chunks[k]
             from == list[k].from
             to == list[k].to
  <2>1. PICK x \in from..to : Solid(text, x)
    BY <1>9
  <2>2. /\ from \in Int /\ to \in Int /\ 1 <= from /\ from <= to /\ to <= n /\ to - from < MaxChunk
    BY <1>9
  <2>3. /\ chunk.id = <<document, k - 1, chunk.text>> /\ chunk.order = k - 1 /\ chunk.ours /\ chunk.sound
        /\ chunk.text = SubSeq(text, from, to) /\ chunk.start = from - 1 /\ chunk.stop = to
    BY <1>10
  <2> HIDE DEF chunk, from, to
  <2>4. from \in 1..n /\ to \in from..n /\ MaxChunk \in Nat
    BY <1>1, <2>2, ChunkAssumption
  <2>6. LET piece == SubSeq(text, from, to) IN
          Len(piece) = to - from + 1 /\ ~IsBlank(piece)
    BY <2>1, <2>4, ChunkCutIs DEF n
  <2>7. Len(chunk.text) = to - from + 1 /\ ~IsBlank(chunk.text)
    BY <2>3, <2>6
  <2>8. /\ chunk.start \in Nat /\ chunk.stop \in Nat /\ chunk.start < chunk.stop /\ chunk.stop <= n
        /\ Len(chunk.text) = chunk.stop - chunk.start /\ Len(chunk.text) <= MaxChunk /\ chunk.start + 1 = from
    <3> DEFINE start == chunk.start
               stop == chunk.stop
               long == Len(chunk.text)
    <3>1. start = from - 1 /\ stop = to /\ long = to - from + 1
      BY <2>3, <2>7
    <3>2. MaxChunk \in Nat
      BY <2>4
    <3> HIDE DEF start, stop, long
    <3>3. /\ start \in Nat /\ stop \in Nat /\ start < stop
          /\ long = stop - start /\ long <= MaxChunk /\ start + 1 = from
      BY <2>2, <3>1, <3>2
    <3>4. stop <= n
      BY <2>2, <3>1
    <3> QED
      BY <3>3, <3>4 DEF start, stop, long
  <2>9. chunk.text = SubSeq(text, chunk.start + 1, chunk.stop)
    BY <2>3, <2>8
  <2>10. CutFrom(chunk, document, text, k)
    BY <2>3, <2>7, <2>8, <2>9 DEF CutFrom, n
  <2> QED
    BY <2>10 DEF chunk
<1>12. ASSUME NEW j \in 1..m, NEW k \in 1..m, j < k PROVE chunks[j].stop <= chunks[k].start
  <2>1. list[j].from < list[k].from
    BY <1>6, <1>12
  <2>2. list[j].from \in Int /\ list[j].to \in Int /\ list[k].from \in Int /\ list[k].to \in Int
        /\ list[j].from <= list[j].to /\ list[k].from <= list[k].to
    BY <1>9
  <2>3. list[j].to < list[k].from
    <3>1. list[j] \in cut /\ list[k] \in cut /\ list[j] # list[k]
      BY <1>6, <2>1, <2>2
    <3>2. list[j].to < list[k].from \/ list[k].to < list[j].from
      BY <1>4, <3>1
    <3> QED
      BY <2>1, <2>2, <3>2
  <2> QED
    BY <1>10, <2>2, <2>3
<1>13. ASSUME NEW x \in 1..n, Solid(text, x)
       PROVE  Dropped(text, x) <=> \A k \in 1..m : x \notin (chunks[k].start + 1)..chunks[k].stop
  <2>1. ASSUME NEW k \in 1..m PROVE x \in (chunks[k].start + 1)..chunks[k].stop <=> HeldBy(list[k], x)
    <3> DEFINE from == list[k].from
               to == list[k].to
               start == chunks[k].start
    <3>1. from \in Int /\ to \in Int /\ x \in Int
      BY <1>1, <1>9
    <3>2. start = from - 1 /\ chunks[k].stop = to
      BY <1>10
    <3>3. HeldBy(list[k], x) <=> from <= x /\ x <= to
      BY DEF HeldBy
    <3> HIDE DEF from, to, start
    <3>4. start + 1 = from
      BY <3>1, <3>2
    <3>5. x \in from..to <=> from <= x /\ x <= to
      BY <3>1
    <3>6. x \in (start + 1)..to <=> HeldBy(list[k], x)
      BY <3>3, <3>4, <3>5
    <3> QED
      BY <3>2, <3>6 DEF start
  <2>2. (\A s \in cut : ~HeldBy(s, x)) <=> \A k \in 1..m : ~HeldBy(list[k], x)
    BY <1>6
  <2> QED
    BY <1>4, <1>13, <2>1, <2>2
<1>14. \A x \in DOMAIN text : Solid(text, x) =>
         (Dropped(text, x) <=> \A k \in 1..m : x \notin (chunks[k].start + 1)..chunks[k].stop)
  BY <1>1, <1>13
<1> QED
  BY <1>6, <1>7, <1>8, <1>11, <1>12, <1>14 DEF chunks, m, cut

\* The chapters of a text, in order.
LEMMA BooksAre ==
  ASSUME NEW C, NEW text \in Seq(C)
  PROVE  LET books == InOrder(Bodies(text))
             M == Cardinality(Bodies(text))
         IN /\ M \in Nat /\ DOMAIN books = 1..M
            /\ \A j \in 1..M : /\ books[j].from \in Nat /\ books[j].to \in Int
                               /\ books[j].from <= books[j].to + 1
            /\ \A i, j \in 1..M : i = j \/ books[i].to < books[j].from \/ books[j].to < books[i].from
            /\ \A s \in AllSpans(text) : \E j \in 1..M : books[j].from <= s.from /\ s.to <= books[j].to
<1> DEFINE n == Len(text)
           bodies == Bodies(text)
           cut == AllSpans(text)
           books == InOrder(bodies)
           M == Cardinality(bodies)
<1>1. n \in Nat /\ n + 1 \in Nat
  OBVIOUS
<1>2. Listed(bodies, n + 1)
  BY BodiesListed
<1>3. /\ \A body \in bodies : Inside(body, 1, n) /\ body.from <= body.to + 1
      /\ \A one, other \in bodies :
            one = other \/ (one.to < other.from /\ one.from < other.from) \/ (other.to < one.from /\ other.from < one.from)
  BY BodiesAre
<1>4. \A s \in cut : \E body \in bodies : Inside(s, body.from, body.to)
  BY AllSpansAre
<1> HIDE DEF n, bodies, cut
<1>5. LET size == Cardinality(bodies)
          all == InOrder(bodies)
      IN /\ size \in Nat /\ DOMAIN all = 1..size
         /\ \A k \in 1..size : all[k] \in bodies
         /\ \A s \in bodies : \E k \in 1..size : all[k] = s
         /\ \A j, k \in 1..size : j < k => all[j].from < all[k].from
  <2> DEFINE N == n + 1
  <2>1. N \in Nat /\ Listed(bodies, N)
    BY <1>1, <1>2
  <2> HIDE DEF N
  <2> QED
    BY <2>1, InOrderIs
<1>6. /\ M \in Nat /\ DOMAIN books = 1..M
      /\ \A k \in 1..M : books[k] \in bodies
      /\ \A s \in bodies : \E k \in 1..M : books[k] = s
      /\ \A j, k \in 1..M : j < k => books[j].from < books[k].from
  BY <1>5
<1> HIDE DEF books, M
<1>7. \A j \in 1..M : /\ books[j].from \in Nat /\ books[j].to \in Int /\ books[j].from <= books[j].to + 1
  BY <1>3, <1>6 DEF Inside
<1>8. ASSUME NEW i \in 1..M, NEW j \in 1..M, i # j PROVE books[i].to < books[j].from \/ books[j].to < books[i].from
  <2>1. books[i].from < books[j].from \/ books[j].from < books[i].from
    <3>1. i < j \/ j < i
      BY <1>6, <1>8
    <3> QED
      BY <1>6, <3>1
  <2>2. books[i] # books[j]
    BY <1>7, <2>1
  <2> QED
    BY <1>3, <1>6, <2>2
<1>9. ASSUME NEW s \in cut PROVE \E j \in 1..M : books[j].from <= s.from /\ s.to <= books[j].to
  <2>1. PICK body \in bodies : Inside(s, body.from, body.to)
    BY <1>4
  <2>2. PICK j \in 1..M : books[j] = body
    BY <1>6
  <2> QED
    BY <2>1, <2>2 DEF Inside
<1> QED
  BY <1>6, <1>7, <1>8, <1>9 DEF books, M, bodies, cut

\* The chapter of a chunk is the one that reaches around it.
LEMMA BookOfIs ==
  ASSUME NEW C, NEW text \in Seq(C), NEW s \in AllSpans(text)
  PROVE  LET books == InOrder(Bodies(text))
             M == Cardinality(Bodies(text))
         IN /\ BookOf(text, s) \in 1..M
            /\ \A j \in 1..M : BookOf(text, s) = j <=> books[j].from <= s.from /\ s.from < books[j].to + 1
<1> DEFINE books == InOrder(Bodies(text))
           M == Cardinality(Bodies(text))
           book == BookOf(text, s)
           from == s.from
           to == s.to
<1>1. from \in Int /\ to \in Int /\ from <= to
  BY AllSpansAre DEF Inside
<1>2. /\ M \in Nat /\ DOMAIN books = 1..M
      /\ \A j \in 1..M : books[j].from \in Nat /\ books[j].to \in Int
      /\ \A i, j \in 1..M : i = j \/ books[i].to < books[j].from \/ books[j].to < books[i].from
      /\ \A t \in AllSpans(text) : \E j \in 1..M : books[j].from <= t.from /\ t.to <= books[j].to
  BY BooksAre
<1>3. book = CHOOSE k \in DOMAIN books : books[k].from <= from /\ to <= books[k].to
  BY DEF BookOf
<1>4. \E j \in 1..M : books[j].from <= from /\ to <= books[j].to
  BY <1>2
<1> HIDE DEF book, books, M, from, to
<1>5. book \in 1..M /\ books[book].from <= from /\ to <= books[book].to
  BY <1>2, <1>3, <1>4
<1>6. ASSUME NEW j \in 1..M PROVE book = j <=> books[j].from <= from /\ from < books[j].to + 1
  <2> DEFINE a == books[j].from
             b == books[j].to
             c == books[book].from
             d == books[book].to
  <2>1. a \in Int /\ b \in Int /\ c \in Int /\ d \in Int
    BY <1>2, <1>5
  <2>2. book = j \/ d < a \/ b < c
    BY <1>2, <1>5
  <2>3. c <= from /\ to <= d
    BY <1>5
  <2>4. book = j => c = a /\ d = b
    OBVIOUS
  <2> HIDE DEF a, b, c, d
  <2>5. book = j <=> a <= from /\ from < b + 1
    BY <1>1, <2>1, <2>2, <2>3, <2>4
  <2> QED
    BY <2>5 DEF a, b
<1> QED
  BY <1>5, <1>6 DEF book, books, M, from

LEMMA PairsEqual ==
  ASSUME NEW document, NEW i \in Int, NEW j \in Int
  PROVE  <<document, i - 1>> = <<document, j - 1>> <=> i = j
OBVIOUS

\* The chapters of a parsed text, and the chunks that name them.
LEMMA ParsedChapters ==
  ASSUME NEW C, NEW text \in Seq(C), NEW document
  PROVE  LET chapters == Parsed(document, text).chapters
             chunks == Parsed(document, text).chunks
             M == Cardinality(Bodies(text))
             m == Cardinality(AllSpans(text))
         IN /\ M \in Nat /\ DOMAIN chapters = 1..M /\ Len(chapters) = M
            /\ \A j \in 1..M : /\ chapters[j].id = <<document, j - 1>> /\ chapters[j].order = j - 1
                               /\ chapters[j].ours /\ chapters[j].titled
            /\ \A k \in 1..m : \E j \in 1..M : chunks[k].chapter = chapters[j].id
            /\ \A j \in 1..M : \E a, b \in 0..m :
                  /\ a <= b /\ chapters[j].first = a /\ chapters[j].last = a + (IF b - a = 0 THEN 0 ELSE b - a - 1)
                  /\ \A k \in 1..m : chunks[k].chapter = chapters[j].id <=> k \in (a + 1)..b
<1> DEFINE n == Len(text)
           cut == AllSpans(text)
           m == Cardinality(cut)
           list == InOrder(cut)
           books == InOrder(Bodies(text))
           M == Cardinality(Bodies(text))
           chapters == Parsed(document, text).chapters
           chunks == Parsed(document, text).chunks
<1>1. n \in Nat
  OBVIOUS
<1>2. Listed(cut, n)
  BY SpansListed
<1>3. /\ M \in Nat /\ DOMAIN books = 1..M
      /\ \A j \in 1..M : /\ books[j].from \in Nat /\ books[j].to \in Int /\ books[j].from <= books[j].to + 1
  BY BooksAre
<1>4. \A s \in cut : /\ BookOf(text, s) \in 1..M
                     /\ \A j \in 1..M : BookOf(text, s) = j <=> books[j].from <= s.from /\ s.from < books[j].to + 1
  BY BookOfIs
<1>5. m \in Nat /\ \A k \in 1..m : chunks[k] = ChunkAt(document, text, k)
  BY ParsedChunks
<1>6. chapters = [k \in DOMAIN books |-> ChapterAt(document, text, k)]
  BY ParsedWhich
<1>7. \A k \in 1..m : ChunkAt(document, text, k).chapter = <<document, BookOf(text, list[k]) - 1>>
  BY ChunkAtHas
<1>8. \A j \in 1..M : LET chapter == ChapterAt(document, text, j)
                          first == SpansBefore(cut, books[j].from)
                          inside == SpansBefore(cut, books[j].to + 1) - first
                      IN /\ chapter.id = <<document, j - 1>> /\ chapter.order = j - 1 /\ chapter.ours /\ chapter.titled
                         /\ chapter.first = first /\ chapter.last = first + (IF inside = 0 THEN 0 ELSE inside - 1)
  BY ChapterAtHas
<1> HIDE DEF n, cut
<1>9. /\ \A k \in 1..m : list[k] \in cut
      /\ \A x \in Int : \A k \in 1..m : list[k].from < x <=> k <= SpansBefore(cut, x)
      /\ \A x \in Int : SpansBefore(cut, x) \in 0..m
  <2>1. LET size == Cardinality(cut)
            all == InOrder(cut)
        IN /\ \A k \in 1..size : all[k] \in cut
           /\ \A x \in Int : \A k \in 1..size : all[k].from < x <=> k <= SpansBefore(cut, x)
           /\ \A x \in Int : SpansBefore(cut, x) \in 0..size
    BY <1>1, <1>2, InOrderIs
  <2> QED
    BY <2>1
<1>10. \A s \in cut : s.from \in Int
  BY <1>2 DEF Listed
<1> HIDE DEF m, list, books, M
<1>11. DOMAIN chapters = 1..M /\ \A j \in 1..M : chapters[j] = ChapterAt(document, text, j)
  BY <1>3, <1>6
<1>12. Len(chapters) = M
  <2> DEFINE all == {ChapterAt(document, text, k) : k \in 1..M}
  <2>1. \A k \in 1..M : ChapterAt(document, text, k) \in all
    OBVIOUS
  <2> HIDE DEF all
  <2>2. chapters \in Seq(all)
    BY <1>3, <1>6, <2>1
  <2> QED
    BY <1>3, <1>11, <2>2
<1> HIDE DEF chapters, chunks
<1>13. \A j \in 1..M : /\ chapters[j].id = <<document, j - 1>> /\ chapters[j].order = j - 1
                       /\ chapters[j].ours /\ chapters[j].titled
  BY <1>8, <1>11
<1>14. \A k \in 1..m : chunks[k].chapter = <<document, BookOf(text, list[k]) - 1>> /\ BookOf(text, list[k]) \in 1..M
  BY <1>4, <1>5, <1>7, <1>9
<1>15. \A k \in 1..m : \E j \in 1..M : chunks[k].chapter = chapters[j].id
  BY <1>13, <1>14
<1>16. ASSUME NEW j \in 1..M
       PROVE  \E a, b \in 0..m :
                  /\ a <= b /\ chapters[j].first = a /\ chapters[j].last = a + (IF b - a = 0 THEN 0 ELSE b - a - 1)
                  /\ \A k \in 1..m : chunks[k].chapter = chapters[j].id <=> k \in (a + 1)..b
  <2> DEFINE x == books[j].from
             y == books[j].to + 1
             a == SpansBefore(cut, x)
             b == SpansBefore(cut, y)
  <2>1. x \in Int /\ y \in Int /\ x <= y
    BY <1>3
  <2>2. chapters[j].first = a /\ chapters[j].last = a + (IF b - a = 0 THEN 0 ELSE b - a - 1)
    BY <1>8, <1>11
  <2>3. \A s \in cut : BookOf(text, s) = j <=> x <= s.from /\ s.from < y
    BY <1>4
  <2> HIDE DEF x, y
  <2>4. a <= b /\ a \in 0..m /\ b \in 0..m
    BY <1>1, <1>2, <1>9, <2>1, BeforeGrows
  <2>5. \A k \in 1..m : (list[k].from < x <=> k <= a) /\ (list[k].from < y <=> k <= b)
    BY <1>9, <2>1
  <2> HIDE DEF a, b
  <2>6. ASSUME NEW k \in 1..m PROVE chunks[k].chapter = chapters[j].id <=> k \in (a + 1)..b
    <3> DEFINE s == list[k]
               from == s.from
               book == BookOf(text, s)
    <3>1. s \in cut /\ from \in Int
      BY <1>9, <1>10
    <3>2. book = j <=> x <= from /\ from < y
      BY <2>3, <3>1
    <3>3. (from < x <=> k <= a) /\ (from < y <=> k <= b)
      BY <2>5
    <3>4. chunks[k].chapter = <<document, book - 1>> /\ book \in Int /\ j \in Int /\ chapters[j].id = <<document, j - 1>>
      BY <1>3, <1>13, <1>14
    <3> HIDE DEF s, from, book
    <3>5. book = j <=> k \in (a + 1)..b
      BY <1>5, <2>1, <2>4, <3>1, <3>2, <3>3
    <3>6. chunks[k].chapter = chapters[j].id <=> book = j
      BY <3>4, PairsEqual
    <3> QED
      BY <3>5, <3>6
  <2> QED
    BY <2>2, <2>4, <2>6
<1> QED
  BY <1>3, <1>11, <1>12, <1>13, <1>15, <1>16 DEF chapters, chunks, M, m, cut

(***************************************************************************)
(* The audit of what the parser makes.                                     *)
(***************************************************************************)

\* Things numbered from 0 on.
LEMMA OrdinalsAre ==
  ASSUME NEW n \in Nat, NEW values, values \in [1..n -> Int], \A i \in 1..n : values[i] = i - 1
  PROVE  OneByOne(values) /\ Contiguous(values) /\ Twins(values) = {}
<1>1. DOMAIN values = 1..n
  OBVIOUS
<1>2. OneByOne(values)
  BY DEF OneByOne
<1>3. Len(values) = n
  <2>1. values \in Seq(Int)
    OBVIOUS
  <2> QED
    BY <1>1, <2>1
<1>4. {values[i] : i \in 1..n} = 0..(n - 1)
  <2>1. \A i \in 1..n : values[i] \in 0..(n - 1)
    OBVIOUS
  <2>2. \A k \in 0..(n - 1) : k + 1 \in 1..n /\ values[k + 1] = k
    OBVIOUS
  <2> QED
    BY <2>1, <2>2
<1>5. Contiguous(values)
  BY <1>1, <1>3, <1>4 DEF Contiguous
<1>6. Twins(values) = {}
  BY <1>1, <1>2, TwinsNone
<1> QED
  BY <1>2, <1>5, <1>6

\* The twins of a value, where it has any.
LEMMA TwinsHold ==
  ASSUME NEW n \in Nat, NEW values, DOMAIN values = 1..n
  PROVE  /\ \A twins \in Twins(values) : \A i \in twins : \E j \in 1..n : j # i /\ values[j] = values[i]
         /\ \A i, j \in 1..n : i # j /\ values[i] = values[j] => \E twins \in Twins(values) : i \in twins /\ j \in twins
<1> DEFINE I == 1..n
           like(i) == {j \in I : values[j] = values[i]}
<1>1. IsFiniteSet(I)
  BY DomainIs
<1>2. Twins(values) = {twins \in {like(i) : i \in I} : Cardinality(twins) > 1}
  BY Zenon DEF Twins
<1>3. \A i \in I : like(i) \in SUBSET I /\ i \in like(i)
  OBVIOUS
<1>4. \A i, j \in I : j \in like(i) <=> values[i] = values[j]
  OBVIOUS
<1> HIDE DEF I, like
<1>5. \A i \in I : IsFiniteSet(like(i)) /\ Cardinality(like(i)) \in Nat
  BY <1>1, <1>3, FS_Subset, FS_CardinalityType
<1>6. ASSUME NEW twins \in Twins(values), NEW i \in twins PROVE \E j \in I : j # i /\ values[j] = values[i]
  <2>1. PICK k \in I : twins = like(k) /\ Cardinality(like(k)) > 1
    BY <1>2
  <2>2. like(k) # {i}
    <3>1. Cardinality({i}) = 1
      BY FS_Singleton
    <3> QED
      BY <2>1, <3>1
  <2>3. PICK j \in like(k) : j # i
    BY <1>6, <2>1, <2>2
  <2>4. i \in I /\ j \in I /\ values[i] = values[k] /\ values[j] = values[k]
    BY <1>3, <1>4, <1>6, <2>1
  <2> QED
    BY <2>3, <2>4
<1>7. ASSUME NEW i \in I, NEW j \in I, i # j, values[i] = values[j]
      PROVE  \E twins \in Twins(values) : i \in twins /\ j \in twins
  <2>1. Cardinality({i}) = 1 /\ IsFiniteSet({i})
    BY FS_Singleton
  <2>2. IsFiniteSet({i}) /\ Cardinality({i}) = 1 /\ j \notin {i}
    BY <1>7, <2>1
  <2> DEFINE one == {i}
             two == one \cup {j}
  <2> HIDE DEF one
  <2>7. Cardinality(two) = 2
    <3>1. IsFiniteSet(one) /\ Cardinality(one) = 1 /\ j \notin one
      BY <2>2 DEF one
    <3>2. Cardinality(one \cup {j}) = IF j \in one THEN Cardinality(one) ELSE Cardinality(one) + 1
      BY <3>1, FS_AddElement
    <3> QED
      BY <3>1, <3>2
  <2>3. two \in SUBSET like(i) /\ i \in like(i) /\ j \in like(i)
    BY <1>3, <1>4, <1>7 DEF one
  <2> HIDE DEF two
  <2>4. Cardinality(two) <= Cardinality(like(i))
    BY <1>5, <2>3, FS_Subset
  <2>5. Cardinality(like(i)) > 1
    BY <1>5, <2>4, <2>7
  <2>6. like(i) \in Twins(values)
    BY <1>2, <2>5
  <2> QED
    BY <2>3, <2>6
<1> QED
  BY <1>6, <1>7 DEF I

\* The document is blocked only for what makes it be imported again.
LEMMA DocumentBlocked ==
  ASSUME NEW input, NEW f \in DocumentFindings(input), f.severity = "BLOCKING"
  PROVE  f.code \in ReimportCodes
BY DEF DocumentFindings, WhitespaceFindings, Only, Finding, ReimportCodes

TextsOf(chunks) == [i \in DOMAIN chunks |-> chunks[i].text]

TitlesOf(chapters) == [i \in DOMAIN chapters |-> chapters[i].id]

NumbersOf(chapters) == [i \in DOMAIN chapters |-> chapters[i].order]

LEMMA SameTextsAre ==
  ASSUME NEW chunks
  PROVE  SameTexts(chunks) = {twins \in Twins(TextsOf(chunks)) :
            \E i, j \in twins : <<chunks[i].start, chunks[i].stop>> # <<chunks[j].start, chunks[j].stop>>}
BY DEF SameTexts, TextsOf

\* One of the findings about chapters.
LEMMA ChapterFindingIs ==
  ASSUME NEW input, NEW f
  PROVE  f \in ChapterFindings(input) <=>
      \/ \E twins \in Twins(TitlesOf(input.chapters)) : f = Finding("CHAPTER_ID_DUPLICATE", "BLOCKING", twins, {})
      \/ \E twins \in Twins(NumbersOf(input.chapters)) : f = Finding("CHAPTER_ORDER_DUPLICATE", "BLOCKING", twins, {})
      \/ ~Contiguous(NumbersOf(input.chapters)) /\ f = Finding("CHAPTER_ORDER_NON_CONTIGUOUS", "BLOCKING", {}, {})
      \/ \E i \in DOMAIN input.chapters : f \in About(input, i)
<1> DEFINE ids == Twins(TitlesOf(input.chapters))
           orders == Twins(NumbersOf(input.chapters))
           gap == ~Contiguous(NumbersOf(input.chapters))
<1>1. ChapterFindings(input) =
          {Finding("CHAPTER_ID_DUPLICATE", "BLOCKING", twins, {}) : twins \in ids}
          \cup {Finding("CHAPTER_ORDER_DUPLICATE", "BLOCKING", twins, {}) : twins \in orders}
          \cup Only(gap, Finding("CHAPTER_ORDER_NON_CONTIGUOUS", "BLOCKING", {}, {}))
          \cup UNION {About(input, i) : i \in DOMAIN input.chapters}
  BY ChapterFindingsAre, Zenon DEF TitlesOf, NumbersOf
<1> HIDE DEF ids, orders, gap
<1>2. f \in ChapterFindings(input) <=>
      \/ \E twins \in ids : f = Finding("CHAPTER_ID_DUPLICATE", "BLOCKING", twins, {})
      \/ \E twins \in orders : f = Finding("CHAPTER_ORDER_DUPLICATE", "BLOCKING", twins, {})
      \/ gap /\ f = Finding("CHAPTER_ORDER_NON_CONTIGUOUS", "BLOCKING", {}, {})
      \/ \E i \in DOMAIN input.chapters : f \in About(input, i)
  BY <1>1 DEF Only
<1> QED
  BY <1>2, Zenon DEF ids, orders, gap

\* One of the findings about one chapter.
LEMMA AboutIs ==
  ASSUME NEW input, NEW i, NEW f
  PROVE  LET chapter == input.chapters[i]
             orders == Belonging(chapter, input.chunks)
         IN f \in About(input, i) <=>
            \/ ~chapter.ours /\ f = Finding("CHAPTER_SCOPE_MISMATCH", "BLOCKING", {i}, {})
            \/ ~chapter.titled /\ f = Finding("CHAPTER_TITLE_BLANK", "REVIEW", {i}, {})
            \/ orders = {} /\ f = Finding("CHAPTER_EMPTY", "REVIEW", {i}, {})
            \/ /\ orders # {} /\ <<Min(orders), Max(orders)>> # <<chapter.first, chapter.last>>
               /\ f = Finding("CHAPTER_CHUNK_RANGE_MISMATCH", "BLOCKING", {i}, {})
BY DEF About, Only

\* An input the parser has made.
OfText(input, document, text) ==
    /\ input.text = text /\ input.sound
    /\ input.chapters = Parsed(document, text).chapters /\ input.chunks = Parsed(document, text).chunks

\* A chapter with some chunks in a row, and their orders.
InRow(chunks, chapter, m, a, b) == \A k \in 1..m : chunks[k].chapter = chapter.id <=> k \in (a + 1)..b

RowHas(orders, a, b) ==
    /\ orders = {} <=> a = b
    /\ a < b => Min(orders) = a /\ Max(orders) = b - 1

\* The first and the last order of chunks in a row.
LEMMA RowOfOrders ==
  ASSUME NEW m \in Nat, NEW chunks, DOMAIN chunks = 1..m, \A k \in 1..m : chunks[k].order = k - 1,
         NEW chapter, NEW a \in 0..m, NEW b \in 0..m, a <= b, InRow(chunks, chapter, m, a, b)
  PROVE  RowHas(Belonging(chapter, chunks), a, b)
<1> DEFINE orders == Belonging(chapter, chunks)
<1>1. orders = {chunks[k].order : k \in {i \in 1..m : chunks[i].chapter = chapter.id}}
  BY DEF Belonging
<1>2. \A x : x \in orders <=> \E k \in 1..m : k \in (a + 1)..b /\ x = k - 1
  BY <1>1 DEF InRow
<1> HIDE DEF orders
<1>3. \A x : x \in orders <=> x \in a..(b - 1)
  <2>1. ASSUME NEW x \in orders PROVE x \in a..(b - 1)
    BY <1>2
  <2>2. ASSUME NEW x \in a..(b - 1) PROVE x \in orders
    <3>1. x + 1 \in 1..m /\ x + 1 \in (a + 1)..b /\ x = (x + 1) - 1
      OBVIOUS
    <3> QED
      BY <1>2, <3>1
  <2> QED
    BY <2>1, <2>2
<1>4. orders = {} <=> a = b
  <2>1. a # b => a \in a..(b - 1)
    OBVIOUS
  <2>2. a = b => a..(b - 1) = {}
    OBVIOUS
  <2> QED
    BY <1>3, <2>1, <2>2
<1>5. ASSUME a < b PROVE Min(orders) = a /\ Max(orders) = b - 1
  <2> DEFINE last == b - 1
  <2>1. last \in Nat /\ a \in Int /\ a <= last /\ last <= m
    BY <1>5
  <2>2. a \in orders /\ last \in orders /\ \A x \in orders : x \in Int /\ a <= x /\ x <= last
    BY <1>3, <2>1
  <2>3. orders \in SUBSET Int /\ orders \in SUBSET (0..m) /\ orders # {}
    BY <2>1, <2>2
  <2> HIDE DEF last
  <2>4. Min(orders) = a
    BY <2>2, <2>3, LeastIs
  <2>5. Max(orders) \in orders /\ \A y \in orders : Max(orders) >= y
    BY <2>3, MaxIn
  <2>6. Max(orders) = last
    <3> DEFINE top == Max(orders)
    <3>1. top \in orders /\ \A y \in orders : top >= y
      BY <2>5
    <3> HIDE DEF top
    <3>2. top \in Int /\ top <= last /\ top >= last
      BY <2>2, <3>1
    <3>3. top = last
      BY <2>1, <3>2
    <3> QED
      BY <3>3 DEF top
  <2> QED
    BY <2>4, <2>6 DEF last
<1> QED
  BY <1>4, <1>5 DEF orders, RowHas

\* Of a parsed text's chapters it is only said that they are empty.
LEMMA ParsedChaptersFine ==
  ASSUME NEW C, NEW text \in Seq(C), NEW document, NEW input, OfText(input, document, text)
  PROVE  /\ \A f \in ChapterFindings(input) : \E j \in DOMAIN input.chapters :
                f = Finding("CHAPTER_EMPTY", "REVIEW", {j}, {})
         /\ \A j \in DOMAIN input.chapters : Belonging(input.chapters[j], input.chunks) = {} =>
                Finding("CHAPTER_EMPTY", "REVIEW", {j}, {}) \in ChapterFindings(input)
<1> DEFINE chapters == input.chapters
           chunks == input.chunks
           M == Cardinality(Bodies(text))
           m == Cardinality(AllSpans(text))
<1>1. chapters = Parsed(document, text).chapters /\ chunks = Parsed(document, text).chunks
  BY DEF OfText
<1>2. /\ M \in Nat /\ DOMAIN chapters = 1..M /\ Len(chapters) = M
      /\ \A j \in 1..M : /\ chapters[j].id = <<document, j - 1>> /\ chapters[j].order = j - 1
                         /\ chapters[j].ours /\ chapters[j].titled
      /\ \A j \in 1..M : \E a, b \in 0..m :
            /\ a <= b /\ chapters[j].first = a /\ chapters[j].last = a + (IF b - a = 0 THEN 0 ELSE b - a - 1)
            /\ \A k \in 1..m : chunks[k].chapter = chapters[j].id <=> k \in (a + 1)..b
  BY <1>1, ParsedChapters
<1>3. m \in Nat /\ DOMAIN chunks = 1..m /\ \A k \in 1..m : chunks[k].order = k - 1
  BY <1>1, ParsedChunks DEF CutFrom
<1> HIDE DEF m, M, chapters, chunks
<1>4. Twins(TitlesOf(chapters)) = {}
  <2> DEFINE ids == TitlesOf(chapters)
  <2>1. DOMAIN ids = 1..M /\ \A j \in 1..M : ids[j] = <<document, j - 1>>
    BY <1>2 DEF TitlesOf
  <2>2. \A i, j \in 1..M : <<document, i - 1>> = <<document, j - 1>> => i = j
    BY <1>2
  <2> HIDE DEF ids
  <2>3. OneByOne(ids)
    BY <2>1, <2>2 DEF OneByOne
  <2>4. Twins(ids) = {}
    BY <1>2, <2>1, <2>3, TwinsNone
  <2> QED
    BY <2>4 DEF ids
<1>5. Twins(NumbersOf(chapters)) = {} /\ Contiguous(NumbersOf(chapters))
  <2> DEFINE orders == NumbersOf(chapters)
  <2>1. orders \in [1..M -> Int] /\ \A i \in 1..M : orders[i] = i - 1
    BY <1>2 DEF NumbersOf
  <2> HIDE DEF orders
  <2>2. Twins(orders) = {} /\ Contiguous(orders)
    BY <1>2, <2>1, OrdinalsAre
  <2> QED
    BY <2>2 DEF orders
<1>6. ASSUME NEW j \in 1..M
      PROVE  LET orders == Belonging(chapters[j], chunks)
             IN orders # {} => Min(orders) = chapters[j].first /\ Max(orders) = chapters[j].last
  <2> DEFINE chapter == chapters[j]
             orders == Belonging(chapter, chunks)
  <2>1. PICK a \in 0..m, b \in 0..m :
            /\ a <= b /\ chapter.first = a /\ chapter.last = a + (IF b - a = 0 THEN 0 ELSE b - a - 1)
            /\ \A k \in 1..m : chunks[k].chapter = chapter.id <=> k \in (a + 1)..b
    BY <1>2
  <2>2. (orders = {} <=> a = b) /\ (a < b => Min(orders) = a /\ Max(orders) = b - 1)
    <3> HIDE DEF chapter
    <3>1. InRow(chunks, chapter, m, a, b)
      BY <2>1 DEF InRow
    <3>2. a <= b
      BY <2>1
    <3>3. RowHas(Belonging(chapter, chunks), a, b)
      BY <1>3, <3>1, <3>2, RowOfOrders
    <3> QED
      BY <3>3 DEF RowHas
  <2> HIDE DEF orders, chapter
  <2>3. ASSUME orders # {} PROVE Min(orders) = chapter.first /\ Max(orders) = chapter.last
    <3>1. a < b /\ Min(orders) = a /\ Max(orders) = b - 1
      BY <1>3, <2>1, <2>2, <2>3
    <3>2. chapter.last = b - 1
      BY <1>3, <2>1, <3>1
    <3> QED
      BY <2>1, <3>1, <3>2
  <2> QED
    BY <2>3 DEF orders, chapter
<1>7. ASSUME NEW f \in ChapterFindings(input) PROVE \E j \in 1..M : f = Finding("CHAPTER_EMPTY", "REVIEW", {j}, {})
  <2>1. PICK j \in 1..M : f \in About(input, j)
    <3>1. \/ \E twins \in Twins(TitlesOf(chapters)) : f = Finding("CHAPTER_ID_DUPLICATE", "BLOCKING", twins, {})
          \/ \E twins \in Twins(NumbersOf(chapters)) : f = Finding("CHAPTER_ORDER_DUPLICATE", "BLOCKING", twins, {})
          \/ ~Contiguous(NumbersOf(chapters))
          \/ \E i \in DOMAIN chapters : f \in About(input, i)
      BY <1>7, ChapterFindingIs DEF chapters
    <3> QED
      BY <1>2, <1>4, <1>5, <3>1
  <2> DEFINE chapter == chapters[j]
             orders == Belonging(chapter, chunks)
  <2>2. \/ ~chapter.ours \/ ~chapter.titled
        \/ orders = {} /\ f = Finding("CHAPTER_EMPTY", "REVIEW", {j}, {})
        \/ orders # {} /\ <<Min(orders), Max(orders)>> # <<chapter.first, chapter.last>>
    BY <2>1, AboutIs DEF chapters, chunks
  <2>3. orders # {} => Min(orders) = chapter.first /\ Max(orders) = chapter.last
    BY <1>6
  <2>4. chapter.ours /\ chapter.titled
    BY <1>2
  <2> HIDE DEF orders, chapter
  <2> QED
    BY <2>2, <2>3, <2>4
<1>8. ASSUME NEW j \in 1..M, Belonging(chapters[j], chunks) = {}
      PROVE  Finding("CHAPTER_EMPTY", "REVIEW", {j}, {}) \in ChapterFindings(input)
  <2> DEFINE f == Finding("CHAPTER_EMPTY", "REVIEW", {j}, {})
  <2>1. f \in About(input, j)
    BY <1>8, AboutIs DEF chapters, chunks
  <2> HIDE DEF f
  <2>2. \E i \in DOMAIN input.chapters : f \in About(input, i)
    BY <1>2, <2>1 DEF chapters
  <2>3. f \in ChapterFindings(input)
    BY <2>2, ChapterFindingIs
  <2> QED
    BY <2>3 DEF f
<1> QED
  BY <1>2, <1>7, <1>8 DEF chapters, chunks

HasTwin(chunks, i) == \E j \in DOMAIN chunks : j # i /\ chunks[j].text = chunks[i].text

\* Nothing is found about one chunk of a parsed text.
Quiet(input, i) == (\A f : f \notin ChunkFinding(input, i)) /\ Audited(input.chunks[i], input.text)

\* Nothing is found about one chunk of a parsed text.
LEMMA ParsedChunkFine ==
  ASSUME NEW C, NEW text \in Seq(C), NEW document, NEW input, OfText(input, document, text), NEW i \in DOMAIN input.chunks
  PROVE  Quiet(input, i)
<1> DEFINE chunk == input.chunks[i]
           chapters == input.chapters
           M == Cardinality(Bodies(text))
           m == Cardinality(AllSpans(text))
<1>1. chapters = Parsed(document, text).chapters /\ input.chunks = Parsed(document, text).chunks /\ input.text = text
  BY DEF OfText
<1>2. DOMAIN input.chunks = 1..m /\ CutFrom(chunk, document, text, i)
  BY <1>1, ParsedChunks
<1>3. DOMAIN chapters = 1..M /\ \A k \in 1..m : \E j \in 1..M : input.chunks[k].chapter = chapters[j].id
  BY <1>1, ParsedChapters
<1>4. \E k \in DOMAIN chapters : chapters[k].id = chunk.chapter
  BY <1>2, <1>3
<1> HIDE DEF chunk, chapters, m, M
<1>5. /\ chunk.ours /\ chunk.sound /\ ~IsBlank(chunk.text)
      /\ chunk.start \in Nat /\ chunk.stop \in Nat /\ chunk.start < chunk.stop /\ chunk.stop <= Len(text)
      /\ chunk.text = SubSeq(text, chunk.start + 1, chunk.stop) /\ Len(chunk.text) \in Int /\ Len(chunk.text) <= MaxChunk
  BY <1>2 DEF CutFrom
<1>6. Recorded(chunk) /\ InBounds(chunk, text) /\ Verbatim(chunk, text)
  BY <1>5 DEF Recorded, InBounds, Verbatim, Missing
<1>7. ~(Len(chunk.text) > MaxChunk)
  BY <1>5, ChunkAssumption
<1>8. ASSUME NEW f \in ChunkFinding(input, i) PROVE FALSE
  <2>1. \/ ~chunk.ours
        \/ \A k \in DOMAIN chapters : chapters[k].id # chunk.chapter
        \/ IsBlank(chunk.text) \/ ~chunk.sound \/ ~Recorded(chunk)
        \/ ~InBounds(chunk, input.text) \/ ~Verbatim(chunk, input.text) \/ Len(chunk.text) > MaxChunk
    BY <1>8, OwnFindingIs DEF chunk, chapters
  <2> QED
    BY <1>1, <1>4, <1>5, <1>6, <1>7, <2>1
<1> QED
  BY <1>1, <1>6, <1>8 DEF Audited, Quiet, chunk

\* Chunks of a parsed text are told apart by what they are called and where they are.
LEMMA ParsedChunksApart ==
  ASSUME NEW C, NEW text \in Seq(C), NEW document, NEW input, OfText(input, document, text)
  PROVE  /\ Twins(ChunkIds(input.chunks)) = {} /\ Twins(OrdersOf(input.chunks)) = {} /\ Contiguous(OrdersOf(input.chunks))
         /\ Twins(Places(input)) = {} /\ Crossed(input) = {}
         /\ \A i, j \in DOMAIN input.chunks : i # j =>
                <<input.chunks[i].start, input.chunks[i].stop>> # <<input.chunks[j].start, input.chunks[j].stop>>
<1> DEFINE chunks == input.chunks
           m == Cardinality(AllSpans(text))
           start(i) == chunks[i].start
           stop(i) == chunks[i].stop
<1>1. chunks = Parsed(document, text).chunks
  BY DEF OfText
<1>2. /\ m \in Nat /\ DOMAIN chunks = 1..m
      /\ \A k \in 1..m : CutFrom(chunks[k], document, text, k)
      /\ \A j, k \in 1..m : j < k => chunks[j].stop <= chunks[k].start
  BY <1>1, ParsedChunks
<1>3. \A i \in 1..m : Audited(chunks[i], input.text)
  <2>1. \A i \in 1..m : Quiet(input, i)
    BY <1>2, ParsedChunkFine
  <2> QED
    BY <2>1 DEF Quiet
<1> HIDE DEF m, chunks
<1>4. \A k \in 1..m : /\ chunks[k].id = <<document, k - 1, chunks[k].text>> /\ chunks[k].order = k - 1
                      /\ start(k) \in Nat /\ stop(k) \in Nat /\ start(k) < stop(k)
  BY <1>2 DEF CutFrom
<1>5. \A j, k \in 1..m : j < k => stop(j) <= start(k)
  BY <1>2
<1> HIDE DEF start, stop
<1>6. \A j, k \in 1..m : j < k => start(j) < start(k)
  BY <1>4, <1>5
<1>7. \A j, k \in 1..m : j # k => start(j) # start(k)
  <2> SUFFICES ASSUME NEW j \in 1..m, NEW k \in 1..m, j # k PROVE start(j) # start(k)
    OBVIOUS
  <2>1. j < k \/ k < j
    BY <1>2
  <2>2. start(j) < start(k) \/ start(k) < start(j)
    BY <1>6, <2>1
  <2> QED
    BY <1>4, <2>2
<1>8. Twins(ChunkIds(chunks)) = {}
  <2> DEFINE ids == ChunkIds(chunks)
             words(k) == chunks[k].text
  <2>1. DOMAIN ids = 1..m /\ \A k \in 1..m : ids[k] = <<document, k - 1, words(k)>>
    BY <1>2, <1>4 DEF ChunkIds
  <2> HIDE DEF ids, words
  <2>2. \A i, j \in 1..m : <<document, i - 1, words(i)>> = <<document, j - 1, words(j)>> => i = j
    BY <1>2
  <2>3. OneByOne(ids)
    BY <2>1, <2>2 DEF OneByOne
  <2>4. Twins(ids) = {}
    BY <1>2, <2>1, <2>3, TwinsNone
  <2> QED
    BY <2>4 DEF ids
<1>9. Twins(OrdersOf(chunks)) = {} /\ Contiguous(OrdersOf(chunks))
  <2> DEFINE orders == OrdersOf(chunks)
  <2>1. orders \in [1..m -> Int] /\ \A i \in 1..m : orders[i] = i - 1
    BY <1>2, <1>4 DEF OrdersOf
  <2> HIDE DEF orders
  <2>2. Twins(orders) = {} /\ Contiguous(orders)
    BY <1>2, <2>1, OrdinalsAre
  <2> QED
    BY <2>2 DEF orders
<1>10. Twins(Places(input)) = {}
  <2> DEFINE places == Places(input)
  <2>1. DOMAIN places = 1..m /\ \A k \in 1..m : places[k] = <<start(k), stop(k)>>
    <3>1. \A k \in 1..m : k \in Placed(input)
      BY <1>2, <1>3 DEF Placed, chunks
    <3> QED
      BY <1>2, <3>1 DEF Places, chunks, start, stop
  <2> HIDE DEF places
  <2>2. OneByOne(places)
    <3> SUFFICES ASSUME NEW i \in 1..m, NEW j \in 1..m, places[i] = places[j] PROVE i = j
      BY <2>1 DEF OneByOne
    <3>1. start(i) = start(j)
      BY <2>1
    <3> QED
      BY <1>7, <3>1
  <2>3. Twins(places) = {}
    BY <1>2, <2>1, <2>2, TwinsNone
  <2> QED
    BY <2>3 DEF places
<1>11. Crossed(input) = {}
  <2> SUFFICES ASSUME NEW pair \in Crossed(input) PROVE FALSE
    OBVIOUS
  <2> DEFINE i == pair[1]
             j == pair[2]
  <2>1. i \in 1..m /\ j \in 1..m /\ i < j /\ Overlapping(chunks[i], chunks[j])
    BY <1>2 DEF Crossed, Placed, chunks
  <2> HIDE DEF i, j
  <2>2. start(j) < stop(i)
    BY <2>1 DEF Overlapping, start, stop
  <2>3. stop(i) <= start(j)
    BY <1>5, <2>1
  <2> QED
    BY <1>4, <2>1, <2>2, <2>3
<1>12. \A i, j \in 1..m : i # j => <<start(i), stop(i)>> # <<start(j), stop(j)>>
  BY <1>7
<1> QED
  BY <1>2, <1>8, <1>9, <1>10, <1>11, <1>12 DEF chunks, start, stop

\* Of a parsed text's chunks it is only said that there are none, or that two are alike.
LEMMA ParsedChunksFine ==
  ASSUME NEW C, NEW text \in Seq(C), NEW document, NEW input, OfText(input, document, text)
  PROVE  /\ \A f \in ChunkFindings(input) :
                \/ input.chunks = <<>> /\ f.severity = "BLOCKING" /\ f.chunks = {}
                \/ f.severity = "WARNING" /\ \A i \in f.chunks : HasTwin(input.chunks, i)
         /\ input.chunks = <<>> => \E f \in ChunkFindings(input) : f.severity = "BLOCKING"
         /\ \A i \in DOMAIN input.chunks : HasTwin(input.chunks, i) =>
                \E f \in ChunkFindings(input) : f.severity = "WARNING" /\ i \in f.chunks
<1> DEFINE chunks == input.chunks
           texts == TextsOf(chunks)
           m == Cardinality(AllSpans(text))
<1>1. /\ Twins(ChunkIds(chunks)) = {} /\ Twins(OrdersOf(chunks)) = {} /\ Contiguous(OrdersOf(chunks))
      /\ Twins(Places(input)) = {} /\ Crossed(input) = {}
      /\ \A i, j \in DOMAIN chunks : i # j => <<chunks[i].start, chunks[i].stop>> # <<chunks[j].start, chunks[j].stop>>
  BY ParsedChunksApart
<1>2. m \in Nat /\ DOMAIN chunks = 1..m
  <2>1. chunks = Parsed(document, text).chunks
    BY DEF OfText
  <2> QED
    BY <2>1, ParsedChunks
<1>3. \A i \in 1..m : \A f : f \notin ChunkFinding(input, i)
  <2>1. \A i \in 1..m : Quiet(input, i)
    BY <1>2, ParsedChunkFine
  <2> QED
    BY <2>1 DEF Quiet
<1>4. DOMAIN texts = 1..m /\ \A i \in 1..m : texts[i] = chunks[i].text
  BY <1>2 DEF TextsOf
<1> HIDE DEF m, texts
<1>5. /\ \A twins \in Twins(texts) : \A i \in twins : \E j \in 1..m : j # i /\ texts[j] = texts[i]
      /\ \A i, j \in 1..m : i # j /\ texts[i] = texts[j] => \E twins \in Twins(texts) : i \in twins /\ j \in twins
      /\ \A twins \in Twins(texts) : twins \subseteq 1..m
  <2>1. DOMAIN texts = 1..m
    BY <1>4
  <2>2. /\ \A twins \in Twins(texts) : \A i \in twins : \E j \in 1..m : j # i /\ texts[j] = texts[i]
        /\ \A i, j \in 1..m : i # j /\ texts[i] = texts[j] => \E twins \in Twins(texts) : i \in twins /\ j \in twins
    BY <1>2, <2>1, TwinsHold
  <2>3. \A twins \in Twins(texts) : twins \subseteq 1..m
    BY <2>1, TwinsAre
  <2> QED
    BY <2>2, <2>3
<1>6. SameTexts(chunks) = {twins \in Twins(texts) :
            \E i, j \in twins : <<chunks[i].start, chunks[i].stop>> # <<chunks[j].start, chunks[j].stop>>}
  BY SameTextsAre DEF texts
<1> HIDE DEF chunks
<1>7. \A f : f \in ChunkFindings(input) <=>
        \/ chunks = <<>> /\ f = Finding("NO_USABLE_CHUNKS", "BLOCKING", {}, {})
        \/ \E twins \in SameTexts(chunks) : f = Finding("CHUNK_TEXT_EXACT_DUPLICATE", "WARNING", {}, twins)
  <2> SUFFICES ASSUME NEW f
               PROVE  f \in ChunkFindings(input) <=>
                        \/ chunks = <<>> /\ f = Finding("NO_USABLE_CHUNKS", "BLOCKING", {}, {})
                        \/ \E twins \in SameTexts(chunks) : f = Finding("CHUNK_TEXT_EXACT_DUPLICATE", "WARNING", {}, twins)
    OBVIOUS
  <2>1. f \in ChunkFindings(input) <=>
      \/ chunks = <<>> /\ f = Finding("NO_USABLE_CHUNKS", "BLOCKING", {}, {})
      \/ \E twins \in Twins(ChunkIds(chunks)) :
            f = Finding("CHUNK_ID_DUPLICATE", "BLOCKING", {}, twins)
      \/ \E twins \in Twins(OrdersOf(chunks)) :
            f = Finding("CHUNK_ORDER_DUPLICATE", "BLOCKING", {}, twins)
      \/ ~Contiguous(OrdersOf(chunks)) /\ f = Finding("CHUNK_ORDER_NON_CONTIGUOUS", "BLOCKING", {}, {})
      \/ \E i \in DOMAIN chunks : f \in ChunkFinding(input, i)
      \/ \E twins \in Twins(Places(input)) : f = Finding("CHUNK_RANGE_DUPLICATE", "BLOCKING", {}, twins)
      \/ \E pair \in Crossed(input) : f = Finding("CHUNK_RANGE_OVERLAP", "BLOCKING", {}, Both(pair))
      \/ \E twins \in SameTexts(chunks) : f = Finding("CHUNK_TEXT_EXACT_DUPLICATE", "WARNING", {}, twins)
    BY ChunkFindingIs DEF chunks
  <2>2. ~ \E i \in DOMAIN chunks : f \in ChunkFinding(input, i)
    BY <1>2, <1>3
  <2> QED
    BY <1>1, <2>1, <2>2
<1>8. ASSUME NEW f \in ChunkFindings(input)
      PROVE  \/ chunks = <<>> /\ f.severity = "BLOCKING" /\ f.chunks = {}
             \/ f.severity = "WARNING" /\ \A i \in f.chunks : HasTwin(chunks, i)
  <2>1. CASE chunks = <<>> /\ f = Finding("NO_USABLE_CHUNKS", "BLOCKING", {}, {})
    BY <2>1, FindingHas
  <2>2. CASE \E twins \in SameTexts(chunks) : f = Finding("CHUNK_TEXT_EXACT_DUPLICATE", "WARNING", {}, twins)
    <3>1. PICK twins \in Twins(texts) : f = Finding("CHUNK_TEXT_EXACT_DUPLICATE", "WARNING", {}, twins)
      BY <1>6, <2>2
    <3>2. f.severity = "WARNING" /\ f.chunks = twins
      BY <3>1, FindingHas
    <3>3. \A i \in twins : HasTwin(chunks, i)
      <4> SUFFICES ASSUME NEW i \in twins PROVE HasTwin(chunks, i)
        OBVIOUS
      <4>1. PICK j \in 1..m : j # i /\ texts[j] = texts[i]
        BY <1>5
      <4>2. i \in 1..m
        BY <1>5
      <4> QED
        BY <1>2, <1>4, <4>1, <4>2 DEF HasTwin
    <3> QED
      BY <3>2, <3>3
  <2> QED
    BY <1>7, <1>8, <2>1, <2>2
<1>9. ASSUME chunks = <<>> PROVE \E f \in ChunkFindings(input) : f.severity = "BLOCKING"
  <2> DEFINE f == Finding("NO_USABLE_CHUNKS", "BLOCKING", {}, {})
  <2>1. f \in ChunkFindings(input)
    BY <1>7, <1>9
  <2>2. f.severity = "BLOCKING"
    BY FindingHas
  <2> QED
    BY <2>1, <2>2
<1>10. ASSUME NEW i \in 1..m, HasTwin(chunks, i)
       PROVE  \E f \in ChunkFindings(input) : f.severity = "WARNING" /\ i \in f.chunks
  <2>1. PICK j \in 1..m : j # i /\ texts[j] = texts[i]
    BY <1>2, <1>4, <1>10 DEF HasTwin
  <2>2. PICK twins \in Twins(texts) : i \in twins /\ j \in twins
    BY <1>5, <2>1
  <2>3. <<chunks[i].start, chunks[i].stop>> # <<chunks[j].start, chunks[j].stop>>
    BY <1>1, <1>2, <2>1
  <2>4. twins \in SameTexts(chunks)
    BY <1>6, <2>2, <2>3
  <2> DEFINE f == Finding("CHUNK_TEXT_EXACT_DUPLICATE", "WARNING", {}, twins)
  <2>5. f \in ChunkFindings(input)
    BY <1>7, <2>4
  <2>6. f.severity = "WARNING" /\ f.chunks = twins
    BY FindingHas
  <2> QED
    BY <2>2, <2>5, <2>6
<1> QED
  BY <1>2, <1>8, <1>9, <1>10 DEF chunks

AllChunks(document, text) == {ChunkAt(document, text, k) : k \in 1..Cardinality(AllSpans(text))}

\* The chunks of a parsed text as a sequence; a blank text has none.
LEMMA ParsedSeq ==
  ASSUME NEW C, NEW text \in Seq(C), NEW document
  PROVE  LET chunks == Parsed(document, text).chunks
             m == Cardinality(AllSpans(text))
         IN /\ chunks \in Seq(AllChunks(document, text))
            /\ chunks = <<>> <=> m = 0
            /\ IsBlank(text) => chunks = <<>>
            /\ \A chunk \in AllChunks(document, text) : chunk.start \in Int /\ chunk.stop \in Int
<1> DEFINE chunks == Parsed(document, text).chunks
           cut == AllSpans(text)
           m == Cardinality(cut)
           all == AllChunks(document, text)
<1>1. m \in Nat /\ DOMAIN chunks = 1..m /\ Len(chunks) = m
      /\ \A k \in 1..m : chunks[k] = ChunkAt(document, text, k) /\ CutFrom(chunks[k], document, text, k)
  BY ParsedChunks
<1>2. chunks = [k \in 1..m |-> ChunkAt(document, text, k)]
  BY ParsedWhich
<1>3. all = {ChunkAt(document, text, k) : k \in 1..m}
  BY DEF AllChunks
<1>4. IsBlank(text) => cut = {}
  <2>1. \A s \in cut : Inside(s, 1, Len(text)) /\ \E x \in s.from..s.to : Solid(text, x)
    BY AllSpansAre
  <2>2. ASSUME IsBlank(text), NEW s \in cut PROVE FALSE
    <3>1. PICK x \in s.from..s.to : Solid(text, x)
      BY <2>1
    <3>2. x \in DOMAIN text
      BY <2>1, <3>1 DEF Inside
    <3> QED
      BY <2>2, <3>1, <3>2 DEF IsBlank
  <2> QED
    BY <2>2
<1>5. cut = {} => m = 0
  BY FS_EmptySet
<1> HIDE DEF m, cut, chunks, all
<1>6. chunks \in Seq(all)
  <2>1. \A k \in 1..m : ChunkAt(document, text, k) \in all
    BY <1>3
  <2> QED
    BY <1>1, <1>2, <2>1
<1>7. chunks = <<>> <=> m = 0
  BY <1>1, <1>6
<1>8. \A chunk \in all : chunk.start \in Int /\ chunk.stop \in Int
  <2> SUFFICES ASSUME NEW chunk \in all PROVE chunk.start \in Int /\ chunk.stop \in Int
    OBVIOUS
  <2>1. PICK k \in 1..m : chunk = chunks[k]
    BY <1>1, <1>3
  <2>2. CutFrom(chunk, document, text, k)
    BY <1>1, <2>1
  <2> QED
    BY <2>2 DEF CutFrom
<1> QED
  BY <1>4, <1>5, <1>6, <1>7, <1>8 DEF m, cut, chunks, all

\* What the parser makes passes its audit, or is sent back for what the text is.
ParseIs(input, text, result) ==
    LET chunks == input.chunks
        forbidden == \E k \in DOMAIN text : text[k] = "NUL"
    IN /\ result.action = "STOP" <=> forbidden /\ chunks # <<>> /\ \A i \in DOMAIN chunks : HasTwin(chunks, i)
       /\ result.action = "REIMPORT" <=>
            IsBlank(text) \/ (forbidden /\ (chunks = <<>> \/ \E i \in DOMAIN chunks : ~HasTwin(chunks, i)))
       /\ result.action = "RECHUNK" <=> chunks = <<>> /\ ~forbidden /\ ~IsBlank(text)
       /\ result.action = "CONTINUE" =>
            /\ \A i \in DOMAIN result.chapters : result.chapters[i] = "PASSED"
            /\ DOMAIN result.chapters = DOMAIN input.chapters

\* In a document that goes on every chapter passes.
LEMMA ChaptersPass ==
  ASSUME NEW input, NEW C, input.chunks \in Seq(C), Reviewed(input).action = "CONTINUE"
  PROVE  LET reviews == Reviewed(input).chapters IN
          /\ DOMAIN reviews = DOMAIN input.chapters /\ \A i \in DOMAIN reviews : reviews[i] = "PASSED"
<1>1. Reviewed(input) = Proposed(input) /\ Unblocked(input) /\ Unheld(input)
  BY ContinuedIs
<1>2. Reviewed(input).chapters = [i \in DOMAIN input.chapters |-> ChapterReview(Findings(input), i)]
  BY <1>1 DEF Proposed, Result
<1>3. \A f \in Findings(input) : f.severity # "BLOCKING" /\ f.severity # "REVIEW"
  BY <1>1 DEF Unblocked, Unheld, Of
<1>4. ASSUME NEW i PROVE ChapterReview(Findings(input), i) = "PASSED"
  <2> DEFINE some == {finding \in Findings(input) : i \in finding.chapters}
  <2>1. \A f \in some : f.severity # "BLOCKING" /\ f.severity # "REVIEW"
    BY <1>3
  <2>2. ChapterReview(Findings(input), i) = CheckStatus(some)
    BY DEF ChapterReview
  <2> HIDE DEF some
  <2>3. CheckStatus(some) = "PASSED"
    BY <2>1, StatusIs
  <2> QED
    BY <2>2, <2>3
<1> QED
  BY <1>2, <1>4

\* What the parser makes passes its audit: a text is sent back only when it is empty, has
\* headings alone or a forbidden character, and the last is reported as a failed execution if no
\* chunk is without a twin.
THEOREM ParsedIsAnswered ==
  ASSUME NEW C, NEW text \in Seq(C), NEW document, NEW input, OfText(input, document, text)
  PROVE  ParseIs(input, text, Reviewed(input))
<1> DEFINE chunks == input.chunks
           forbidden == \E k \in DOMAIN text : text[k] = "NUL"
           blank == IsBlank(text)
           alike == \A i \in DOMAIN chunks : HasTwin(chunks, i)
           action == Proposed(input).action
           result == Reviewed(input).action
           all == AllChunks(document, text)
<1>1. chunks = Parsed(document, text).chunks /\ input.text = text /\ input.sound
  BY DEF OfText
<1>2. chunks \in Seq(all) /\ (blank => chunks = <<>>)
  BY <1>1, ParsedSeq
<1>3. \A f \in ChapterFindings(input) : f.severity = "REVIEW" /\ f.chunks = {}
  <2>1. \A f \in ChapterFindings(input) : \E j \in DOMAIN input.chapters :
            f = Finding("CHAPTER_EMPTY", "REVIEW", {j}, {})
    BY ParsedChaptersFine
  <2>2. ASSUME NEW f \in ChapterFindings(input) PROVE f.severity = "REVIEW" /\ f.chunks = {}
    <3>1. PICK j \in DOMAIN input.chapters : f = Finding("CHAPTER_EMPTY", "REVIEW", {j}, {})
      BY <2>1, <2>2
    <3>2. f.severity = "REVIEW" /\ f.chunks = {}
      BY <3>1, FindingHas
    <3> QED
      BY <3>2
  <2> QED
    BY <2>2
<1>4. /\ \A f \in ChunkFindings(input) :
                \/ chunks = <<>> /\ f.severity = "BLOCKING" /\ f.chunks = {}
                \/ f.severity = "WARNING" /\ \A i \in f.chunks : HasTwin(chunks, i)
      /\ chunks = <<>> => \E f \in ChunkFindings(input) : f.severity = "BLOCKING"
      /\ \A i \in DOMAIN chunks : HasTwin(chunks, i) =>
                \E f \in ChunkFindings(input) : f.severity = "WARNING" /\ i \in f.chunks
  BY ParsedChunksFine
<1>5. \A f \in DocumentFindings(input) : f.chunks = {} /\ (f.severity = "BLOCKING" => f.code \in ReimportCodes)
  BY DocumentFit, DocumentBlocked
<1>6. Findings(input) = DocumentFindings(input) \cup ChapterFindings(input) \cup ChunkFindings(input)
  BY DEF Findings
<1>7. (\E f \in Findings(input) : f.severity = "BLOCKING" /\ f.code \in ReimportCodes) <=> blank \/ forbidden
  BY <1>1, ReimportIs
<1>8. Unblocked(input) <=> chunks # <<>> /\ ~blank /\ ~forbidden
  <2>1. Unblocked(input) <=> \A f \in Findings(input) : f.severity # "BLOCKING"
    BY DEF Unblocked, Of
  <2>2. ASSUME Unblocked(input) PROVE chunks # <<>> /\ ~blank /\ ~forbidden
    BY <1>4, <1>6, <1>7, <2>1, <2>2
  <2>3. ASSUME ~Unblocked(input) PROVE chunks = <<>> \/ blank \/ forbidden
    <3>1. PICK f \in Findings(input) : f.severity = "BLOCKING"
      BY <2>1, <2>3
    <3>2. CASE f \in DocumentFindings(input)
      BY <1>5, <1>7, <3>1, <3>2
    <3>3. CASE f \in ChapterFindings(input)
      BY <1>3, <3>1, <3>3
    <3>4. CASE f \in ChunkFindings(input)
      BY <1>4, <3>1, <3>4
    <3> QED
      BY <1>6, <3>2, <3>3, <3>4
  <2> QED
    BY <2>2, <2>3
<1>9. Shadowed(input) <=> chunks # <<>> /\ alike
  <2>1. \A f \in Findings(input) : f.severity = "BLOCKING" => f.chunks = {}
    BY <1>3, <1>4, <1>5, <1>6
  <2>2. ASSUME NEW i \in DOMAIN chunks
        PROVE  (\E f \in Findings(input) : i \in f.chunks /\ f.severity # "BLOCKING") <=> HasTwin(chunks, i)
    <3>1. ASSUME HasTwin(chunks, i) PROVE \E f \in Findings(input) : i \in f.chunks /\ f.severity # "BLOCKING"
      BY <1>4, <1>6, <3>1
    <3>2. ASSUME NEW f \in Findings(input), i \in f.chunks PROVE HasTwin(chunks, i)
      BY <1>3, <1>4, <1>5, <1>6, <3>2
    <3> QED
      BY <3>1, <3>2
  <2> QED
    BY <2>1, <2>2 DEF Shadowed
<1>10. ~Unordered(input)
  <2> DEFINE m == Cardinality(AllSpans(text))
  <2>1. DOMAIN chunks = 1..m /\ \A k \in 1..m : CutFrom(chunks[k], document, text, k)
    BY <1>1, ParsedChunks
  <2>2. \A k \in DOMAIN chunks : chunks[k].order = k - 1
    BY <2>1 DEF CutFrom
  <2> QED
    BY <2>2 DEF Unordered
<1> HIDE DEF chunks, all
<1>11. /\ action = Action(Findings(input))
       /\ result = "STOP" <=> \/ action = "CONTINUE" /\ Unordered(input)
                              \/ action \in {"REIMPORT", "RECHUNK"} /\ Shadowed(input)
       /\ result # "STOP" => result = action
  <2>1. input.chunks \in Seq(all)
    BY <1>2 DEF chunks
  <2>2. action = Action(Findings(input))
    BY <2>1, ProposedIs
  <2>3. /\ Reviewed(input).action = "STOP" <=>
                \/ action = "CONTINUE" /\ Unordered(input)
                \/ action \in {"REIMPORT", "RECHUNK"} /\ Shadowed(input)
        /\ Reviewed(input).action # "STOP" => Reviewed(input) = Proposed(input)
    BY <2>1, EveryInputAnswered
  <2> QED
    BY <2>2, <2>3
<1>12. /\ action \in {"REIMPORT", "RECHUNK", "HOLD", "CONTINUE"}
       /\ action = "CONTINUE" <=> Unblocked(input) /\ Unheld(input)
       /\ action = "HOLD" <=> Unblocked(input) /\ ~Unheld(input)
       /\ action = "REIMPORT" <=> blank \/ forbidden
  BY <1>7, <1>11, ActionIs
<1> HIDE DEF action, result, forbidden, blank, alike
<1>13. result = "STOP" <=> forbidden /\ chunks # <<>> /\ alike
  BY <1>2, <1>8, <1>9, <1>10, <1>11, <1>12
<1>14. result = "REIMPORT" <=> blank \/ (forbidden /\ (chunks = <<>> \/ ~alike))
  BY <1>2, <1>11, <1>12, <1>13
<1>15. result = "RECHUNK" <=> chunks = <<>> /\ ~forbidden /\ ~blank
  BY <1>2, <1>8, <1>11, <1>12, <1>13
<1>16. result = "CONTINUE" => LET reviews == Reviewed(input).chapters IN
          /\ DOMAIN reviews = DOMAIN input.chapters /\ \A i \in DOMAIN reviews : reviews[i] = "PASSED"
  <2>1. input.chunks \in Seq(all)
    BY <1>2 DEF chunks
  <2> QED
    BY <2>1, ChaptersPass DEF result
<1> QED
  BY <1>13, <1>14, <1>15, <1>16 DEF ParseIs, chunks, forbidden, blank, alike, result

Positive == Nat \ {0}

\* A window shows its chunks up to the end of the document.
LEMMA ShowsWhich ==
  ASSUME NEW s \in Nat, NEW n \in Positive, NEW w \in Positive, NEW x
  PROVE  x \in Shows(s, n, w) <=> x \in Nat /\ s <= x /\ x < s + w /\ x < n
BY DEF Shows, Least, Positive

\* Wherever a window begins, it has its full size, unless it is the only one.
LEMMA StartsFit ==
  ASSUME NEW n \in Positive, NEW w \in Positive, NEW t \in Positive
  PROVE  /\ 0 \in WindowStarts(n, w, t)
         /\ \A s \in WindowStarts(n, w, t) : s \in 0..(n - 1) /\ (s = 0 \/ s + w <= n)
         /\ \A x \in 0..(n - 1) : \E s \in WindowStarts(n, w, t) : x \in Shows(s, n, w)
<1> DEFINE planned == Starts0(n, w, t)
           covered == UNION {Shows(s, n, w) : s \in planned}
           gaps == {Least(x, n - w) : x \in (0..(n - 1)) \ covered}
<1>1. WindowStarts(n, w, t) = planned \cup gaps
  BY DEF WindowStarts
<1>2. 0 \in planned
  <2>1. 0 \in 0..(n - 1) /\ 0 % t = 0
    BY DEF Positive
  <2> QED
    BY <2>1 DEF Starts0
<1>3. ASSUME NEW s \in planned
      PROVE  s \in 0..(n - 1) /\ (s = 0 \/ s + w <= n)
  BY DEF Starts0, Positive
<1> HIDE DEF planned
<1>4. \A x \in 0..(n - 1) : x \in covered <=> \E s \in planned : x \in Shows(s, n, w)
  OBVIOUS
<1>5. \A x \in 0..(n - 1) : n <= w => x \in covered
  <2> SUFFICES ASSUME NEW x \in 0..(n - 1), n <= w PROVE x \in Shows(0, n, w)
    BY <1>2, <1>4
  <2> QED
    BY ShowsWhich DEF Positive
<1>6. ASSUME NEW x \in (0..(n - 1)) \ covered
      PROVE  LET s == Least(x, n - w) IN
               /\ s \in 0..(n - 1) /\ s + w <= n /\ x \in Shows(s, n, w)
  <2> DEFINE s == Least(x, n - w)
  <2>1. w < n /\ x \in 0..(n - 1)
    BY <1>5 DEF Positive
  <2>2. s \in 0..(n - 1) /\ s + w <= n /\ s <= x /\ x < s + w
    BY <2>1 DEF Least, Positive
  <2> HIDE DEF s
  <2>3. x \in Shows(s, n, w)
    BY <2>1, <2>2, ShowsWhich DEF Positive
  <2> QED
    BY <2>2, <2>3 DEF s
<1> HIDE DEF covered
<1>7. ASSUME NEW s \in gaps
      PROVE  s \in 0..(n - 1) /\ s + w <= n
  <2>1. PICK x \in (0..(n - 1)) \ covered : s = Least(x, n - w)
    OBVIOUS
  <2> QED
    BY <1>6, <2>1
<1>8. ASSUME NEW x \in 0..(n - 1)
      PROVE  \E s \in planned \cup gaps : x \in Shows(s, n, w)
  <2>1. CASE x \in covered
    BY <1>4, <2>1
  <2>2. CASE x \notin covered
    <3>1. Least(x, n - w) \in gaps
      BY <2>2
    <3> QED
      BY <1>6, <2>2, <3>1
  <2> QED
    BY <2>1, <2>2
<1> HIDE DEF gaps
<1> QED
  BY <1>1, <1>2, <1>3, <1>7, <1>8

\* Within its batch every chunk has one owner, the first window to show it.
LEMMA OwnedInBatch ==
  ASSUME NEW n \in Positive, NEW w \in Positive, NEW t \in Positive,
         NEW S, S = WindowStarts(n, w, t)
  PROVE  /\ \A x \in 0..(n - 1) : \E s \in S : x \in Owns(s, S, n, w)
         /\ \A x \in 0..(n - 1), r, s \in S :
              x \in Owns(s, S, n, w) /\ x \in Shows(r, n, w) => s <= r
         /\ \A s \in S : /\ Owns(s, S, n, w) # {} /\ Owns(s, S, n, w) \subseteq Shows(s, n, w)
<1>1. \A s \in S : s \in 0..(n - 1) /\ s \in Nat /\ (s = 0 \/ s + w <= n)
  BY StartsFit DEF Positive
<1>2. \A s \in S : \A x : x \in Owns(s, S, n, w) <=>
                             x \in Shows(s, n, w) /\ \A o \in S : o < s => x \notin Shows(o, n, w)
  BY DEF Owns
<1>3. ASSUME NEW x \in 0..(n - 1)
      PROVE  \E s \in S : x \in Owns(s, S, n, w)
  <2> DEFINE T == {s \in S : x \in Shows(s, n, w)}
  <2>1. T # {} /\ T \in SUBSET Nat
    BY <1>1, StartsFit
  <2>2. PICK s \in T : \A o \in T : s <= o
    <3> HIDE DEF T
    <3> QED
      BY <2>1, LeastOf
  <2>3. \A o \in S : o < s => x \notin Shows(o, n, w)
    BY <1>1, <2>2
  <2> QED
    BY <1>2, <2>2, <2>3
<1>4. ASSUME NEW x \in 0..(n - 1), NEW r \in S, NEW s \in S,
             x \in Owns(s, S, n, w), x \in Shows(r, n, w)
      PROVE  s <= r
  BY <1>1, <1>2, <1>4
<1>5. ASSUME NEW s \in S
      PROVE  Owns(s, S, n, w) # {}
  <2>1. CASE s = 0
    <3>1. 0 \in Shows(s, n, w)
      BY <2>1, ShowsWhich DEF Positive
    <3>2. \A o \in S : ~(o < s)
      BY <1>1, <2>1
    <3> QED
      BY <1>2, <3>1, <3>2
  <2>2. CASE s # 0
    <3>1. s + w <= n /\ s \in Nat
      BY <1>1, <2>2
    <3>2. s + w - 1 \in Shows(s, n, w)
      BY <3>1, ShowsWhich DEF Positive
    <3>3. ASSUME NEW o \in S, o < s
          PROVE  s + w - 1 \notin Shows(o, n, w)
      BY <1>1, <3>1, <3>3, ShowsWhich DEF Positive
    <3> QED
      BY <1>2, <3>2, <3>3
  <2> QED
    BY <2>1, <2>2
<1> QED
  BY <1>2, <1>3, <1>4, <1>5

\* Products of numbers, as far as they are needed.
LEMMA Multiples ==
  ASSUME NEW b \in Nat, NEW i \in Nat, NEW j \in Nat
  PROVE  /\ b * i \in Nat /\ b * (i + 1) = b * i + b
         /\ i <= j => b * i <= b * j
<1>1. b * i \in Nat /\ b * (i + 1) = b * i + b
  OBVIOUS
<1>2. ASSUME i <= j
      PROVE  b * i <= b * j
  <2>1. j - i \in Nat /\ b * j = b * i + b * (j - i)
    BY <1>2
  <2>2. b * (j - i) \in Nat
    BY <2>1
  <2>3. b * i \in Nat /\ b * j \in Nat
    OBVIOUS
  <2> QED
    BY <2>1, <2>2, <2>3
<1> QED
  BY <1>1, <1>2

\* A number is a multiple of the divisor and a rest, in one way.
LEMMA Division ==
  ASSUME NEW x \in Nat, NEW b \in Positive
  PROVE  /\ x \div b \in Nat /\ x % b \in 0..(b - 1) /\ b * (x \div b) \in Nat
         /\ x = b * (x \div b) + (x % b)
<1>1. x \div b \in Nat /\ x % b \in 0..(b - 1) /\ x = b * (x \div b) + (x % b)
  BY DEF Positive
<1>2. b * (x \div b) \in Nat
  <2> DEFINE d == x \div b
  <2>1. d \in Nat
    BY <1>1
  <2> HIDE DEF d
  <2>2. b * d \in Nat
    BY <2>1, Multiples DEF Positive
  <2> QED
    BY <2>2 DEF d
<1> QED
  BY <1>1, <1>2

LEMMA DivisionOnce ==
  ASSUME NEW x \in Nat, NEW b \in Positive, NEW q \in Nat, NEW r \in 0..(b - 1), x = b * q + r
  PROVE  q = x \div b /\ r = x % b
<1> DEFINE d == x \div b
           m == x % b
<1>1. d \in Nat /\ m \in 0..(b - 1) /\ x = b * d + m
  BY Division
<1> HIDE DEF d, m
<1>2. b \in Nat /\ b * d \in Nat /\ b * q \in Nat
  BY <1>1, Multiples DEF Positive
<1>3. CASE q < d
  <2>1. b * (q + 1) = b * q + b /\ b * (q + 1) <= b * d
    BY <1>1, <1>2, <1>3, Multiples
  <2> QED
    BY <1>1, <1>2, <2>1
<1>4. CASE d < q
  <2>1. b * (d + 1) = b * d + b /\ b * (d + 1) <= b * q
    BY <1>1, <1>2, <1>4, Multiples
  <2> QED
    BY <1>1, <1>2, <2>1
<1>5. CASE d = q
  BY <1>1, <1>2, <1>5 DEF d, m
<1> QED
  BY <1>1, <1>3, <1>4, <1>5

\* A chunk is in one batch, and known there by its place.
LEMMA BatchOf ==
  ASSUME NEW n \in Positive, NEW b \in Positive, NEW x \in 0..(n - 1)
  PROVE  LET f == b * (x \div b) IN
           /\ f \in BatchFirst(n, b) /\ x - f \in 0..(BatchSize(f, n, b) - 1)
           /\ \A g \in BatchFirst(n, b) : \A y \in 0..(BatchSize(g, n, b) - 1) :
                 x = g + y => g = f /\ y = x - f
<1> DEFINE f == b * (x \div b)
<1>0. b \in Nat /\ x \in Nat /\ n \in Nat /\ 0 \in 0..(b - 1)
  BY DEF Positive
<1>1. f \in Nat /\ x = f + (x % b) /\ x % b \in 0..(b - 1) /\ x \div b \in Nat
  BY <1>0, Division
<1>2. f % b = 0
  <2>1. f = b * (x \div b) + 0
    BY <1>1
  <2> HIDE DEF f
  <2>2. 0 = f % b
    <3>1. f \in Nat /\ x \div b \in Nat
      BY <1>1
    <3> QED
      BY <1>0, <2>1, <3>1, DivisionOnce
  <2> QED
    BY <2>2
<1>3. ASSUME NEW g \in BatchFirst(n, b), NEW y \in 0..(BatchSize(g, n, b) - 1), x = g + y
      PROVE  g = f /\ y = x - f
  <2>1. g \in Nat /\ g % b = 0 /\ g <= n - 1
    BY <1>0 DEF BatchFirst
  <2>2. y \in 0..(b - 1)
    BY <1>0, <2>1 DEF BatchSize, Least
  <2>3. g \div b \in Nat /\ g = b * (g \div b)
    <3>1. g \div b \in Nat /\ g = b * (g \div b) + 0
      BY <2>1, Division
    <3>2. b * (g \div b) \in Nat
      BY <1>0, <3>1
    <3> QED
      BY <3>1, <3>2
  <2>4. x = b * (g \div b) + y
    BY <1>3, <2>3
  <2>5. g \div b = x \div b
    BY <1>0, <2>2, <2>3, <2>4, DivisionOnce
  <2> QED
    BY <1>0, <1>1, <1>3, <2>2, <2>3, <2>5
<1> HIDE DEF f
<1>4. f \in BatchFirst(n, b) /\ x - f \in 0..(BatchSize(f, n, b) - 1)
  BY <1>0, <1>1, <1>2 DEF BatchFirst, BatchSize, Least
<1> QED
  BY <1>3, <1>4 DEF f

\* A batch has chunks.
LEMMA BatchHas ==
  ASSUME NEW n \in Positive, NEW b \in Positive, NEW f \in BatchFirst(n, b)
  PROVE  f \in 0..(n - 1) /\ BatchSize(f, n, b) \in Positive /\ f + BatchSize(f, n, b) <= n
BY DEF BatchFirst, BatchSize, Least, Positive

\* A piece of a document has as many chunks as the window it is shown by.
LEMMA Shifted ==
  ASSUME NEW f \in Nat, NEW i \in Nat, NEW j \in Int, i <= j + 1
  PROVE  /\ IsFiniteSet({f + c : c \in i..j})
         /\ Cardinality({f + c : c \in i..j}) = j + 1 - i
<1> DEFINE A == {f + c : c \in i..j}
<1>1. A = (f + i)..(f + j)
  <2>1. ASSUME NEW x \in (f + i)..(f + j) PROVE x \in {f + c : c \in i..j}
    <3>1. x - f \in i..j /\ x = f + (x - f)
      OBVIOUS
    <3> QED
      BY <3>1
  <2> QED
    BY <2>1
<1> HIDE DEF A
<1>2. /\ IsFiniteSet((f + i)..(f + j))
      /\ Cardinality((f + i)..(f + j)) = IF f + i > f + j THEN 0 ELSE (f + j) - (f + i) + 1
  <2>1. f + i \in Int /\ f + j \in Int
    OBVIOUS
  <2> HIDE DEF IsFiniteSet
  <2> QED
    BY <2>1, FS_Interval
<1>3. IsFiniteSet(A) /\ Cardinality(A) = j + 1 - i
  BY <1>1, <1>2
<1> QED
  BY <1>3 DEF A

\* Batches, windows and owners of a document of any length, for every size, stride and batch.
LEMMA WindowsOwn ==
  ASSUME NEW n \in Positive, NEW w \in Positive, NEW t \in Positive, NEW b \in Positive,
         NEW plan, plan = PlannedWindows(n, w, t, b)
  PROVE  /\ \A x \in 0..(n - 1) :
              /\ \E owner \in plan : /\ x \in owner.owns
                                     /\ \A other \in plan : x \in other.owns => other = owner
              /\ \A shower, owner \in plan : x \in shower.shows /\ x \in owner.owns =>
                    owner.batch = shower.batch /\ owner.index <= shower.index
         /\ \A window \in plan : /\ window.owns # {} /\ window.owns \subseteq window.shows
                                 /\ Cardinality(window.shows) <= w
                                  /\ window.shows \subseteq 0..(n - 1)
<1> DEFINE size(f) == BatchSize(f, n, b)
           starts(f) == WindowStarts(size(f), w, t)
           Made(f, s) == Window(f, s, starts(f), w, n, b)
<1>1. \A p : p \in plan <=> \E f \in BatchFirst(n, b) : \E s \in starts(f) : p = Made(f, s)
  BY DEF PlannedWindows
<1>2. ASSUME NEW f \in BatchFirst(n, b)
      PROVE  f \in Nat /\ size(f) \in Positive /\ starts(f) \in SUBSET Nat
             /\ IsFiniteSet(starts(f))
  <2>1. f \in Nat /\ size(f) \in Positive
    BY BatchHas DEF Positive
  <2>2. starts(f) \subseteq 0..(size(f) - 1)
    BY <2>1, StartsFit
  <2>3. IsFiniteSet(0..(size(f) - 1))
    BY <2>1, FS_Interval DEF Positive
  <2>4. IsFiniteSet(starts(f))
    BY <2>2, <2>3, FS_Subset
  <2>5. starts(f) \in SUBSET Nat
    BY <2>1, <2>2 DEF Positive
  <2> QED
    BY <2>1, <2>4, <2>5
<1>3. ASSUME NEW f \in BatchFirst(n, b), NEW s \in starts(f)
      PROVE  /\ Made(f, s).batch = f \div b
             /\ Made(f, s).index = Cardinality({r \in starts(f) : r < s})
             /\ \A x : x \in Made(f, s).shows <=> \E c \in Shows(s, size(f), w) : x = f + c
             /\ \A x : x \in Made(f, s).owns <=> \E c \in Owns(s, starts(f), size(f), w) : x = f + c
  BY DEF Window
<1>4. ASSUME NEW f \in BatchFirst(n, b), NEW s \in starts(f)
      PROVE  Shows(s, size(f), w) \subseteq 0..(size(f) - 1)
  BY <1>2, ShowsWhich DEF Positive
<1>5. ASSUME NEW f \in BatchFirst(n, b), NEW s \in starts(f)
      PROVE  Owns(s, starts(f), size(f), w) # {}
             /\ Owns(s, starts(f), size(f), w) \subseteq Shows(s, size(f), w)
  BY <1>2, OwnedInBatch
<1>6. ASSUME NEW f \in BatchFirst(n, b), NEW s \in starts(f), NEW r \in starts(f), s <= r
      PROVE  Made(f, s).index <= Made(f, r).index
  <2> DEFINE A == {o \in starts(f) : o < s}
             B == {o \in starts(f) : o < r}
  <2>1. A \subseteq B /\ IsFiniteSet(B)
    <3>1. A \subseteq B
      BY <1>2, <1>6
    <3>2. IsFiniteSet(B)
      BY <1>2, FS_Subset
    <3> QED
      BY <3>1, <3>2
  <2>2. Cardinality(A) <= Cardinality(B)
    BY <2>1, FS_Subset
  <2> QED
    BY <1>3, <2>2
<1>7. ASSUME NEW f \in BatchFirst(n, b), NEW s \in starts(f)
      PROVE  Cardinality(Made(f, s).shows) <= w
  <2> DEFINE e == Least(s + w, size(f)) - 1
  <2>1. s \in Nat /\ e \in Int /\ s <= e + 1 /\ e + 1 - s <= w
    <3>1. s \in 0..(size(f) - 1)
      BY <1>2, StartsFit
    <3> QED
      BY <1>2, <3>1 DEF Least, Positive
  <2>2. Made(f, s).shows = {f + c : c \in s..e}
    BY DEF Window, Shows
  <2> HIDE DEF e
  <2>3. Cardinality({f + c : c \in s..e}) = e + 1 - s
    BY <1>2, <2>1, Shifted
  <2> QED
    BY <2>1, <2>2, <2>3
<1> HIDE DEF size, starts, Made
<1>8. ASSUME NEW x \in 0..(n - 1)
      PROVE  \E f \in BatchFirst(n, b), c \in Nat :
               /\ x = f + c /\ c \in 0..(size(f) - 1)
               /\ \A g \in BatchFirst(n, b) : \A d \in 0..(size(g) - 1) :
                     x = g + d => g = f /\ d = c
  <2> DEFINE f == b * (x \div b)
  <2>1. /\ f \in BatchFirst(n, b) /\ x - f \in 0..(size(f) - 1)
        /\ \A g \in BatchFirst(n, b) : \A d \in 0..(size(g) - 1) : x = g + d => g = f /\ d = x - f
    BY BatchOf DEF size
  <2> HIDE DEF f
  <2>2. x = f + (x - f) /\ x - f \in Nat
    BY <1>2, <2>1
  <2> QED
    BY <2>1, <2>2
<1>9. ASSUME NEW x \in 0..(n - 1)
      PROVE  /\ \E owner \in plan : /\ x \in owner.owns
                                    /\ \A other \in plan : x \in other.owns => other = owner
             /\ \A shower, owner \in plan : x \in shower.shows /\ x \in owner.owns =>
                    owner.batch = shower.batch /\ owner.index <= shower.index
  <2>1. PICK f \in BatchFirst(n, b), c \in Nat :
               /\ x = f + c /\ c \in 0..(size(f) - 1)
               /\ \A g \in BatchFirst(n, b) : \A d \in 0..(size(g) - 1) :
                     x = g + d => g = f /\ d = c
    BY <1>8
  <2>2. ASSUME NEW g \in BatchFirst(n, b), NEW s \in starts(g), x \in Made(g, s).shows
        PROVE  g = f /\ c \in Shows(s, size(f), w)
    <3>0. \A y : y \in Made(g, s).shows <=> \E d \in Shows(s, size(g), w) : y = g + d
      BY <1>3
    <3>1. PICK d \in Shows(s, size(g), w) : x = g + d
      BY <2>2, <3>0
    <3>2. d \in 0..(size(g) - 1)
      BY <1>4
    <3> QED
      BY <2>1, <3>1, <3>2
  <2>3. ASSUME NEW g \in BatchFirst(n, b), NEW s \in starts(g), x \in Made(g, s).owns
        PROVE  g = f /\ c \in Owns(s, starts(f), size(f), w)
    <3>0. \A y : y \in Made(g, s).owns <=> \E d \in Owns(s, starts(g), size(g), w) : y = g + d
      BY <1>3
    <3>1. PICK d \in Owns(s, starts(g), size(g), w) : x = g + d
      BY <2>3, <3>0
    <3>2. d \in 0..(size(g) - 1)
      BY <1>4, <1>5
    <3> QED
      BY <2>1, <3>1, <3>2
  <2>4. /\ \E s \in starts(f) : c \in Owns(s, starts(f), size(f), w)
        /\ \A r, s \in starts(f) :
              c \in Owns(s, starts(f), size(f), w) /\ c \in Shows(r, size(f), w) => s <= r
    BY <1>2, <2>1, OwnedInBatch DEF starts
  <2>5. PICK s \in starts(f) : c \in Owns(s, starts(f), size(f), w)
    BY <2>4
  <2>6. Made(f, s) \in plan /\ x \in Made(f, s).owns
    BY <1>1, <1>3, <2>1, <2>5
  <2>7. ASSUME NEW other \in plan, x \in other.owns
        PROVE  other = Made(f, s)
    <3>0. PICK g \in BatchFirst(n, b) : \E r \in starts(g) : other = Made(g, r)
      BY <1>1
    <3>1. PICK r \in starts(g) : other = Made(g, r)
      BY <3>0
    <3>2. g = f /\ c \in Owns(r, starts(f), size(f), w)
      BY <2>3, <2>7, <3>1
    <3>3. r <= s /\ s <= r /\ r \in Nat /\ s \in Nat
      BY <1>2, <1>5, <2>4, <2>5, <3>1, <3>2
    <3> QED
      BY <3>1, <3>2, <3>3
  <2>8. ASSUME NEW shower \in plan, NEW owner \in plan, x \in shower.shows, x \in owner.owns
        PROVE  owner.batch = shower.batch /\ owner.index <= shower.index
    <3>0. PICK g \in BatchFirst(n, b) : \E r \in starts(g) : shower = Made(g, r)
      BY <1>1
    <3>1. PICK r \in starts(g) : shower = Made(g, r)
      BY <3>0
    <3>2. g = f /\ c \in Shows(r, size(f), w) /\ owner = Made(f, s)
      BY <2>2, <2>7, <2>8, <3>1
    <3>3. s <= r
      BY <2>4, <2>5, <3>1, <3>2
    <3> QED
      BY <1>3, <1>6, <2>5, <3>1, <3>2, <3>3
  <2> QED
    BY <2>6, <2>7, <2>8
<1>10. ASSUME NEW window \in plan
       PROVE  /\ window.owns # {} /\ window.owns \subseteq window.shows
              /\ Cardinality(window.shows) <= w /\ window.shows \subseteq 0..(n - 1)
  <2>0. PICK f \in BatchFirst(n, b) : \E s \in starts(f) : window = Made(f, s)
    BY <1>1
  <2>1. PICK s \in starts(f) : window = Made(f, s)
    BY <2>0
  <2>2. ASSUME NEW x \in window.shows
        PROVE  x \in 0..(n - 1)
    <3>0. \A y : y \in Made(f, s).shows <=> \E d \in Shows(s, size(f), w) : y = f + d
      BY <1>3
    <3>1. PICK d \in Shows(s, size(f), w) : x = f + d
      BY <2>1, <2>2, <3>0
    <3>2. d \in 0..(size(f) - 1)
      BY <1>4, <2>1, <3>1
    <3>3. f \in Nat /\ n \in Nat /\ size(f) \in Nat /\ f + size(f) <= n
      <4>1. f \in 0..(n - 1) /\ size(f) \in Positive /\ f + size(f) <= n
        BY BatchHas DEF size
      <4> QED
        BY <4>1 DEF Positive
    <3> QED
      BY <3>1, <3>2, <3>3
  <2> QED
    BY <1>3, <1>5, <1>7, <2>1, <2>2
<1> QED
  BY <1>9, <1>10

\* A plan has finitely many windows.
LEMMA PlanIsFinite ==
  ASSUME NEW n \in Positive, NEW w \in Positive, NEW t \in Positive, NEW b \in Positive
  PROVE  IsFiniteSet(PlannedWindows(n, w, t, b))
<1> DEFINE size(f) == BatchSize(f, n, b)
           starts(f) == WindowStarts(size(f), w, t)
           Made(f, s) == Window(f, s, starts(f), w, n, b)
           plan == PlannedWindows(n, w, t, b)
           pairs == {d \in (0..(n - 1)) \X (0..(n - 1)) :
                       d[1] \in BatchFirst(n, b) /\ d[2] \in starts(d[1])}
           make == [d \in pairs |-> Made(d[1], d[2])]
<1>1. \A p : p \in plan <=> \E f \in BatchFirst(n, b) : \E s \in starts(f) : p = Made(f, s)
  BY DEF PlannedWindows
<1>2. ASSUME NEW f \in BatchFirst(n, b), NEW s \in starts(f)
      PROVE  <<f, s>> \in pairs
  <2>1. f \in 0..(n - 1) /\ size(f) \in Positive /\ f + size(f) <= n
    BY BatchHas
  <2>2. s \in 0..(size(f) - 1)
    BY <2>1, StartsFit
  <2>3. s \in 0..(n - 1)
    BY <2>1, <2>2 DEF Positive
  <2> QED
    BY <2>1, <2>3
<1>3. IsFiniteSet(pairs)
  <2>1. IsFiniteSet(0..(n - 1))
    <3>1. 0 \in Int /\ n - 1 \in Int
      BY DEF Positive
    <3> QED
      BY <3>1, FS_Interval
  <2>2. IsFiniteSet((0..(n - 1)) \X (0..(n - 1)))
    BY <2>1, FS_Product
  <2> QED
    BY <2>2, FS_Subset
<1> HIDE DEF Made, starts, size, plan
<1>4. make \in Surjection(pairs, plan)
  <2>1. make \in [pairs -> plan]
    BY <1>1
  <2>2. ASSUME NEW p \in plan PROVE \E d \in pairs : make[d] = p
    <3>0. PICK f \in BatchFirst(n, b) : \E s \in starts(f) : p = Made(f, s)
      BY <1>1
    <3>1. PICK s \in starts(f) : p = Made(f, s)
      BY <3>0
    <3>2. <<f, s>> \in pairs /\ make[<<f, s>>] = Made(f, s)
      BY <1>2
    <3> QED
      BY <3>1, <3>2
  <2> QED
    BY <2>1, <2>2 DEF Surjection
<1> HIDE DEF make, pairs
<1>5. IsFiniteSet(plan)
  BY <1>3, <1>4, FS_Surjection
<1> QED
  BY <1>5 DEF plan

\* A function on numbers may build each value on the one before.
LEMMA Recursion ==
  ASSUME NEW N \in Nat, NEW x0 \in Nat, NEW F \in [Nat \X Nat -> Nat]
  PROVE  \E g \in [0..N -> Nat] :
            \A n \in 0..N : g[n] = IF n = 0 THEN x0 ELSE F[<<n, g[n - 1]>>]
<1> DEFINE Builds(g, m) == /\ g \in [0..m -> Nat]
                           /\ \A n \in 0..m : g[n] = IF n = 0 THEN x0 ELSE F[<<n, g[n - 1]>>]
           S == {m \in Nat : \E g : Builds(g, m)}
<1>1. 0 \in S
  <2>1. Builds([n \in 0..0 |-> x0], 0)
    OBVIOUS
  <2> QED
    BY <2>1
<1>2. ASSUME NEW m \in Nat, m \in S
      PROVE  m + 1 \in S
  <2>1. PICK g : Builds(g, m)
    BY <1>2
  <2> DEFINE h == [n \in 0..(m + 1) |-> IF n <= m THEN g[n] ELSE F[<<m + 1, g[m]>>]]
  <2>2. /\ \A n \in 0..m : h[n] = g[n] /\ g[n] \in Nat
        /\ \A n \in 0..m : g[n] = IF n = 0 THEN x0 ELSE F[<<n, g[n - 1]>>]
        /\ h[m + 1] = F[<<m + 1, g[m]>>] /\ DOMAIN h = 0..(m + 1)
        /\ h = [n \in 0..(m + 1) |-> h[n]]
    BY <2>1
  <2> HIDE DEF h, Builds
  <2>3. ASSUME NEW n \in 0..(m + 1)
        PROVE  h[n] \in Nat /\ h[n] = IF n = 0 THEN x0 ELSE F[<<n, h[n - 1]>>]
    <3>1. CASE n \in 0..m
      <4>1. n # 0 => n - 1 \in 0..m
        BY <3>1
      <4> QED
        BY <2>2, <3>1, <4>1
    <3>2. CASE n = m + 1
      <4>1. m \in 0..m /\ n # 0 /\ n - 1 = m /\ n \in Nat
        BY <3>2
      <4>2. g[m] \in Nat /\ h[m] = g[m]
        BY <2>2, <4>1
      <4>3. <<n, g[m]>> \in Nat \X Nat
        BY <4>1, <4>2
      <4>4. F[<<n, g[m]>>] \in Nat
        BY <4>3
      <4> QED
        BY <2>2, <3>2, <4>1, <4>2, <4>4
    <3> QED
      BY <3>1, <3>2
  <2>4. h \in [0..(m + 1) -> Nat]
    BY <2>2, <2>3
  <2>5. Builds(h, m + 1)
    BY <2>3, <2>4 DEF Builds
  <2> QED
    BY <2>5
<1>3. Nat \subseteq S
  <2> HIDE DEF S
  <2> QED
    BY <1>1, <1>2, InductiveSet
<1>4. PICK g : Builds(g, N)
  BY <1>3
<1> QED
  BY <1>4

\* Whatever depth the recursion of a chunk's slices is computed to, it counts the same.
LEMMA SlicesCounted ==
  ASSUME NEW N \in Nat, NEW g, NEW M \in 0..N,
         g = [d \in 0..N |-> 1 + (IF d = 0 THEN 0 ELSE 2 * g[d - 1])]
  PROVE  SliceTree(M) = g[M]
<1> DEFINE Counts(f) == f = [d \in 0..M |-> 1 + (IF d = 0 THEN 0 ELSE 2 * f[d - 1])]
           scopes == CHOOSE f : Counts(f)
<1>1. SliceTree(M) = scopes[M] /\ M \in Nat
  BY DEF SliceTree
<1>2. \E f : Counts(f)
  <2>1. Counts([d \in 0..M |-> g[d]])
    OBVIOUS
  <2> QED
    BY <2>1
<1>3. Counts(scopes)
  <2> HIDE DEF Counts
  <2> QED
    BY <1>2
<1> HIDE DEF scopes
<1>4. ASSUME NEW d \in 0..M
      PROVE  scopes[d] = 1 + (IF d = 0 THEN 0 ELSE 2 * scopes[d - 1])
  BY <1>3
<1>8. ASSUME NEW d \in 0..M
      PROVE  g[d] = 1 + (IF d = 0 THEN 0 ELSE 2 * g[d - 1])
  <2>1. d \in 0..N
    BY <1>1
  <2> QED
    BY <2>1
<1> HIDE DEF Counts
<1> DEFINE S == {m \in Nat : m <= M => scopes[m] = g[m]}
<1>5. 0 \in S
  BY <1>1, <1>4, <1>8
<1>6. ASSUME NEW m \in Nat, m \in S PROVE m + 1 \in S
  <2> SUFFICES ASSUME m + 1 <= M PROVE scopes[m + 1] = g[m + 1]
    OBVIOUS
  <2>1. m + 1 \in 0..M /\ m + 1 # 0 /\ (m + 1) - 1 = m /\ scopes[m] = g[m]
    BY <1>1, <1>6
  <2> QED
    BY <1>4, <1>8, <2>1
<1>7. Nat \subseteq S
  <2> HIDE DEF S
  <2> QED
    BY <1>5, <1>6, InductiveSet
<1>9. M <= M
  BY <1>1
<1> QED
  BY <1>1, <1>7, <1>9

\* The sum over the depths of a tree of halves is what the slices of a chunk
\* come to: one scope, and two trees that are one split less deep.
LEMMA TreePaid ==
  ASSUME NEW N \in Nat
  PROVE  /\ TreeScopes(N) \in Nat /\ TreeScopes(N) >= 1 /\ SliceTree(N) = TreeScopes(N)
         /\ TreeScopes(N) = IF N = 0 THEN 1 ELSE 1 + 2 * SliceTree(N - 1)
<1> DEFINE Level(g) == g = [d \in 0..N |-> IF d = 0 THEN 1 ELSE 2 * g[d - 1]]
           level == CHOOSE g : Level(g)
           UpTo(g) == g = [d \in 0..N |-> IF d = 0 THEN 1 ELSE g[d - 1] + level[d]]
           upTo == CHOOSE g : UpTo(g)
           Calls(g) == g = [d \in 0..N |-> 1 + (IF d = 0 THEN 0 ELSE 2 * g[d - 1])]
           calls == CHOOSE g : Calls(g)
<1>1. TreeScopes(N) = upTo[N]
  BY DEF TreeScopes
<1>2. \E g : Level(g)
  <2> DEFINE F == [p \in Nat \X Nat |-> 2 * p[2]]
  <2>1. F \in [Nat \X Nat -> Nat] /\ \A n \in Nat, x \in Nat : F[<<n, x>>] = 2 * x
    OBVIOUS
  <2> HIDE DEF F
  <2>2. PICK g \in [0..N -> Nat] : \A n \in 0..N : g[n] = IF n = 0 THEN 1 ELSE F[<<n, g[n - 1]>>]
    <3>1. 1 \in Nat /\ F \in [Nat \X Nat -> Nat]
      BY <2>1
    <3> QED
      BY <3>1, Recursion, ZenonT(40)
  <2>3. ASSUME NEW n \in 0..N PROVE g[n] = IF n = 0 THEN 1 ELSE 2 * g[n - 1]
    <3>1. g[n] = IF n = 0 THEN 1 ELSE F[<<n, g[n - 1]>>]
      BY <2>2
    <3>2. n # 0 => g[n - 1] \in Nat /\ n \in Nat
      BY <2>2
    <3> QED
      BY <2>1, <3>1, <3>2
  <2>4. Level(g)
    BY <2>3
  <2> QED
    BY <2>4
<1>3. Level(level)
  <2> HIDE DEF Level
  <2> QED
    BY <1>2
<1> HIDE DEF level
<1>4. ASSUME NEW n \in 0..N PROVE level[n] = IF n = 0 THEN 1 ELSE 2 * level[n - 1]
  BY <1>3
<1> HIDE DEF Level
<1>5. \A n \in 0..N : level[n] \in Nat
  <2> DEFINE S == {n \in Nat : n <= N => level[n] \in Nat}
  <2>1. 0 \in S
    BY <1>4
  <2>2. ASSUME NEW n \in Nat, n \in S PROVE n + 1 \in S
    BY <1>4, <2>2
  <2>3. Nat \subseteq S
    <3> HIDE DEF S
    <3> QED
      BY <2>1, <2>2, InductiveSet
  <2> QED
    BY <2>3
<1>6. \E g : UpTo(g)
  <2> DEFINE F == [p \in Nat \X Nat |-> IF p[1] \in 0..N THEN p[2] + level[p[1]] ELSE 0]
  <2>1. F \in [Nat \X Nat -> Nat] /\ \A n \in 0..N, x \in Nat : F[<<n, x>>] = x + level[n]
    BY <1>5
  <2> HIDE DEF F
  <2>2. PICK g \in [0..N -> Nat] : \A n \in 0..N : g[n] = IF n = 0 THEN 1 ELSE F[<<n, g[n - 1]>>]
    <3>1. 1 \in Nat /\ F \in [Nat \X Nat -> Nat]
      BY <2>1
    <3> QED
      BY <3>1, Recursion, ZenonT(40)
  <2>3. ASSUME NEW n \in 0..N PROVE g[n] = IF n = 0 THEN 1 ELSE g[n - 1] + level[n]
    <3>1. g[n] = IF n = 0 THEN 1 ELSE F[<<n, g[n - 1]>>]
      BY <2>2
    <3>2. n # 0 => g[n - 1] \in Nat /\ n \in Nat
      BY <2>2
    <3> QED
      BY <2>1, <3>1, <3>2
  <2>4. UpTo(g)
    BY <2>3
  <2> QED
    BY <2>4
<1>7. UpTo(upTo)
  <2> HIDE DEF UpTo
  <2> QED
    BY <1>6
<1> HIDE DEF upTo
<1>8. ASSUME NEW n \in 0..N PROVE upTo[n] = IF n = 0 THEN 1 ELSE upTo[n - 1] + level[n]
  BY <1>7
<1> HIDE DEF UpTo
<1>9. \E g : Calls(g)
  <2> DEFINE F == [p \in Nat \X Nat |-> 1 + 2 * p[2]]
  <2>1. F \in [Nat \X Nat -> Nat] /\ \A n \in Nat, x \in Nat : F[<<n, x>>] = 1 + 2 * x
    OBVIOUS
  <2> HIDE DEF F
  <2>2. PICK g \in [0..N -> Nat] :
          \A n \in 0..N : g[n] = IF n = 0 THEN 1 ELSE F[<<n, g[n - 1]>>]
    <3>1. 1 \in Nat /\ F \in [Nat \X Nat -> Nat]
      BY <2>1
    <3> QED
      BY <3>1, Recursion, ZenonT(40)
  <2>3. ASSUME NEW n \in 0..N PROVE g[n] = 1 + (IF n = 0 THEN 0 ELSE 2 * g[n - 1])
    <3>1. g[n] = IF n = 0 THEN 1 ELSE F[<<n, g[n - 1]>>]
      BY <2>2
    <3>2. n # 0 => g[n - 1] \in Nat /\ n \in Nat
      BY <2>2
    <3> QED
      BY <2>1, <3>1, <3>2
  <2>4. Calls(g)
    BY <2>3
  <2> QED
    BY <2>4
<1>10. Calls(calls)
  <2> HIDE DEF Calls
  <2> QED
    BY <1>9
<1> HIDE DEF calls
<1>11. ASSUME NEW n \in 0..N
       PROVE  calls[n] = 1 + (IF n = 0 THEN 0 ELSE 2 * calls[n - 1])
  BY <1>10
<1>12. \A d \in 0..N : SliceTree(d) = calls[d]
  BY <1>10, SlicesCounted
<1> HIDE DEF Calls
<1>13. ASSUME NEW n \in 0..N
       PROVE  upTo[n] \in Nat /\ upTo[n] = 2 * level[n] - 1 /\ upTo[n] >= 1 /\ calls[n] = upTo[n]
  <2> DEFINE Paid(m) == /\ upTo[m] \in Nat /\ upTo[m] = 2 * level[m] - 1
                        /\ upTo[m] >= 1 /\ calls[m] = upTo[m]
             S == {m \in Nat : m <= N => Paid(m)}
  <2>1. 0 \in S
    BY <1>4, <1>8, <1>11
  <2>2. ASSUME NEW m \in Nat, m \in S PROVE m + 1 \in S
    <3> SUFFICES ASSUME m + 1 <= N PROVE Paid(m + 1)
      OBVIOUS
    <3>1. /\ Paid(m) /\ level[m] \in Nat /\ m + 1 \in 0..N /\ m + 1 # 0 /\ (m + 1) - 1 = m
      BY <1>5, <2>2
    <3>2. /\ level[m + 1] = 2 * level[m] /\ upTo[m + 1] = upTo[m] + level[m + 1]
          /\ calls[m + 1] = 1 + 2 * calls[m]
      BY <1>4, <1>8, <1>11, <3>1
    <3>3. upTo[m + 1] = 2 * upTo[m] + 1
      BY <3>1, <3>2
    <3> QED
      BY <3>1, <3>2, <3>3
  <2>3. Nat \subseteq S
    <3> HIDE DEF S
    <3> QED
      BY <2>1, <2>2, InductiveSet
  <2> QED
    BY <2>3
<1>14. N \in 0..N /\ (N # 0 => N - 1 \in 0..N)
  OBVIOUS
<1> QED
  BY <1>1, <1>11, <1>13, <1>12, <1>14

\* A plan for a finite document has finitely many first children.
LEMMA ChildrenFinite ==
  ASSUME NEW plan, IsFiniteSet(plan), NEW n \in Nat,
         \A window \in plan : window.owns \subseteq 0..n
  PROVE  IsFiniteSet(FirstChildren(plan))
<1> DEFINE m == IF n < 2 THEN 2 ELSE n
<1>1. IsFiniteSet(0..m)
  BY FS_Interval
<1>2. IsFiniteSet(plan \X (0..m))
  BY <1>1, FS_Product
<1>3. \A window \in plan : Children(window) \subseteq 0..m
  BY DEF Children
<1>4. FirstChildren(plan) \in SUBSET (plan \X (0..m))
  BY <1>3 DEF FirstChildren
<1> QED
  BY <1>2, <1>4, FS_Subset

\* A cap of a binary tree for each of c windows pays for p first children when
\* they are at most twice as many as the windows.
LEMMA BudgetsCompare ==
  ASSUME NEW c \in Nat, NEW p \in Nat, NEW h \in Nat, h >= 1, NEW q \in Nat, q >= 1
  PROVE  q * (c + (2 * c) * h) >= q * (c + p * h) <=> p <= 2 * c
<1>1. ASSUME NEW x \in Nat, NEW y \in Nat, NEW z \in Nat, z >= 1
      PROVE  z * x >= z * y <=> x >= y
  <2>1. CASE x >= y
    <3>1. PICK d \in Nat : x = y + d
      <4>1. x - y \in Nat /\ x = y + (x - y)
        BY <2>1
      <4> QED
        BY <4>1
    <3>2. z * x = z * y + z * d /\ z * d \in Nat /\ z * y \in Nat
      BY <3>1
    <3> QED
      BY <2>1, <3>2
  <2>2. CASE ~(x >= y)
    <3>1. PICK d \in Nat : y = x + 1 + d
      <4>1. y - x - 1 \in Nat /\ y = x + 1 + (y - x - 1)
        BY <2>2
      <4> QED
        BY <4>1
    <3>2. z * y = z * x + z + z * d /\ z * d \in Nat /\ z * x \in Nat
      BY <3>1
    <3> QED
      BY <1>1, <2>2, <3>2
  <2> QED
    BY <2>1, <2>2
<1>2. /\ (2 * c) * h \in Nat /\ p * h \in Nat /\ 2 * c \in Nat
      /\ c + (2 * c) * h \in Nat /\ c + p * h \in Nat
  OBVIOUS
<1>3. q * (c + (2 * c) * h) >= q * (c + p * h) <=> c + (2 * c) * h >= c + p * h
  BY <1>1, <1>2
<1>4. c + (2 * c) * h >= c + p * h <=> h * (2 * c) >= h * p
  BY <1>2
<1>5. h * (2 * c) >= h * p <=> 2 * c >= p
  BY <1>1, <1>2
<1> QED
  BY <1>3, <1>4, <1>5

\* A window that shows at most two chunks, and owns some of them, has at most
\* two first children; so a plan of such windows has two for each at most.
LEMMA TwoChildrenEach ==
  ASSUME NEW plan, IsFiniteSet(plan),
         \A window \in plan : /\ window.owns # {} /\ window.owns \subseteq window.shows
                               /\ IsFiniteSet(window.shows) /\ Cardinality(window.shows) <= 2
  PROVE  Cardinality(FirstChildren(plan)) <= 2 * Cardinality(plan)
<1> DEFINE first(window) == CHOOSE piece : piece \in Children(window)
           F == FirstChildren(plan)
           number == [d \in F |-> <<d[1], IF d[2] = first(d[1]) THEN 1 ELSE 2>>]
<1>1. ASSUME NEW window \in plan, NEW one \in Children(window), NEW two \in Children(window),
             NEW three \in Children(window), one # two, one # three, two # three
      PROVE  FALSE
  <2>1. CASE Cardinality(window.shows) = 1
    BY <1>1, <2>1 DEF Children
  <2>2. CASE Cardinality(window.shows) # 1
    <3> DEFINE A == {one}
               B == A \cup {two}
               C == B \cup {three}
    <3>1. C \in SUBSET window.shows
      BY <2>2 DEF Children
    <3>2. IsFiniteSet(A) /\ Cardinality(A) = 1 /\ two \notin A /\ three \notin B
      BY <1>1, FS_Singleton
    <3>7. ASSUME NEW S, IsFiniteSet(S), NEW x, x \notin S
          PROVE  IsFiniteSet(S \cup {x}) /\ Cardinality(S \cup {x}) = Cardinality(S) + 1
      BY <3>7, FS_AddElement
    <3> HIDE DEF A
    <3>8. IsFiniteSet(B) /\ Cardinality(B) = Cardinality(A) + 1
      BY <3>2, <3>7
    <3>3. IsFiniteSet(B) /\ Cardinality(B) = 2
      BY <3>2, <3>8
    <3> HIDE DEF B
    <3>9. Cardinality(C) = Cardinality(B) + 1
      BY <3>2, <3>3, <3>7
    <3>4. Cardinality(C) = 3
      BY <3>3, <3>9
    <3> HIDE DEF C
    <3>5. IsFiniteSet(window.shows) /\ Cardinality(window.shows) <= 2
      OBVIOUS
    <3>6. Cardinality(C) <= Cardinality(window.shows) /\ Cardinality(window.shows) \in Nat
      BY <3>1, <3>5, FS_Subset, FS_CardinalityType
    <3> QED
      BY <3>4, <3>5, <3>6
  <2> QED
    BY <2>1, <2>2
<1>2. \A d : d \in F <=> \E window \in plan : \E piece \in Children(window) : d = <<window, piece>>
  BY DEF FirstChildren
<1>3. ASSUME NEW d \in F
      PROVE  /\ d[1] \in plan /\ d[2] \in Children(d[1]) /\ first(d[1]) \in Children(d[1])
             /\ d = <<d[1], d[2]>>
  BY <1>2
<1> HIDE DEF first, F
<1>4. number \in [F -> plan \X (1..2)]
  BY <1>3
<1>5. ASSUME NEW d \in F, NEW e \in F, number[d] = number[e]
      PROVE  d = e
  <2>1. d[1] = e[1] /\ (d[2] = first(d[1]) <=> e[2] = first(d[1]))
    BY <1>5
  <2>2. d[2] = e[2]
    BY <1>1, <1>3, <2>1
  <2> QED
    BY <1>3, <2>1, <2>2
<1> HIDE DEF number
<1>6. number \in Injection(F, plan \X (1..2))
  BY <1>4, <1>5 DEF Injection, IsInjective
<1>7. IsFiniteSet(1..2) /\ Cardinality(1..2) = 2
  <2>1. /\ 1 \in Int /\ 2 \in Int /\ ~(1 > 2) /\ 2 - 1 + 1 = 2
    OBVIOUS
  <2> QED
    BY <2>1, FS_Interval
<1>8. /\ IsFiniteSet(plan \X (1..2))
      /\ Cardinality(plan \X (1..2)) = Cardinality(plan) * 2
  BY <1>7, FS_Product
<1>9. Cardinality(F) <= Cardinality(plan) * 2
  BY <1>6, <1>8, FS_Injection
<1> QED
  BY <1>9, FS_CardinalityType DEF F

\* The questions about windows, and the answers to them.
WindowsAsked ==
    topic = "windows" =>
        /\ question.chunks \in Positive /\ question.size \in Positive
        /\ question.stride \in Positive /\ question.batch \in Positive
        /\ answered => answer = PlannedWindows(question.chunks, question.size, question.stride,
                                               question.batch)

\* No other topic asks or answers about windows.
LEMMA AlwaysAsked == Spec => []WindowsAsked
<1>1. Init => WindowsAsked
  <2> SUFFICES ASSUME Init, topic = "windows" PROVE WindowsAsked
    BY DEF WindowsAsked
  <2>1. ~AskEvidence /\ ~AskSlice /\ ~AskReview
    BY DEF AskEvidence, AskSlice, AskReview
  <2>2. ~AskEvent /\ ~AskClaim /\ ~AskState /\ ~AskChange /\ ~AskChanges /\ ~AskSignal
    BY DEF AskEvent, AskClaim, AskState, AskChange, AskChanges, AskSignal, Ask
  <2>3. ~AskCall /\ ~AskNegotiation /\ ~AskAdvice
    BY DEF AskCall, AskNegotiation, AskAdvice, Ask
  <2>4. ~AskText /\ ~AskAudit /\ ~AskImport
    BY DEF AskText, AskAudit, AskImport, Ask
  <2>5. ~AskOrder /\ ~AskDraft /\ ~AskPlan
    BY DEF AskOrder, AskDraft, AskPlan, Ask
  <2>6. ~AskPairs /\ ~AskPair /\ ~AskGate3
    BY DEF AskPairs, AskPair, AskGate3, Ask
  <2>7. AskWindows /\ ~answered
    BY <2>1, <2>2, <2>3, <2>4, <2>5, <2>6 DEF Init
  <2> QED
    BY <2>7 DEF AskWindows, WindowsAsked, Positive
<1>2. WindowsAsked /\ [Next]_vars => WindowsAsked'
  <2> SUFFICES ASSUME WindowsAsked, [Next]_vars, topic' = "windows" PROVE WindowsAsked'
    BY DEF WindowsAsked
  <2>1. CASE UNCHANGED vars
    BY <2>1 DEF vars, WindowsAsked
  <2>2. CASE Next
    <3>1. topic = "windows" /\ question' = question
      BY <2>2 DEF Next
    <3>2. ~AnswerEvidence /\ ~AnswerSlice /\ ~AnswerReview
      BY <3>1 DEF AnswerEvidence, AnswerSlice, AnswerReview
    <3>3. /\ ~AnswerEvent /\ ~AnswerClaim /\ ~AnswerState /\ ~AnswerChange /\ ~AnswerChanges
          /\ ~AnswerSignal
      BY <3>1 DEF AnswerEvent, AnswerClaim, AnswerState, AnswerChange, AnswerChanges, AnswerSignal
    <3>4. ~AnswerCall /\ ~AnswerNegotiation /\ ~AnswerAdvice
      BY <3>1 DEF AnswerCall, AnswerNegotiation, AnswerAdvice
    <3>5. ~AnswerText /\ ~AnswerAudit /\ ~AnswerImport
      BY <3>1 DEF AnswerText, AnswerAudit, AnswerImport
    <3>6. ~AnswerOrder /\ ~AnswerDraft /\ ~AnswerPlan
      BY <3>1 DEF AnswerOrder, AnswerDraft, AnswerPlan
    <3>7. ~AnswerPairs /\ ~AnswerPair /\ ~AnswerGate3
      BY <3>1 DEF AnswerPairs, AnswerPair, AnswerGate3
    <3>8. AnswerWindows
      BY <2>2, <3>2, <3>3, <3>4, <3>5, <3>6, <3>7 DEF Next
    <3> QED
      BY <3>1, <3>8 DEF AnswerWindows, WindowsAsked
  <2> QED
    BY <2>1, <2>2
<1> QED
  BY <1>1, <1>2, PTL DEF Spec

\* Every chunk of every planned document is owned by exactly one window, the
\* first of its batch to show it; every window owns a chunk, owns only what it
\* shows, and shows no more than its size (plan_analysis_windows and the owned
\* chunks of a window). The run's max_provider_requests, a binary tree of
\* scopes for every window, pays for all calls and repairs of the windows and
\* what the worker splits them into exactly when they have at most two first
\* children each on average; windows of at most two chunks have.
THEOREM WindowsAreSufficient == Spec => []WindowsSuffice
<1>1. WindowsAsked => WindowsSuffice
  <2> SUFFICES ASSUME WindowsAsked, topic = "windows", answered PROVE WindowsSuffice
    BY DEF WindowsSuffice, EveryChunkOwned, CapPays
  <2> DEFINE n == question.chunks
             w == question.size
  <2>1. /\ n \in Positive /\ w \in Positive
        /\ question.stride \in Positive /\ question.batch \in Positive
        /\ answer = PlannedWindows(n, w, question.stride, question.batch)
    BY DEF WindowsAsked
  <2>2. IsFiniteSet(answer)
    BY <2>1, PlanIsFinite
  <2> HIDE DEF n, w
  <2>3. /\ \A x \in 0..(n - 1) :
             /\ \E owner \in answer : /\ x \in owner.owns
                                     /\ \A other \in answer : x \in other.owns => other = owner
             /\ \A shower, owner \in answer : x \in shower.shows /\ x \in owner.owns =>
                   owner.batch = shower.batch /\ owner.index <= shower.index
        /\ \A window \in answer : /\ window.owns # {} /\ window.owns \subseteq window.shows
                                /\ Cardinality(window.shows) <= w
                                /\ window.shows \subseteq 0..(n - 1)
    BY <2>1, WindowsOwn
  <2>4. ASSUME NEW x \in 0..(n - 1)
        PROVE  Cardinality({window \in answer : x \in window.owns}) = 1
    <3>1. PICK owner \in answer : /\ x \in owner.owns
                                  /\ \A other \in answer : x \in other.owns => other = owner
      BY <2>3
    <3>2. {window \in answer : x \in window.owns} = {owner}
      BY <3>1
    <3> QED
      BY <3>2, FS_Singleton
  <2>5. EveryChunkOwned
    BY <2>3, <2>4 DEF EveryChunkOwned, n, w
  <2>6. IsFiniteSet(FirstChildren(answer))
    <3>1. n - 1 \in Nat /\ \A window \in answer : window.owns \subseteq 0..(n - 1)
      BY <2>1, <2>3 DEF Positive
    <3> QED
      BY <2>2, <3>1, ChildrenFinite
  <2>7. ASSUME NEW attempts \in 1..3, NEW depth \in 0..3
        PROVE  RequestCap(Cardinality(answer), attempts, depth) >= WorstCalls(answer, attempts, depth)
                 <=> depth = 0 \/ Cardinality(FirstChildren(answer)) <= 2 * Cardinality(answer)
    <3> DEFINE c == Cardinality(answer)
               p == Cardinality(FirstChildren(answer))
               k == TreeScopes(depth)
               h == SliceTree(depth - 1)
               scopes == c + (IF depth = 0 THEN 0 ELSE p * h)
    <3>1. c \in Nat /\ p \in Nat
      BY <2>2, <2>6, FS_CardinalityType
    <3>2. /\ RequestCap(c, attempts, depth) = c * k * (attempts + 1)
          /\ WorstCalls(answer, attempts, depth) = (attempts + 1) * scopes
      BY DEF RequestCap, WorstCalls
    <3>3. CASE depth = 0
      <4>1. k = 1
        BY <3>3, TreePaid
      <4> QED
        BY <3>1, <3>2, <3>3, <4>1
    <3>4. CASE depth # 0
      <4>1. depth \in Nat /\ depth - 1 \in Nat
        BY <3>4
      <4>2. k = 1 + 2 * h /\ h \in Nat /\ h >= 1
        BY <3>4, <4>1, TreePaid
      <4> HIDE DEF c, p, k, h
      <4>3. c * k * (attempts + 1) = (attempts + 1) * (c + (2 * c) * h)
        BY <3>1, <4>2
      <4>4. (attempts + 1) * (c + (2 * c) * h) >= (attempts + 1) * (c + p * h) <=> p <= 2 * c
        BY <3>1, <4>2, BudgetsCompare
      <4> QED
        BY <3>2, <3>4, <4>3, <4>4 DEF c, p
    <3> QED
      BY <3>3, <3>4
  <2>8. w <= 2 => Cardinality(FirstChildren(answer)) <= 2 * Cardinality(answer)
    <3> SUFFICES ASSUME w <= 2
                 PROVE  Cardinality(FirstChildren(answer)) <= 2 * Cardinality(answer)
      OBVIOUS
    <3>1. ASSUME NEW window \in answer
          PROVE  /\ window.owns # {} /\ window.owns \subseteq window.shows
                 /\ IsFiniteSet(window.shows) /\ Cardinality(window.shows) <= 2
      <4>1. IsFiniteSet(0..(n - 1))
        BY <2>1, FS_Interval DEF Positive
      <4>2. IsFiniteSet(window.shows)
        BY <2>3, <4>1, FS_Subset
      <4>3. Cardinality(window.shows) \in Nat /\ w \in Nat
        BY <2>1, <4>2, FS_CardinalityType DEF Positive
      <4> QED
        BY <2>3, <4>2, <4>3
    <3> QED
      BY <2>2, <3>1, TwoChildrenEach
  <2>9. CapPays
    BY <2>7, <2>8 DEF CapPays, w
  <2> QED
    BY <2>5, <2>9 DEF WindowsSuffice
<1> QED
  BY <1>1, AlwaysAsked, PTL

(***************************************************************************)
(* Evidence: what is good in the shown beginnings is good in the texts.    *)
(***************************************************************************)

\* The smaller of two numbers.
LEMMA MinOfTwo ==
  ASSUME NEW a \in Int, NEW b \in Int
  PROVE  Min({a, b}) = IF a <= b THEN a ELSE b
BY DEF Min

\* What Python's slice of a text holds.
LEMMA CutHolds ==
  ASSUME NEW C, NEW t \in Seq(C), NEW a \in Nat, NEW b \in Int
  PROVE  LET e == IF b <= Len(t) THEN b ELSE Len(t) IN
           /\ Cut(t, a, b) \in Seq(C)
           /\ Len(Cut(t, a, b)) = IF a <= e THEN e - a ELSE 0
           /\ \A i \in 1..(e - a) : Cut(t, a, b)[i] = t[a + i]
<1> DEFINE e == IF b <= Len(t) THEN b ELSE Len(t)
<1>1. Cut(t, a, b) = SubSeq(t, a + 1, e) /\ e \in Int /\ e <= Len(t) /\ Len(t) \in Nat
  BY MinOfTwo DEF Cut
<1> HIDE DEF e
<1>2. \A i \in (a + 1)..e : t[i] \in C
  BY <1>1
<1>3. /\ SubSeq(t, a + 1, e) \in Seq(C)
      /\ Len(SubSeq(t, a + 1, e)) = IF a + 1 <= e THEN e - (a + 1) + 1 ELSE 0
      /\ \A i \in 1..(e - (a + 1) + 1) : SubSeq(t, a + 1, e)[i] = t[(a + 1) + i - 1]
  <2>1. a + 1 \in Int /\ e \in Int
    BY <1>1
  <2> QED
    BY <1>2, <2>1, SubSeqProperties
<1>4. \A i \in 1..(e - a) : SubSeq(t, a + 1, e)[i] = t[a + i]
  BY <1>1, <1>3
<1>5. Len(SubSeq(t, a + 1, e)) = IF a <= e THEN e - a ELSE 0
  BY <1>1, <1>3
<1> QED
  BY <1>1, <1>3, <1>4, <1>5 DEF e

LEMMA CutInside ==
  ASSUME NEW C, NEW t \in Seq(C), NEW a \in Nat, NEW b \in Nat, a <= b, b <= Len(t)
  PROVE  /\ Cut(t, a, b) \in Seq(C) /\ Len(Cut(t, a, b)) = b - a
         /\ \A i \in 1..(b - a) : Cut(t, a, b)[i] = t[a + i]
<1>1. b \in Int
  OBVIOUS
<1> QED
  BY <1>1, CutHolds

LEMMA ShownHolds ==
  ASSUME NEW C, NEW t \in Seq(C), NEW l \in Int
  PROVE  /\ Cut(t, 0, l) \in Seq(C) /\ Len(Cut(t, 0, l)) \in Nat /\ Len(Cut(t, 0, l)) <= Len(t)
         /\ \A i \in 1..Len(Cut(t, 0, l)) : Cut(t, 0, l)[i] = t[i]
<1>1. 0 \in Nat /\ Len(t) \in Nat
  OBVIOUS
<1>2. LET e == IF l <= Len(t) THEN l ELSE Len(t) IN
        /\ Cut(t, 0, l) \in Seq(C)
        /\ Len(Cut(t, 0, l)) = IF 0 <= e THEN e - 0 ELSE 0
        /\ \A i \in 1..(e - 0) : Cut(t, 0, l)[i] = t[0 + i]
  BY <1>1, CutHolds
<1> QED
  BY <1>1, <1>2

\* Two texts are the same when they have the same characters.
LEMMA SameText ==
  ASSUME NEW C, NEW s \in Seq(C), NEW t \in Seq(C), Len(s) = Len(t),
         \A i \in 1..Len(s) : s[i] = t[i]
  PROVE  s = t
BY SeqEqual

\* The beginning of a text that is shown reads like the text.
LEMMA CutOfBeginning ==
  ASSUME NEW C, NEW t \in Seq(C), NEW l \in Int, NEW a \in Nat, NEW b \in Nat,
         a <= b, b <= Len(Cut(t, 0, l))
  PROVE  b <= Len(t) /\ Cut(Cut(t, 0, l), a, b) = Cut(t, a, b)
<1> DEFINE v == Cut(t, 0, l)
<1>1. /\ v \in Seq(C) /\ Len(v) \in Nat /\ Len(t) \in Nat /\ Len(v) <= Len(t)
      /\ \A i \in 1..Len(v) : v[i] = t[i]
  <2>1. Len(t) \in Nat
    OBVIOUS
  <2> QED
    BY <2>1, ShownHolds
<1> HIDE DEF v
<1>2. b <= Len(v)
  BY DEF v
<1>0. v \in Seq(C) /\ b <= Len(v) /\ b <= Len(t)
  BY <1>1, <1>2
<1>3. /\ Cut(v, a, b) \in Seq(C) /\ Len(Cut(v, a, b)) = b - a
      /\ \A i \in 1..(b - a) : Cut(v, a, b)[i] = v[a + i]
  BY <1>0, CutInside
<1>4. /\ Cut(t, a, b) \in Seq(C) /\ Len(Cut(t, a, b)) = b - a
      /\ \A i \in 1..(b - a) : Cut(t, a, b)[i] = t[a + i]
  BY <1>0, CutInside
<1>5. \A i \in 1..(b - a) : Cut(v, a, b)[i] = Cut(t, a, b)[i]
  BY <1>1, <1>2, <1>3, <1>4
<1>6. Cut(v, a, b) = Cut(t, a, b)
  BY <1>3, <1>4, <1>5, SameText
<1> QED
  BY <1>1, <1>2, <1>6 DEF v

\* Where a quote starts in a text.
LEMMA StartsWhere ==
  ASSUME NEW C, NEW t \in Seq(C), NEW q \in Seq(C)
  PROVE  /\ \A s : s \in Starts(t, q) <=> s \in Nat /\ s + Len(q) <= Len(t) /\ Cut(t, s, s + Len(q)) = q
         /\ Starts(t, q) \in SUBSET Nat /\ IsFiniteSet(Starts(t, q))
<1>1. \A s : s \in Starts(t, q) <=> s \in Nat /\ s + Len(q) <= Len(t) /\ Cut(t, s, s + Len(q)) = q
  <2>1. Len(t) \in Nat /\ Len(q) \in Nat
    OBVIOUS
  <2> QED
    BY <2>1 DEF Starts
<1>2. Starts(t, q) \subseteq 0..Len(t) /\ Len(t) \in Nat
  <2>1. Len(t) \in Nat /\ Len(q) \in Nat
    OBVIOUS
  <2> QED
    BY <1>1, <2>1
<1>3. IsFiniteSet(0..Len(t))
  <2>1. 0 \in Int /\ Len(t) \in Int
    BY <1>2
  <2> QED
    BY <2>1, FS_Interval
<1> QED
  BY <1>1, <1>2, <1>3, FS_Subset

\* What occurs in the beginning that is shown occurs in the text, and the empty quote anywhere.
LEMMA OccursStill ==
  ASSUME NEW C, NEW t \in Seq(C), NEW q \in Seq(C), NEW l \in Int
  PROVE  /\ Starts(Cut(t, 0, l), q) \subseteq Starts(t, q)
         /\ Occurs(q, Cut(t, 0, l)) => Occurs(q, t)
<1>1. Cut(t, 0, l) \in Seq(C) /\ Len(q) \in Nat
  BY ShownHolds
<1>2. ASSUME NEW s \in Starts(Cut(t, 0, l), q) PROVE s \in Starts(t, q)
  <2>1. s \in Nat /\ s + Len(q) <= Len(Cut(t, 0, l)) /\ Cut(Cut(t, 0, l), s, s + Len(q)) = q
    BY <1>1, <1>2, StartsWhere
  <2>2. s + Len(q) \in Nat /\ s <= s + Len(q)
    BY <1>1, <2>1
  <2>3. s + Len(q) <= Len(t) /\ Cut(t, s, s + Len(q)) = q
    BY <2>1, <2>2, CutOfBeginning
  <2> QED
    BY <2>1, <2>3, StartsWhere
<1> QED
  BY <1>2 DEF Occurs

LEMMA EmptyOccurs ==
  ASSUME NEW C, NEW t \in Seq(C)
  PROVE  Occurs(<<>>, t)
<1>1. <<>> \in Seq(C) /\ Len(<<>>) = 0 /\ Len(t) \in Nat
  OBVIOUS
<1>2. Cut(t, 0, 0) = <<>>
  <2>1. Cut(t, 0, 0) \in Seq(C) /\ Len(Cut(t, 0, 0)) = 0
    <3>1. 0 \in Nat /\ 0 <= 0 /\ 0 <= Len(t)
      BY <1>1
    <3> QED
      BY <3>1, CutInside
  <2> QED
    BY <1>1, <2>1
<1>3. 0 \in Starts(t, <<>>)
  <2>1. 0 \in Nat /\ 0 + Len(<<>>) <= Len(t) /\ Cut(t, 0, 0 + Len(<<>>)) = <<>>
    BY <1>1, <1>2
  <2> HIDE DEF Occurs
  <2> QED
    BY <1>1, <2>1, StartsWhere
<1> QED
  BY <1>3 DEF Occurs

\* References to chunks of K, and views on some of them, over an alphabet.
RefsOf(K, C) ==
    {ref \in [chunk : K, start : Int, stop : Int, quote : Seq(C)] :
        /\ (ref.start = Absent) <=> (ref.stop = Absent)
        /\ ref.start # Absent => ref.start \in Nat /\ ref.stop > ref.start}

IsView(view, K, C) ==
    /\ DOMAIN view \subseteq K /\ IsFiniteSet(DOMAIN view)
    /\ \A c \in DOMAIN view : view[c] \in Seq(C)

LEMMA RefHas ==
  ASSUME NEW K, NEW C, NEW ref \in RefsOf(K, C)
  PROVE  /\ ref \in [chunk : K, start : Int, stop : Int, quote : Seq(C)]
         /\ ref.chunk \in K /\ ref.start \in Int /\ ref.stop \in Int /\ ref.quote \in Seq(C)
         /\ Ranged(ref) => ref.start \in Nat /\ ref.stop \in Nat /\ ref.start < ref.stop
         /\ ~Ranged(ref) => ref.start = Absent /\ ref.stop = Absent
         /\ Quoted(ref) => Len(ref.quote) \in Nat /\ Len(ref.quote) > 0
BY DEF RefsOf, Ranged, Quoted, Absent

\* Offsets put right: they fit, or are left out; what fitted is left alone.
LEMMA RebasedFits ==
  ASSUME NEW K, NEW C, NEW ref \in RefsOf(K, C), NEW text \in Seq(C), Quoted(ref)
  PROVE  LET r == Rebased(ref, text) IN
           /\ r \in RefsOf(K, C) /\ r.chunk = ref.chunk /\ r.quote = ref.quote
           /\ Ranged(r) => RangeFits(r, text)
           /\ ~Ranged(ref) \/ RangeFits(ref, text) => r = ref
<1> DEFINE r == Rebased(ref, text)
           S == Starts(text, ref.quote)
<1>1. CASE ~Ranged(ref) \/ RangeFits(ref, text)
  <2>1. r = ref
    BY <1>1 DEF Rebased
  <2> QED
    BY <1>1, <2>1
<1>2. CASE Ranged(ref) /\ ~RangeFits(ref, text) /\ Cardinality(S) = 1
  <2>0. ref.quote \in Seq(C) /\ IsFiniteSet(S) /\ Len(ref.quote) \in Nat /\ Len(ref.quote) > 0
    BY RefHas, StartsWhere
  <2>1. PICK at : S = {at}
    BY <1>2, <2>0, FS_Singleton
  <2>2. (CHOOSE s \in S : TRUE) = at
    BY <2>1
  <2>3. r = [ref EXCEPT !.start = at, !.stop = at + Len(ref.quote)]
    BY <1>2, <2>2 DEF Rebased
  <2>4. at \in Nat /\ at + Len(ref.quote) <= Len(text) /\ Cut(text, at, at + Len(ref.quote)) = ref.quote
    BY <2>0, <2>1, StartsWhere
  <2> HIDE DEF r, S
  <2>5. /\ r \in [chunk : K, start : Int, stop : Int, quote : Seq(C)]
        /\ r.chunk = ref.chunk /\ r.quote = ref.quote
        /\ r.start = at /\ r.stop = at + Len(ref.quote)
    <3>1. ref \in [chunk : K, start : Int, stop : Int, quote : Seq(C)]
      BY RefHas
    <3>2. at \in Int /\ at + Len(ref.quote) \in Int
      BY <2>0, <2>4
    <3> QED
      BY <2>3, <3>1, <3>2
  <2>6. r \in RefsOf(K, C)
    BY <2>0, <2>4, <2>5 DEF RefsOf, Absent
  <2>7. RangeFits(r, text)
    BY <2>4, <2>5 DEF RangeFits
  <2>8. ~(~Ranged(ref) \/ RangeFits(ref, text))
    BY <1>2
  <2> QED
    BY <2>5, <2>6, <2>7, <2>8 DEF r
<1>3. CASE Ranged(ref) /\ ~RangeFits(ref, text) /\ Cardinality(S) # 1
  <2>1. r = [ref EXCEPT !.start = Absent, !.stop = Absent]
    BY <1>3 DEF Rebased
  <2> HIDE DEF r
  <2>2. /\ r \in [chunk : K, start : Int, stop : Int, quote : Seq(C)]
        /\ r.chunk = ref.chunk /\ r.quote = ref.quote
        /\ r.start = Absent /\ r.stop = Absent
    <3>1. ref \in [chunk : K, start : Int, stop : Int, quote : Seq(C)] /\ Absent \in Int
      BY RefHas DEF Absent
    <3> QED
      BY <2>1, <3>1
  <2>3. r \in RefsOf(K, C) /\ ~Ranged(r)
    BY <2>2 DEF RefsOf, Ranged
  <2> QED
    BY <1>3, <2>2, <2>3 DEF r
<1> QED
  BY <1>1, <1>2, <1>3

\* The chunk of a quote put right.
LEMMA ReboundFits ==
  ASSUME NEW K, NEW C, NEW ref \in RefsOf(K, C), NEW view, IsView(view, K, C)
  PROVE  LET r == Rebound(ref, view) IN
           /\ r \in RefsOf(K, C) /\ r.quote = ref.quote /\ r.start = ref.start /\ r.stop = ref.stop
           /\ ref.chunk \in Matching(ref, view) => r = ref
           /\ r.chunk \notin Matching(ref, view) =>
                 r = ref /\ Cardinality(Matching(ref, view)) # 1
<1> DEFINE r == Rebound(ref, view)
           M == Matching(ref, view)
<1>1. CASE ref.chunk \notin M /\ Cardinality(M) = 1
  <2>0. IsFiniteSet(M) /\ M \subseteq K
    BY FS_Subset DEF IsView, Matching
  <2>1. PICK c : M = {c}
    BY <1>1, <2>0, FS_Singleton
  <2>2. (CHOOSE x \in M : TRUE) = c /\ c \in K /\ c \in M
    BY <2>0, <2>1
  <2>3. r = [ref EXCEPT !.chunk = c]
    BY <1>1, <2>2 DEF Rebound
  <2> HIDE DEF r, M
  <2>4. /\ r \in [chunk : K, start : Int, stop : Int, quote : Seq(C)] /\ r.chunk = c
        /\ r.quote = ref.quote /\ r.start = ref.start /\ r.stop = ref.stop
    BY <2>2, <2>3, RefHas
  <2>5. r \in RefsOf(K, C)
    BY <2>4 DEF RefsOf
  <2> QED
    BY <1>1, <2>2, <2>4, <2>5 DEF r, M
<1>2. CASE ~(ref.chunk \notin M /\ Cardinality(M) = 1)
  <2>1. r = ref
    BY <1>2 DEF Rebound
  <2> QED
    BY <1>2, <2>1
<1> QED
  BY <1>1, <1>2

\* What the window makes of a reference.
LEMMA NormalisedFits ==
  ASSUME NEW K, NEW C, NEW ref \in RefsOf(K, C), NEW view, IsView(view, K, C)
  PROVE  LET r == Normalised(ref, view)
             M == Matching(ref, view) IN
           /\ r \in RefsOf(K, C) /\ r.quote = ref.quote /\ Matching(r, view) = M
           /\ r.chunk = Rebound(ref, view).chunk
           /\ r.chunk \notin M => r = ref /\ Cardinality(M) # 1
           /\ Quoted(ref) /\ r.chunk \in M /\ Ranged(r) => RangeFits(r, view[r.chunk])
           /\ ref.chunk \in M /\ (~Quoted(ref) \/ ~Ranged(ref) \/ RangeFits(ref, view[ref.chunk]))
                 => r = ref
           /\ ~Quoted(ref) => r = Rebound(ref, view)
<1> DEFINE r == Normalised(ref, view)
           M == Matching(ref, view)
           bound == Rebound(ref, view)
<1>1. /\ bound \in RefsOf(K, C) /\ bound.quote = ref.quote /\ bound.start = ref.start
      /\ bound.stop = ref.stop
      /\ ref.chunk \in M => bound = ref
      /\ bound.chunk \notin M => bound = ref /\ Cardinality(M) # 1
  BY ReboundFits
<1>2. r = IF Quoted(ref) /\ bound.chunk \in M THEN Rebased(bound, view[bound.chunk]) ELSE bound
  BY DEF Normalised
<1>3. M \subseteq DOMAIN view
  BY DEF Matching
<1>4. Quoted(bound) = Quoted(ref) /\ \A q : q.quote = ref.quote => Matching(q, view) = M
  BY <1>1 DEF Quoted, Matching
<1> HIDE DEF bound, r, M
<1>5. CASE Quoted(ref) /\ bound.chunk \in M
  <2>0. view[bound.chunk] \in Seq(C) /\ Quoted(bound)
    BY <1>3, <1>4, <1>5 DEF IsView
  <2>1. /\ r \in RefsOf(K, C) /\ r.chunk = bound.chunk /\ r.quote = bound.quote
        /\ Ranged(r) => RangeFits(r, view[bound.chunk])
        /\ ~Ranged(bound) \/ RangeFits(bound, view[bound.chunk]) => r = bound
    BY <1>1, <1>2, <1>5, <2>0, RebasedFits
  <2> QED
    BY <1>1, <1>4, <1>5, <2>1 DEF r, M, bound
<1>6. CASE ~(Quoted(ref) /\ bound.chunk \in M)
  BY <1>1, <1>2, <1>4, <1>6 DEF r, M, bound
<1> QED
  BY <1>5, <1>6

\* What a window asks of a reference before it passes it.
Good(ref, view) ==
    /\ ref.chunk \in DOMAIN view
    /\ Quoted(ref) => Occurs(ref.quote, view[ref.chunk])
    /\ Ranged(ref) => /\ ref.stop <= Len(view[ref.chunk])
                      /\ Quoted(ref) => RangeFits(ref, view[ref.chunk])

LEMMA WindowJudges ==
  ASSUME NEW ref, NEW view
  PROVE  /\ Validated(ref, view).passed <=> Good(ref, view)
         /\ ValidatedAll({ref}, view).passed <=> Good(ref, view)
         /\ ValidatedAll({ref}, view).quote # "false" /\ Quoted(ref) =>
               ref.chunk \in DOMAIN view /\ Occurs(ref.quote, view[ref.chunk])
<1> DEFINE v == Validated(ref, view)
<1>1. v.passed <=> Good(ref, view)
  BY DEF Validated, Good
<1>2. v.quote \in {"none", "true", "false"} /\ v.range \in {"none", "true", "false"}
  BY DEF Validated
<1>3. v.quote # "false" /\ Quoted(ref) => ref.chunk \in DOMAIN view /\ Occurs(ref.quote, view[ref.chunk])
  BY DEF Validated
<1> HIDE DEF v
<1>4. {Validated(r, view) : r \in {ref}} = {v}
  BY DEF v
<1>5. {result.quote : result \in {v}} = {v.quote}
  OBVIOUS
<1>6. Combined({v.quote}) = v.quote
  BY <1>2 DEF Combined
<1>7. ValidatedAll({ref}, view).passed <=> v.passed
  BY <1>4 DEF ValidatedAll
<1>8. ValidatedAll({ref}, view).quote = v.quote
  BY <1>4, <1>5, <1>6 DEF ValidatedAll
<1> QED
  BY <1>1, <1>3, <1>7, <1>8 DEF v

\* A range that fits shows that the quote occurs.
LEMMA FitOccurs ==
  ASSUME NEW K, NEW C, NEW ref \in RefsOf(K, C), NEW text \in Seq(C), Ranged(ref), RangeFits(ref, text)
  PROVE  ref.start \in Starts(text, ref.quote) /\ Occurs(ref.quote, text)
<1>1. /\ ref.start \in Nat /\ ref.stop \in Nat /\ ref.start < ref.stop /\ ref.quote \in Seq(C)
      /\ ref.stop <= Len(text) /\ Cut(text, ref.start, ref.stop) = ref.quote
  BY RefHas DEF RangeFits
<1>2. Len(ref.quote) = ref.stop - ref.start
  <2>1. ref.start <= ref.stop
    BY <1>1
  <2>2. Len(Cut(text, ref.start, ref.stop)) = ref.stop - ref.start
    BY <1>1, <2>1, CutInside
  <2> QED
    BY <1>1, <2>2
<1>3. ref.start + Len(ref.quote) = ref.stop
  BY <1>1, <1>2
<1>4. ref.start \in Starts(text, ref.quote)
  BY <1>1, <1>3, StartsWhere
<1> QED
  BY <1>4 DEF Occurs

\* What is shown of texts is a view, and what is good there is good in the texts.
LEMMA VisibleIs ==
  ASSUME NEW K, NEW C, NEW texts, IsView(texts, K, C), NEW l \in Int
  PROVE  /\ IsView(Visible(texts, l), K, C) /\ DOMAIN Visible(texts, l) = DOMAIN texts
         /\ \A c \in DOMAIN texts : Visible(texts, l)[c] = Cut(texts[c], 0, l)
<1>1. /\ DOMAIN Visible(texts, l) = DOMAIN texts
      /\ \A c \in DOMAIN texts : Visible(texts, l)[c] = Cut(texts[c], 0, l)
  BY DEF Visible
<1>2. \A c \in DOMAIN texts : Visible(texts, l)[c] \in Seq(C)
  <2> SUFFICES ASSUME NEW c \in DOMAIN texts PROVE Visible(texts, l)[c] \in Seq(C)
    OBVIOUS
  <2>1. texts[c] \in Seq(C)
    BY DEF IsView
  <2>2. Cut(texts[c], 0, l) \in Seq(C)
    BY <2>1, ShownHolds
  <2> QED
    BY <1>1, <2>2
<1> QED
  BY <1>1, <1>2 DEF IsView

LEMMA GoodStill ==
  ASSUME NEW K, NEW C, NEW texts, IsView(texts, K, C), NEW l \in Int, NEW ref \in RefsOf(K, C),
         Good(ref, Visible(texts, l)), Quoted(ref)
  PROVE  /\ ref.chunk \in DOMAIN texts /\ Occurs(ref.quote, texts[ref.chunk])
         /\ Ranged(ref) => RangeFits(ref, texts[ref.chunk])
<1> DEFINE view == Visible(texts, l)
           text == texts[ref.chunk]
<1>1. ref.chunk \in DOMAIN texts /\ view[ref.chunk] = Cut(text, 0, l) /\ text \in Seq(C)
  <2>1. DOMAIN view = DOMAIN texts /\ \A c \in DOMAIN texts : view[c] = Cut(texts[c], 0, l)
    BY VisibleIs
  <2>2. ref.chunk \in DOMAIN view
    BY DEF Good
  <2>3. \A c \in DOMAIN texts : texts[c] \in Seq(C)
    BY DEF IsView
  <2> QED
    BY <2>1, <2>2, <2>3
<1>2. Occurs(ref.quote, Cut(text, 0, l)) /\ (Ranged(ref) => RangeFits(ref, Cut(text, 0, l)))
  BY <1>1 DEF Good
<1> HIDE DEF view, text
<1>3. ref.quote \in Seq(C)
  BY RefHas
<1>4. Occurs(ref.quote, text)
  BY <1>1, <1>2, <1>3, OccursStill
<1>5. ASSUME Ranged(ref) PROVE RangeFits(ref, text)
  <2>1. ref.start \in Nat /\ ref.stop \in Nat /\ ref.start <= ref.stop
    BY <1>5, RefHas
  <2>2. ref.stop <= Len(Cut(text, 0, l)) /\ Cut(Cut(text, 0, l), ref.start, ref.stop) = ref.quote
    BY <1>2, <1>5 DEF RangeFits
  <2>3. ref.stop <= Len(text) /\ Cut(Cut(text, 0, l), ref.start, ref.stop) = Cut(text, ref.start, ref.stop)
    BY <1>1, <2>1, <2>2, CutOfBeginning
  <2> QED
    BY <2>2, <2>3 DEF RangeFits
<1> QED
  BY <1>1, <1>4, <1>5 DEF text

\* What is quoted and good in the texts has no issue anywhere.
LEMMA GoodEverywhere ==
  ASSUME NEW ref, NEW texts, ref.chunk \in DOMAIN texts, Quoted(ref),
         Occurs(ref.quote, texts[ref.chunk]), Ranged(ref) => RangeFits(ref, texts[ref.chunk]),
         ref.stop \in Int
  PROVE  /\ EvidenceIssues(ref, texts) = {} /\ Accepted(ref, texts) /\ InScope(ref, texts)
         /\ Groundable(ref, texts)
<1>1. Ranged(ref) => ref.stop <= Len(texts[ref.chunk]) /\ ~(ref.stop > Len(texts[ref.chunk]))
  BY DEF RangeFits
<1>2. EvidenceIssues(ref, texts) = {}
  BY <1>1 DEF EvidenceIssues
<1>3. Accepted(ref, texts) /\ InScope(ref, texts)
  BY <1>1 DEF Accepted, InScope
<1> QED
  BY <1>2, <1>3 DEF Groundable

\* What an agent lets through passes, and what passes is good in the texts.
LEMMA EvidenceKept ==
  ASSUME NEW K, NEW C, NEW texts, IsView(texts, K, C), NEW l \in Int, NEW ref \in RefsOf(K, C),
         NEW view, view = Visible(texts, l), NEW kept, kept = Normalised(ref, view)
  PROVE  /\ Bindable(ref, view) => Good(kept, view)
         /\ Good(kept, view) /\ Quoted(ref) =>
                /\ EvidenceIssues(kept, texts) = {}
                /\ Accepted(kept, texts)
                /\ InScope(kept, texts)
                /\ Groundable(kept, texts)
<1> DEFINE M == Matching(ref, view)
<1>1. IsView(view, K, C) /\ M \subseteq DOMAIN view
  BY VisibleIs DEF Matching
<1>2. /\ kept \in RefsOf(K, C) /\ kept.quote = ref.quote
      /\ kept.chunk \notin M => kept = ref /\ Cardinality(M) # 1
      /\ Quoted(ref) /\ kept.chunk \in M /\ Ranged(kept) => RangeFits(kept, view[kept.chunk])
  BY <1>1, NormalisedFits
<1>3. ASSUME Bindable(ref, view) PROVE Good(kept, view)
  <2>1. kept.chunk \in M /\ Quoted(ref)
    BY <1>2, <1>3 DEF Bindable
  <2>2. kept.chunk \in DOMAIN view /\ Occurs(kept.quote, view[kept.chunk])
    BY <1>2, <2>1 DEF Matching
  <2>3. Ranged(kept) => RangeFits(kept, view[kept.chunk])
    BY <1>2, <2>1
  <2> QED
    BY <2>2, <2>3 DEF Good, RangeFits
<1>4. ASSUME Good(kept, view), Quoted(ref)
      PROVE  /\ EvidenceIssues(kept, texts) = {} /\ Accepted(kept, texts)
             /\ InScope(kept, texts) /\ Groundable(kept, texts)
  <2>1. Quoted(kept) /\ kept.stop \in Int
    BY <1>2, <1>4, RefHas DEF Quoted
  <2>2. /\ kept.chunk \in DOMAIN texts /\ Occurs(kept.quote, texts[kept.chunk])
        /\ Ranged(kept) => RangeFits(kept, texts[kept.chunk])
    BY <1>2, <1>4, <2>1, GoodStill
  <2> QED
    BY <2>1, <2>2, GoodEverywhere
<1> QED
  BY <1>3, <1>4

LEMMA KeptOnce ==
  ASSUME NEW K, NEW C, NEW ref \in RefsOf(K, C), NEW view, IsView(view, K, C),
         NEW kept, kept = Normalised(ref, view)
  PROVE  /\ Normalised(kept, view) = kept
         /\ Good(ref, view) => kept = ref
         /\ kept.quote = ref.quote
<1> DEFINE M == Matching(ref, view)
<1>1. /\ kept \in RefsOf(K, C) /\ kept.quote = ref.quote /\ Matching(kept, view) = M
      /\ kept.chunk \notin M => kept = ref
      /\ Quoted(ref) /\ kept.chunk \in M /\ Ranged(kept) => RangeFits(kept, view[kept.chunk])
      /\ ref.chunk \in M /\ (~Quoted(ref) \/ ~Ranged(ref) \/ RangeFits(ref, view[ref.chunk]))
            => kept = ref
  BY NormalisedFits
<1>2. ASSUME kept.chunk \notin M PROVE Normalised(kept, view) = kept
  BY <1>1, <1>2
<1>3. ASSUME kept.chunk \in M PROVE Normalised(kept, view) = kept
  <2>1. ~Quoted(kept) \/ ~Ranged(kept) \/ RangeFits(kept, view[kept.chunk])
    BY <1>1, <1>3 DEF Quoted
  <2>2. kept.chunk \in Matching(kept, view)
    BY <1>1, <1>3
  <2>3. kept \in RefsOf(K, C)
    BY <1>1
  <2>4. Normalised(kept, view) = kept
    BY <2>1, <2>2, <2>3, NormalisedFits
  <2> QED
    BY <1>1, <2>4
<1>4. ASSUME Good(ref, view) PROVE kept = ref
  <2>1. ref.chunk \in DOMAIN view /\ view[ref.chunk] \in Seq(C)
    BY <1>4 DEF Good, IsView
  <2>2. Occurs(ref.quote, view[ref.chunk])
    <3>1. CASE Quoted(ref)
      BY <1>4, <3>1 DEF Good
    <3>2. CASE ~Quoted(ref)
      BY <2>1, <3>2, EmptyOccurs DEF Quoted
    <3> QED
      BY <3>1, <3>2
  <2>3. ref.chunk \in M
    BY <2>1, <2>2 DEF Matching
  <2>4. ~Quoted(ref) \/ ~Ranged(ref) \/ RangeFits(ref, view[ref.chunk])
    BY <1>4 DEF Good
  <2> QED
    BY <1>1, <2>3, <2>4
<1> QED
  BY <1>1, <1>2, <1>3, <1>4

LEMMA GroundedFits ==
  ASSUME NEW K, NEW C, NEW texts, IsView(texts, K, C), NEW ref \in RefsOf(K, C),
         Groundable(ref, texts), NEW grounded, grounded = Grounded(ref, texts)
  PROVE  /\ Accepted(grounded, texts) /\ EvidenceIssues(grounded, texts) = {}
         /\ Ranged(ref) => grounded.start = ref.start
         /\ Grounded(grounded, texts) = grounded
<1> DEFINE text == texts[ref.chunk]
<1>0. ref.chunk \in DOMAIN texts /\ text \in Seq(C) /\ Len(text) \in Nat
  <2>1. ref.chunk \in DOMAIN texts /\ texts[ref.chunk] \in Seq(C)
    BY DEF Groundable, Accepted, IsView
  <2> QED
    BY <2>1
<1>1. /\ grounded \in RefsOf(K, C) /\ grounded.chunk = ref.chunk
      /\ Ranged(grounded) /\ Quoted(grounded) /\ RangeFits(grounded, text)
      /\ Ranged(ref) => grounded.start = ref.start
  <2>0. ref \in [chunk : K, start : Int, stop : Int, quote : Seq(C)] /\ ref.quote \in Seq(C)
    BY RefHas
  <2>1. CASE Ranged(ref)
    <3>1. ref.start \in Nat /\ ref.stop \in Nat /\ ref.start < ref.stop /\ ref.stop <= Len(text)
      BY <2>1, RefHas DEF Groundable, Accepted
    <3>2. Cut(text, ref.start, ref.stop) \in Seq(C)
          /\ Len(Cut(text, ref.start, ref.stop)) = ref.stop - ref.start
      <4> DEFINE s == ref.start
                 e == ref.stop
      <4>1. s \in Nat /\ e \in Nat /\ s <= e /\ e <= Len(text) /\ text \in Seq(C)
        BY <1>0, <3>1
      <4> HIDE DEF text, s, e
      <4>2. Cut(text, s, e) \in Seq(C) /\ Len(Cut(text, s, e)) = e - s
        BY <4>1, CutInside
      <4> QED
        BY <4>2 DEF s, e
    <3>3. grounded = [ref EXCEPT !.quote = Cut(text, ref.start, ref.stop)]
      BY <2>1 DEF Grounded
    <3> HIDE DEF text
    <3>4. /\ grounded \in [chunk : K, start : Int, stop : Int, quote : Seq(C)]
          /\ grounded.chunk = ref.chunk /\ grounded.start = ref.start /\ grounded.stop = ref.stop
          /\ grounded.quote = Cut(text, ref.start, ref.stop)
      BY <2>0, <3>2, <3>3
    <3>5. grounded.quote # <<>>
      BY <3>1, <3>2, <3>4
    <3>6. grounded \in RefsOf(K, C)
      BY <3>1, <3>4 DEF RefsOf, Absent
    <3> QED
      BY <2>1, <3>1, <3>4, <3>5, <3>6 DEF Ranged, Quoted, RangeFits
  <2>2. CASE ~Ranged(ref)
    <3> DEFINE S == Starts(text, ref.quote)
    <3>1. Quoted(ref) /\ S # {}
      BY <2>2 DEF Groundable, Accepted, Occurs
    <3>2. S \in SUBSET Nat
      BY <1>0, <2>0, StartsWhere
    <3>3. Len(ref.quote) \in Nat /\ Len(ref.quote) > 0
      BY <3>1, RefHas
    <3>4. PICK at \in S : \A y \in S : at <= y
      <4> HIDE DEF S
      <4> QED
        BY <3>1, <3>2, LeastOf
    <3>5. Min(S) = at
      <4>1. S \in SUBSET Int
        BY <3>2
      <4> HIDE DEF S
      <4> QED
        BY <3>4, <4>1, LeastIs
    <3>6. at \in Nat /\ at + Len(ref.quote) <= Len(text) /\ Cut(text, at, at + Len(ref.quote)) = ref.quote
      BY <1>0, <2>0, <3>4, StartsWhere
    <3>7. grounded = [ref EXCEPT !.start = at, !.stop = at + Len(ref.quote)]
      BY <2>2, <3>5 DEF Grounded
    <3> HIDE DEF text, S
    <3>8. at \in Int /\ at + Len(ref.quote) \in Int /\ at + Len(ref.quote) > at
      BY <3>3, <3>6
    <3>9. /\ grounded \in [chunk : K, start : Int, stop : Int, quote : Seq(C)]
          /\ grounded.chunk = ref.chunk /\ grounded.start = at
          /\ grounded.stop = at + Len(ref.quote) /\ grounded.quote = ref.quote
      BY <2>0, <3>7, <3>8
    <3>10. grounded \in RefsOf(K, C)
      BY <3>6, <3>8, <3>9 DEF RefsOf, Absent
    <3> QED
      BY <2>2, <3>1, <3>6, <3>9, <3>10 DEF Ranged, Quoted, RangeFits, Absent
  <2> QED
    BY <2>1, <2>2
<1> HIDE DEF text
<1>2. Occurs(grounded.quote, text)
  BY <1>0, <1>1, FitOccurs
<1>3. /\ grounded.chunk \in DOMAIN texts /\ Quoted(grounded)
      /\ Occurs(grounded.quote, texts[grounded.chunk])
      /\ Ranged(grounded) => RangeFits(grounded, texts[grounded.chunk])
      /\ grounded.stop \in Int
  BY <1>0, <1>1, <1>2, RefHas DEF text
<1>4. Accepted(grounded, texts) /\ EvidenceIssues(grounded, texts) = {}
  BY <1>3, GoodEverywhere
<1>5. Grounded(grounded, texts) = [grounded EXCEPT !.quote = Cut(text, grounded.start, grounded.stop)]
  BY <1>1 DEF Grounded, text
<1>6. Cut(text, grounded.start, grounded.stop) = grounded.quote
  BY <1>1 DEF RangeFits
<1>7. grounded \in [chunk : K, start : Int, stop : Int, quote : Seq(C)]
  BY <1>1, RefHas
<1>8. Grounded(grounded, texts) = grounded
  BY <1>5, <1>6, <1>7
<1> QED
  BY <1>1, <1>4, <1>8

LEMMA FailureTold ==
  ASSUME NEW view, NEW kept, NEW window, window = ValidatedAll({kept}, view)
  PROVE  LET failure == EvidenceFailure(window) IN
           /\ failure = "none" <=> window.passed
           /\ failure = "CHAR_RANGE_NOT_MATCHED" =>
                \A c \in DOMAIN view : c = kept.chunk /\ Quoted(kept) => Occurs(kept.quote, view[c])
<1>1. window.passed \in BOOLEAN
  BY DEF ValidatedAll
<1>2. EvidenceFailure(window) = "none" <=> window.passed
  BY <1>1 DEF EvidenceFailure
<1>3. EvidenceFailure(window) = "CHAR_RANGE_NOT_MATCHED" => window.quote # "false"
  BY <1>1 DEF EvidenceFailure
<1>4. window.quote # "false" /\ Quoted(kept) =>
         kept.chunk \in DOMAIN view /\ Occurs(kept.quote, view[kept.chunk])
  BY WindowJudges
<1> QED
  BY <1>2, <1>3, <1>4

\* Both slices keep the minimum.
LEMMA MidpointKeeps ==
  ASSUME NEW text, NEW start \in Nat, NEW stop \in Nat, NEW minimum \in Nat, minimum > 0,
         NEW natural \in BOOLEAN, CanSlice(start, stop, minimum)
  PROVE  Midpoint(text, start, stop, minimum, natural) \in (start + minimum)..(stop - minimum)
<1> DEFINE middle == start + (stop - start) \div 2
           away(at) == IF at < middle THEN middle - at ELSE at - middle
           ends == {at \in (start + minimum)..(stop - minimum) : text[at] = Boundary}
           nearest == {at \in ends : \A other \in ends : away(at) <= away(other)}
<1>1. middle \in (start + minimum)..(stop - minimum) /\ middle \in Nat
  BY DEF CanSlice
<1>2. Midpoint(text, start, stop, minimum, natural) = IF natural /\ ends # {} THEN Min(nearest) ELSE middle
  BY DEF Midpoint
<1>3. ends \subseteq (start + minimum)..(stop - minimum) /\ ends \in SUBSET Nat /\ nearest \subseteq ends
  OBVIOUS
<1>4. \A at \in ends : away(at) \in Nat
  BY <1>1, <1>3
<1>5. ASSUME ends # {} PROVE Min(nearest) \in nearest
  <2> DEFINE D == {away(at) : at \in ends}
  <2>1. D \in SUBSET Nat /\ D # {}
    BY <1>4, <1>5
  <2>2. PICK d \in D : \A u \in D : d <= u
    <3> HIDE DEF D
    <3> QED
      BY <2>1, LeastOf
  <2>3. PICK at \in ends : d = away(at)
    OBVIOUS
  <2>4. at \in nearest
    BY <2>2, <2>3
  <2>5. nearest \in SUBSET Nat /\ nearest # {}
    BY <1>3, <2>4
  <2> HIDE DEF nearest
  <2> QED
    BY <2>5, MinIn
<1> HIDE DEF nearest, ends, middle
<1>6. CASE natural /\ ends # {}
  BY <1>2, <1>3, <1>5, <1>6
<1>7. CASE ~(natural /\ ends # {})
  BY <1>1, <1>2, <1>7
<1> QED
  BY <1>6, <1>7

LEMMA CutIs ==
  ASSUME NEW C, NEW text \in Seq(C), NEW a \in Nat, NEW b \in Nat, b <= Len(text)
  PROVE  Cut(text, a, b) = SubSeq(text, a + 1, b)
<1>1. Len(text) \in Nat /\ b \in Int
  OBVIOUS
<1>2. Min({b, Len(text)}) = b
  BY <1>1, MinOfTwo
<1> QED
  BY <1>2 DEF Cut

LEMMA CutsJoin ==
  ASSUME NEW C, NEW text \in Seq(C), NEW start \in Nat, NEW middle \in Nat,
         start <= middle, middle <= Len(text)
  PROVE  Cut(text, start, middle) \o Cut(text, middle, Len(text)) = Cut(text, start, Len(text))
<1>0. Len(text) \in Nat
  OBVIOUS
<1>2. /\ start + 1 \in 1..(Len(text) + 1) /\ middle \in ((start + 1) - 1)..Len(text)
      /\ Len(text) \in middle..Len(text)
  BY <1>0
<1>4. /\ Cut(text, start, middle) = SubSeq(text, start + 1, middle)
      /\ Cut(text, middle, Len(text)) = SubSeq(text, middle + 1, Len(text))
      /\ Cut(text, start, Len(text)) = SubSeq(text, start + 1, Len(text))
  <2>1. Cut(text, start, middle) = SubSeq(text, start + 1, middle)
    BY CutIs
  <2> DEFINE n == Len(text)
  <2>2. n \in Nat /\ n <= Len(text)
    BY <1>0
  <2> HIDE DEF n
  <2>3. /\ Cut(text, middle, n) = SubSeq(text, middle + 1, n)
        /\ Cut(text, start, n) = SubSeq(text, start + 1, n)
    BY <2>2, CutIs
  <2> QED
    BY <2>1, <2>3 DEF n
<1>3. SubSeq(text, start + 1, middle) \o SubSeq(text, middle + 1, Len(text))
        = SubSeq(text, start + 1, Len(text))
  <2> DEFINE m == start + 1
             n == Len(text)
  <2>1. m \in 1..(Len(text) + 1) /\ middle \in (m - 1)..Len(text) /\ n \in middle..Len(text)
    BY <1>2
  <2> HIDE DEF m, n
  <2>2. SubSeq(text, m, middle) \o SubSeq(text, middle + 1, n) = SubSeq(text, m, n)
    BY <2>1, ConcatAdjacentSubSeq
  <2> QED
    BY <2>2 DEF m, n
<1> QED
  BY <1>3, <1>4

\* Where sentences end.
LEMMA MarksWhere ==
  ASSUME NEW C, NEW text \in Seq(C), Boundary \in C
  PROVE  \A s : s \in Starts(text, <<Boundary>>) <=>
                  s \in Nat /\ s + 1 <= Len(text) /\ text[s + 1] = Boundary
<1> DEFINE q == <<Boundary>>
<1>1. q \in Seq(C) /\ Len(q) = 1 /\ q[1] = Boundary
  OBVIOUS
<1> HIDE DEF q
<1>2. \A s : s \in Starts(text, q) <=>
                s \in Nat /\ s + Len(q) <= Len(text) /\ Cut(text, s, s + Len(q)) = q
  <2>1. text \in Seq(C) /\ q \in Seq(C)
    BY <1>1
  <2>2. /\ \A s : s \in Starts(text, q) <=>
                    s \in Nat /\ s + Len(q) <= Len(text) /\ Cut(text, s, s + Len(q)) = q
        /\ Starts(text, q) \in SUBSET Nat /\ IsFiniteSet(Starts(text, q))
    BY <2>1, StartsWhere, Zenon
  <2> QED
    BY <2>2
<1>3. ASSUME NEW s \in Nat, s + 1 <= Len(text)
      PROVE  Cut(text, s, s + 1) = q <=> text[s + 1] = Boundary
  <2>1. s + 1 \in Nat /\ s <= s + 1 /\ (s + 1) - s = 1
    OBVIOUS
  <2>2. /\ Cut(text, s, s + 1) \in Seq(C) /\ Len(Cut(text, s, s + 1)) = (s + 1) - s
        /\ \A i \in 1..((s + 1) - s) : Cut(text, s, s + 1)[i] = text[s + i]
    BY <1>3, <2>1, CutInside
  <2> DEFINE c == Cut(text, s, s + 1)
             n == (s + 1) - s
  <2>3. c \in Seq(C) /\ Len(c) = 1 /\ c[1] = text[s + 1]
    <3>1. c \in Seq(C) /\ Len(c) = n /\ \A i \in 1..n : c[i] = text[s + i]
      BY <2>2
    <3> HIDE DEF c
    <3>2. n = 1 /\ 1 \in 1..1
      BY <2>1
    <3> HIDE DEF n
    <3> QED
      BY <3>1, <3>2
  <2> HIDE DEF c
  <2>4. c[1] = Boundary => c = q
    BY <1>1, <2>3, SameText
  <2> QED
    BY <1>1, <2>3, <2>4 DEF c
<1>4. Len(text) \in Nat
  OBVIOUS
<1>5. ASSUME NEW s
      PROVE  s \in Starts(text, q) <=> s \in Nat /\ s + 1 <= Len(text) /\ text[s + 1] = Boundary
  BY <1>1, <1>2, <1>3
<1> QED
  BY <1>5 DEF q

\* The sentence around a mention.
LEMMA AnchorAround ==
  ASSUME NEW A, NEW text \in Seq(A), NEW mention \in Seq(A), Len(mention) > 0, Occurs(mention, text)
  PROVE  LET at == Min(Starts(text, mention))
             anchor == Anchor(1, text, mention)
         IN /\ Validated(anchor, <<text>>).passed
            /\ EvidenceIssues(anchor, <<text>>) = {}
            /\ anchor.start <= at /\ at + Len(mention) <= anchor.stop
            /\ \A i \in (anchor.start + 1)..(anchor.stop - 1) :
                 text[i] = Boundary => i > at /\ i <= at + Len(mention)
<1> DEFINE C == A \cup {Boundary}
           at == Min(Starts(text, mention))
           marks == Starts(text, <<Boundary>>)
           opens == {0} \cup {mark + 1 : mark \in {s \in marks : s < at}}
           closes == {Len(text)} \cup {mark + 1 : mark \in {s \in marks : s >= at + Len(mention)}}
           start == Max(opens)
           stop == Min(closes)
           anchor == Anchor(1, text, mention)
<1>1. text \in Seq(C) /\ mention \in Seq(C) /\ <<Boundary>> \in Seq(C) /\ Len(<<Boundary>>) = 1
  OBVIOUS
<1> HIDE DEF C
<1>2. Len(text) \in Nat /\ Len(mention) \in Nat
  OBVIOUS
<1>3. at \in Nat /\ at + Len(mention) <= Len(text)
  <2>1. Starts(text, mention) # {} /\ Starts(text, mention) \in SUBSET Nat
    BY StartsWhere DEF Occurs
  <2>2. at \in Starts(text, mention)
    BY <2>1, MinIn
  <2> HIDE DEF at
  <2> QED
    BY <2>2, StartsWhere
<1> HIDE DEF at
<1>4. \A s : s \in marks <=> s \in Nat /\ s + 1 <= Len(text) /\ text[s + 1] = Boundary
  <2>1. text \in Seq(C) /\ Boundary \in C
    BY <1>1 DEF C
  <2> QED
    BY <2>1, MarksWhere
<1> HIDE DEF marks
<1>5. start \in opens /\ \A y \in opens : start >= y
  <2>1. opens \in SUBSET (0..at) /\ opens # {}
    BY <1>3, <1>4
  <2> HIDE DEF opens
  <2> QED
    BY <1>3, <2>1, MaxIn
<1>6. stop \in closes /\ \A y \in closes : stop <= y
  <2>1. closes \in SUBSET Nat /\ closes # {}
    BY <1>2, <1>4
  <2> HIDE DEF closes
  <2> QED
    BY <2>1, MinIn
<1>7. anchor = [chunk |-> 1, start |-> start, stop |-> stop, quote |-> Cut(text, start, stop)]
  BY DEF Anchor, at, marks
<1> HIDE DEF start, stop, anchor
<1>8. start \in Nat /\ start <= at /\ stop \in Nat /\ at + Len(mention) <= stop /\ stop <= Len(text)
  BY <1>2, <1>3, <1>4, <1>5, <1>6
<1>9. ASSUME NEW i \in (start + 1)..(stop - 1), text[i] = Boundary
      PROVE  i > at /\ i <= at + Len(mention)
  <2>1. i - 1 \in marks /\ i \in Nat
    BY <1>4, <1>8, <1>9
  <2>2. i - 1 < at => i \in opens
    BY <2>1
  <2>3. i - 1 >= at + Len(mention) => i \in closes
    BY <2>1
  <2> QED
    BY <1>2, <1>3, <1>5, <1>6, <1>8, <2>1, <2>2, <2>3
<1>10. anchor \in RefsOf({1}, C) /\ anchor.chunk = 1 /\ Ranged(anchor) /\ Quoted(anchor) /\ RangeFits(anchor, text)
  <2>1. start < stop /\ start <= stop
    BY <1>2, <1>3, <1>8
  <2>2. Cut(text, start, stop) \in Seq(C) /\ Len(Cut(text, start, stop)) = stop - start
    BY <1>1, <1>8, <2>1, CutInside
  <2>3. Cut(text, start, stop) # <<>>
    BY <1>8, <2>1, <2>2
  <2>4. /\ anchor \in [chunk : {1}, start : Int, stop : Int, quote : Seq(C)]
        /\ anchor.chunk = 1 /\ anchor.start = start /\ anchor.stop = stop
        /\ anchor.quote = Cut(text, start, stop)
    BY <1>7, <1>8, <2>2
  <2> QED
    BY <1>8, <2>1, <2>3, <2>4 DEF RefsOf, Ranged, Quoted, RangeFits, Absent
<1>11. Occurs(anchor.quote, text)
  BY <1>1, <1>10, FitOccurs
<1>12. <<text>>[anchor.chunk] = text /\ anchor.chunk \in DOMAIN <<text>> /\ anchor.stop \in Int
  BY <1>7, <1>8, <1>10
<1>13. Validated(anchor, <<text>>).passed
  BY <1>10, <1>11, <1>12, WindowJudges DEF Good, RangeFits
<1>14. EvidenceIssues(anchor, <<text>>) = {}
  BY <1>10, <1>11, <1>12, GoodEverywhere
<1>15. anchor.start = start /\ anchor.stop = stop
  BY <1>7
<1> QED
  BY <1>8, <1>9, <1>13, <1>14, <1>15 DEF at, anchor

\* Every question and every answer is of its topic alone.
LEMMA Topics ==
  /\ Init => /\ ~answered
             /\ topic = "windows" => AskWindows
             /\ topic = "evidence" => AskEvidence
             /\ topic = "slice" => AskSlice
             /\ topic = "event" => AskEvent
             /\ topic = "claim" => AskClaim
             /\ topic = "knowledge" => AskState
             /\ topic = "change" => AskChange
             /\ topic = "changes" => AskChanges
             /\ topic = "signal" => AskSignal
             /\ topic = "call" => AskCall
             /\ topic = "negotiation" => AskNegotiation
             /\ topic \in {"event advice", "signal advice"} => AskAdvice
             /\ topic = "text" => AskText
             /\ topic = "audit" => AskAudit
             /\ topic = "import" => AskImport
  /\ Next => /\ topic' = topic /\ question' = question
             /\ topic = "windows" => AnswerWindows
             /\ topic = "evidence" => AnswerEvidence
             /\ topic = "slice" => AnswerSlice
             /\ topic = "event" => AnswerEvent
             /\ topic = "claim" => AnswerClaim
             /\ topic = "knowledge" => AnswerState
             /\ topic = "change" => AnswerChange
             /\ topic = "changes" => AnswerChanges
             /\ topic = "signal" => AnswerSignal
             /\ topic = "call" => AnswerCall
             /\ topic = "negotiation" => AnswerNegotiation
             /\ topic \in {"event advice", "signal advice"} => AnswerAdvice
             /\ topic = "text" => AnswerText
             /\ topic = "audit" => AnswerAudit
             /\ topic = "import" => AnswerImport
<1>1. /\ AskWindows => topic = "windows"
      /\ AskEvidence => topic = "evidence"
      /\ AskSlice => topic = "slice"
      /\ AskReview => topic = "review"
  BY DEF AskWindows, AskEvidence, AskSlice, AskReview, Ask
<1>2. /\ AskEvent => topic = "event"
      /\ AskClaim => topic = "claim"
      /\ AskState => topic = "knowledge"
  BY DEF AskEvent, AskClaim, AskState, Ask
<1>3. /\ AskChange => topic = "change"
      /\ AskChanges => topic = "changes"
      /\ AskSignal => topic = "signal"
  BY DEF AskChange, AskChanges, AskSignal, Ask
<1>4. /\ AskCall => topic = "call"
      /\ AskNegotiation => topic = "negotiation"
  BY DEF AskCall, AskNegotiation, Ask
<1>5. /\ AskText => topic = "text"
      /\ AskAudit => topic = "audit"
      /\ AskImport => topic = "import"
  BY DEF AskText, AskAudit, AskImport, Ask
<1>6. /\ AskOrder => topic = "order"
      /\ AskDraft => topic = "draft"
      /\ AskPlan => topic = "plan"
  BY DEF AskOrder, AskDraft, AskPlan, Ask
<1>7. /\ AskPairs => topic = "pairs"
      /\ AskPair => topic = "pair"
      /\ AskGate3 => topic = "gate3"
  BY DEF AskPairs, AskPair, AskGate3, Ask
<1>8. AskAdvice => topic = "event advice" \/ topic = "signal advice"
  BY DEF AskAdvice, Ask
<1>9. /\ AnswerWindows => topic = "windows"
      /\ AnswerEvidence => topic = "evidence"
      /\ AnswerSlice => topic = "slice"
      /\ AnswerReview => topic = "review"
  BY DEF AnswerWindows, AnswerEvidence, AnswerSlice, AnswerReview
<1>10. /\ AnswerEvent => topic = "event"
       /\ AnswerClaim => topic = "claim"
       /\ AnswerState => topic = "knowledge"
  BY DEF AnswerEvent, AnswerClaim, AnswerState
<1>11. /\ AnswerChange => topic = "change"
       /\ AnswerChanges => topic = "changes"
       /\ AnswerSignal => topic = "signal"
  BY DEF AnswerChange, AnswerChanges, AnswerSignal
<1>12. /\ AnswerCall => topic = "call"
       /\ AnswerNegotiation => topic = "negotiation"
  BY DEF AnswerCall, AnswerNegotiation
<1>13. /\ AnswerText => topic = "text"
       /\ AnswerAudit => topic = "audit"
       /\ AnswerImport => topic = "import"
  BY DEF AnswerText, AnswerAudit, AnswerImport
<1>14. /\ AnswerOrder => topic = "order"
       /\ AnswerDraft => topic = "draft"
       /\ AnswerPlan => topic = "plan"
  BY DEF AnswerOrder, AnswerDraft, AnswerPlan
<1>15. /\ AnswerPairs => topic = "pairs"
       /\ AnswerPair => topic = "pair"
       /\ AnswerGate3 => topic = "gate3"
  BY DEF AnswerPairs, AnswerPair, AnswerGate3
<1>16. AnswerAdvice => topic = "event advice" \/ topic = "signal advice"
  BY DEF AnswerAdvice
<1>17. ASSUME Init
       PROVE  /\ ~answered
              /\ topic = "windows" => AskWindows
              /\ topic = "evidence" => AskEvidence
              /\ topic = "slice" => AskSlice
              /\ topic = "event" => AskEvent
              /\ topic = "claim" => AskClaim
              /\ topic = "knowledge" => AskState
              /\ topic = "change" => AskChange
              /\ topic = "changes" => AskChanges
              /\ topic = "signal" => AskSignal
              /\ topic = "call" => AskCall
              /\ topic = "negotiation" => AskNegotiation
              /\ topic \in {"event advice", "signal advice"} => AskAdvice
              /\ topic = "text" => AskText
              /\ topic = "audit" => AskAudit
              /\ topic = "import" => AskImport
  BY <1>1, <1>2, <1>3, <1>4, <1>5, <1>6, <1>7, <1>8, <1>17 DEF Init
<1>18. Next => topic' = topic /\ question' = question
  BY DEF Next
<1>19. ASSUME Next
       PROVE  /\ topic = "windows" => AnswerWindows
              /\ topic = "evidence" => AnswerEvidence
              /\ topic = "slice" => AnswerSlice
              /\ topic = "event" => AnswerEvent
              /\ topic = "claim" => AnswerClaim
              /\ topic = "knowledge" => AnswerState
              /\ topic = "change" => AnswerChange
              /\ topic = "changes" => AnswerChanges
              /\ topic = "signal" => AnswerSignal
              /\ topic = "call" => AnswerCall
              /\ topic = "negotiation" => AnswerNegotiation
              /\ topic \in {"event advice", "signal advice"} => AnswerAdvice
              /\ topic = "text" => AnswerText
              /\ topic = "audit" => AnswerAudit
              /\ topic = "import" => AnswerImport
  BY <1>9, <1>10, <1>11, <1>12, <1>13, <1>14, <1>15, <1>16, <1>19 DEF Next
<1> QED
  BY <1>17, <1>18, <1>19

\* A text has characters.
LEMMA TextsAre ==
  ASSUME NEW length, NEW t \in TextsUpTo(length)
  PROVE  t \in Seq(Characters) /\ Len(t) \in Nat /\ Len(t) > 0
<1>1. PICK n \in 1..length : t \in [1..n -> Characters]
  BY DEF TextsUpTo
<1>2. n \in Nat /\ n > 0
  OBVIOUS
<1> QED
  BY <1>1, <1>2

\* What is asked about evidence and slices.
EvidenceAsked ==
    topic = "evidence" =>
        /\ IsView(question.texts, 1..3, Characters) /\ question.limit \in Int
        /\ question.ref \in RefsOf(1..3, Characters)
        /\ answered =>
            /\ answer.view = Visible(question.texts, question.limit)
            /\ answer.kept = Normalised(question.ref, answer.view)
            /\ answer.window = ValidatedAll({answer.kept}, answer.view)

SliceAsked ==
    topic = "slice" =>
        /\ question.text \in Seq(Characters) /\ question.start \in 0..(Len(question.text) - 1)
        /\ question.minimum \in Positive /\ question.natural \in BOOLEAN
        /\ CanSlice(question.start, Len(question.text), question.minimum)
        /\ question.mention \in Seq(Characters) /\ Len(question.mention) > 0
        /\ Occurs(question.mention, question.text)
        /\ answered =>
            /\ answer.middle = Midpoint(question.text, question.start, Len(question.text),
                                        question.minimum, question.natural)
            /\ answer.anchor = Anchor(1, question.text, question.mention)

LEMMA EvidenceQuestions == Spec => [](EvidenceAsked /\ SliceAsked)
<1>1. Init => EvidenceAsked
  <2> SUFFICES ASSUME Init, topic = "evidence" PROVE EvidenceAsked
    BY DEF EvidenceAsked
  <2>1. AskEvidence /\ ~answered
    BY Topics
  <2>2. PICK texts \in [1..2 -> TextsUpTo(TextLength)], limit \in (TextLength - 1)..TextLength,
             ref \in EvidenceRef(1..3, -1..TextLength, {<<>>} \cup TextsUpTo(2)) :
          question = [texts |-> texts, limit |-> limit, ref |-> ref]
    BY <2>1 DEF AskEvidence
  <2>3. question.texts = texts /\ question.limit = limit /\ question.ref = ref
    BY <2>2
  <2>4. limit \in Int
    OBVIOUS
  <2>5. IsView(texts, 1..3, Characters)
    <3>1. DOMAIN texts = 1..2 /\ 1..2 \subseteq 1..3
      OBVIOUS
    <3>2. IsFiniteSet(1..2)
      <4>1. 1 \in Int /\ 2 \in Int
        OBVIOUS
      <4> HIDE DEF IsFiniteSet
      <4> QED
        BY <4>1, FS_Interval
    <3>3. \A c \in 1..2 : texts[c] \in Seq(Characters)
      BY TextsAre
    <3> QED
      BY <3>1, <3>2, <3>3 DEF IsView
  <2>6. ref \in RefsOf(1..3, Characters)
    <3>1. /\ ref \in [chunk : 1..3, start : -1..TextLength, stop : -1..TextLength,
                      quote : {<<>>} \cup TextsUpTo(2)]
          /\ (ref.start = Absent) <=> (ref.stop = Absent)
          /\ ref.start # Absent => ref.stop > ref.start
      BY DEF EvidenceRef
    <3>2. ref.quote \in Seq(Characters)
      <4>1. ref.quote = <<>> \/ ref.quote \in TextsUpTo(2)
        BY <3>1
      <4>2. <<>> \in Seq(Characters)
        OBVIOUS
      <4> QED
        BY <4>1, <4>2, TextsAre
    <3>3. ref.start \in Int /\ ref.stop \in Int /\ -1 <= ref.start
      BY <3>1
    <3>4. ref \in [chunk : 1..3, start : Int, stop : Int, quote : Seq(Characters)]
      BY <3>1, <3>2, <3>3
    <3> QED
      BY <3>1, <3>3, <3>4 DEF RefsOf, Absent
  <2> QED
    BY <2>1, <2>3, <2>4, <2>5, <2>6 DEF EvidenceAsked
<1>2. Init => SliceAsked
  <2> SUFFICES ASSUME Init, topic = "slice" PROVE SliceAsked
    BY DEF SliceAsked
  <2>1. AskSlice /\ ~answered
    BY Topics
  <2>2. PICK text \in TextsUpTo(SliceLength), minimum \in 1..3, natural \in BOOLEAN :
          \E start \in 0..(Len(text) - 1), mention \in TextsUpTo(2) :
            /\ CanSlice(start, Len(text), minimum) /\ Occurs(mention, text)
            /\ question = [text |-> text, start |-> start, minimum |-> minimum,
                           natural |-> natural, mention |-> mention]
    BY <2>1 DEF AskSlice
  <2>3. PICK start \in 0..(Len(text) - 1), mention \in TextsUpTo(2) :
            /\ CanSlice(start, Len(text), minimum) /\ Occurs(mention, text)
            /\ question = [text |-> text, start |-> start, minimum |-> minimum,
                           natural |-> natural, mention |-> mention]
    BY <2>2
  <2>4. /\ question.text = text /\ question.start = start /\ question.minimum = minimum
        /\ question.natural = natural /\ question.mention = mention
    BY <2>3
  <2>5. /\ text \in Seq(Characters) /\ mention \in Seq(Characters) /\ Len(mention) > 0
        /\ minimum \in Positive
    BY TextsAre DEF Positive
  <2> QED
    BY <2>1, <2>3, <2>4, <2>5 DEF SliceAsked
<1>3. EvidenceAsked /\ [Next]_vars => EvidenceAsked'
  <2> SUFFICES ASSUME EvidenceAsked, [Next]_vars, topic' = "evidence" PROVE EvidenceAsked'
    BY DEF EvidenceAsked
  <2>1. CASE UNCHANGED vars
    BY <2>1 DEF vars, EvidenceAsked
  <2>2. CASE Next
    <3>1. topic = "evidence" /\ question' = question /\ AnswerEvidence
      BY <2>2, Topics
    <3>2. /\ answer'.view = Visible(question.texts, question.limit)
          /\ answer'.kept = Normalised(question.ref, answer'.view)
          /\ answer'.window = ValidatedAll({answer'.kept}, answer'.view)
      BY <3>1 DEF AnswerEvidence
    <3> QED
      BY <3>1, <3>2 DEF EvidenceAsked
  <2> QED
    BY <2>1, <2>2
<1>4. SliceAsked /\ [Next]_vars => SliceAsked'
  <2> SUFFICES ASSUME SliceAsked, [Next]_vars, topic' = "slice" PROVE SliceAsked'
    BY DEF SliceAsked
  <2>1. CASE UNCHANGED vars
    BY <2>1 DEF vars, SliceAsked
  <2>2. CASE Next
    <3>1. topic = "slice" /\ question' = question /\ AnswerSlice
      BY <2>2, Topics
    <3>2. /\ answer'.middle = Midpoint(question.text, question.start, Len(question.text),
                                       question.minimum, question.natural)
          /\ answer'.anchor = Anchor(1, question.text, question.mention)
      BY <3>1 DEF AnswerSlice
    <3> QED
      BY <3>1, <3>2 DEF SliceAsked
  <2> QED
    BY <2>1, <2>2
<1> QED
  BY <1>1, <1>2, <1>3, <1>4, PTL DEF Spec

\* Evidence that passes its window passes Gate 2, the commit, the Timeline's
\* input and the StoryBible's validator; normalising and grounding are done
\* once; slices keep their minimum and join to the text; the sentence that
\* stands for a paraphrase passes the window. For texts of any length over
\* any alphabet (narrative_agent_support.validate_evidence, the window's
\* normalisation, StateChangeExtractionAgent's anchor).
THEOREM EvidenceIsSound == Spec => []EvidenceSound
<1>1. EvidenceAsked /\ SliceAsked => EvidenceSound
  <2> SUFFICES ASSUME EvidenceAsked, SliceAsked PROVE EvidenceSound
    OBVIOUS
  <2>1. ASSUME topic = "evidence", answered
        PROVE  EvidenceHolds /\ NormalisedOnce /\ GroundedAccepted /\ FailureNamesQuote
    <3> DEFINE ref == question.ref
               texts == question.texts
    <3>1. /\ IsView(texts, 1..3, Characters) /\ question.limit \in Int
          /\ ref \in RefsOf(1..3, Characters)
          /\ answer.view = Visible(texts, question.limit)
          /\ answer.kept = Normalised(ref, answer.view)
          /\ answer.window = ValidatedAll({answer.kept}, answer.view)
      BY <2>1 DEF EvidenceAsked
    <3> HIDE DEF ref, texts
    <3>2. IsView(answer.view, 1..3, Characters)
      BY <3>1, VisibleIs
    <3>3. answer.window.passed <=> Good(answer.kept, answer.view)
      BY <3>1, WindowJudges
    <3>4. /\ Bindable(ref, answer.view) => Good(answer.kept, answer.view)
          /\ Good(answer.kept, answer.view) /\ Quoted(ref) =>
                /\ EvidenceIssues(answer.kept, texts) = {}
                /\ Accepted(answer.kept, texts)
                /\ InScope(answer.kept, texts)
                /\ Groundable(answer.kept, texts)
      BY <3>1, EvidenceKept
    <3>5. EvidenceHolds
      BY <3>3, <3>4 DEF EvidenceHolds, ref, texts
    <3>6. /\ Normalised(answer.kept, answer.view) = answer.kept
          /\ Good(ref, answer.view) => answer.kept = ref
          /\ answer.kept.quote = ref.quote
      BY <3>1, <3>2, KeptOnce
    <3>7. Validated(ref, answer.view).passed => Good(ref, answer.view)
      BY WindowJudges
    <3>8. NormalisedOnce
      BY <3>6, <3>7 DEF NormalisedOnce, ref
    <3>9. GroundedAccepted
      <4> SUFFICES ASSUME Groundable(ref, texts)
                   PROVE  LET grounded == Grounded(ref, texts) IN
                            /\ Accepted(grounded, texts)
                            /\ EvidenceIssues(grounded, texts) = {}
                            /\ Ranged(ref) => grounded.start = ref.start
                            /\ Grounded(grounded, texts) = grounded
        BY DEF GroundedAccepted, ref, texts
      <4> QED
        BY <3>1, GroundedFits
    <3>10. FailureNamesQuote
      <4>1. LET failure == EvidenceFailure(answer.window) IN
              /\ failure = "none" <=> answer.window.passed
              /\ failure = "CHAR_RANGE_NOT_MATCHED" =>
                   \A c \in DOMAIN answer.view : c = answer.kept.chunk /\ Quoted(answer.kept) =>
                       Occurs(answer.kept.quote, answer.view[c])
        BY <3>1, FailureTold
      <4> QED
        BY <4>1 DEF FailureNamesQuote
    <3> QED
      BY <3>5, <3>8, <3>9, <3>10
  <2>2. ASSUME topic = "slice", answered
        PROVE  SlicesShare /\ AnchorSound
    <3> DEFINE text == question.text
               start == question.start
               minimum == question.minimum
               mention == question.mention
               middle == answer.middle
               n == Len(text)
    <3>1. /\ text \in Seq(Characters) /\ start \in 0..(n - 1) /\ n \in Nat /\ start \in Nat
          /\ minimum \in Nat /\ minimum > 0 /\ question.natural \in BOOLEAN
          /\ CanSlice(start, n, minimum)
          /\ mention \in Seq(Characters) /\ Len(mention) > 0 /\ Occurs(mention, text)
          /\ middle = Midpoint(text, start, n, minimum, question.natural)
          /\ answer.anchor = Anchor(1, text, mention)
      <4>1. question.text \in Seq(Characters)
        BY <2>2 DEF SliceAsked
      <4>2. Len(question.text) \in Nat
        BY <4>1
      <4> QED
        BY <2>2, <4>2 DEF SliceAsked, Positive
    <3> HIDE DEF text, start, minimum, mention, middle, n
    <3>2. middle \in (start + minimum)..(n - minimum)
      BY <3>1, MidpointKeeps
    <3>3. middle \in Nat /\ start <= middle /\ middle <= Len(text)
          /\ middle - start >= minimum /\ n - middle >= minimum
      BY <3>1, <3>2 DEF n
    <3>4. Cut(text, start, middle) \o Cut(text, middle, Len(text)) = Cut(text, start, Len(text))
      BY <3>1, <3>3, CutsJoin
    <3>5. SlicesShare
      BY <3>3, <3>4 DEF SlicesShare, text, start, middle, minimum, n
    <3>6. LET at == Min(Starts(text, mention))
              anchor == Anchor(1, text, mention)
          IN /\ Validated(anchor, <<text>>).passed
             /\ EvidenceIssues(anchor, <<text>>) = {}
             /\ anchor.start <= at /\ at + Len(mention) <= anchor.stop
             /\ \A i \in (anchor.start + 1)..(anchor.stop - 1) :
                  text[i] = Boundary => i > at /\ i <= at + Len(mention)
      BY <3>1, AnchorAround
    <3>7. AnchorSound
      BY <3>1, <3>6 DEF AnchorSound, text, mention
    <3> QED
      BY <3>5, <3>7
  <2>3. ASSUME ~(topic = "evidence" /\ answered)
        PROVE  EvidenceHolds /\ NormalisedOnce /\ GroundedAccepted /\ FailureNamesQuote
    BY <2>3 DEF EvidenceHolds, NormalisedOnce, GroundedAccepted, FailureNamesQuote
  <2>4. ASSUME ~(topic = "slice" /\ answered)
        PROVE  SlicesShare /\ AnchorSound
    BY <2>4 DEF SlicesShare, AnchorSound
  <2> QED
    BY <2>1, <2>2, <2>3, <2>4 DEF EvidenceSound
<1> QED
  BY <1>1, EvidenceQuestions, PTL

\* What a category is called after, one fault at a time.
LEMMA Sorted ==
  /\ Category(None) = None
  /\ Category("timeout") = "PROVIDER_TIMEOUT"
  /\ Category("length") = "PROVIDER_LENGTH_BEFORE_FINAL_CONTENT"
  /\ Category("missing") = "PROVIDER_CONTENT_MISSING"
  /\ Category("json") = "PROVIDER_INVALID_JSON"
  /\ Category("http") = "PROVIDER_HTTP_ERROR"
  /\ \A fault \in {"tls", "refused", "unreachable", "network"} : Category(fault) = "PROVIDER_CONNECTION_ERROR"
  /\ Category("format") = "PROVIDER_RESPONSE_FORMAT_INVALID"
  /\ Category("ungrounded") = "EVIDENCE_VALIDATION_FAILED"
  /\ Category("schema") = "SCHEMA_VALIDATION_FAILED"
  /\ \A fault \in {"dns", "protocol", "undecodable", "unsupported", "forbidden"} : Category(fault) = "UNKNOWN_ERROR"
  BY DEF Category, None

\* Whether the category is one that the worker waits for, repairs or shortens.
LEMMA Treated ==
  ASSUME NEW category, NEW end
  PROVE  LET treatment == Treatment(category, end)
             server == category = "PROVIDER_HTTP_ERROR" /\ end \in {"429", "500"}
         IN /\ treatment = "wait" <=> category \in {"PROVIDER_TIMEOUT", "PROVIDER_CONNECTION_ERROR"} \/ server
            /\ treatment = "repair" <=> category \in {"SCHEMA_VALIDATION_FAILED", "EVIDENCE_VALIDATION_FAILED"}
            /\ treatment = "shorten" <=> category = "PROVIDER_LENGTH_BEFORE_FINAL_CONTENT"
            /\ treatment \in {"wait", "repair", "shorten", "stop"}
<1>1. CASE category \in {"PROVIDER_TIMEOUT", "PROVIDER_CONNECTION_ERROR"}
  BY <1>1 DEF Treatment
<1>2. CASE category = "PROVIDER_HTTP_ERROR"
  BY <1>2 DEF Treatment
<1>3. CASE category \in {"SCHEMA_VALIDATION_FAILED", "EVIDENCE_VALIDATION_FAILED"}
  BY <1>3 DEF Treatment
<1>4. CASE category = "PROVIDER_LENGTH_BEFORE_FINAL_CONTENT"
  BY <1>4 DEF Treatment
<1>5. CASE category \notin {"PROVIDER_TIMEOUT", "PROVIDER_CONNECTION_ERROR", "PROVIDER_HTTP_ERROR",
                            "SCHEMA_VALIDATION_FAILED", "EVIDENCE_VALIDATION_FAILED",
                            "PROVIDER_LENGTH_BEFORE_FINAL_CONTENT"}
  BY <1>5 DEF Treatment
<1> QED
  BY <1>1, <1>2, <1>3, <1>4, <1>5

LEMMA Filed ==
  ASSUME NEW category, NEW end
  PROVE  LET circuit == CircuitCategory(category, end)
             other == end \notin {"401", "429", "500"}
         IN /\ circuit = "AUTH" <=> end = "401"
            /\ circuit = "RATE_LIMITED" <=> end = "429"
            /\ circuit = "SERVER" <=> end = "500"
            /\ circuit = "TIMEOUT" <=> other /\ category = "PROVIDER_TIMEOUT"
            /\ circuit = "CONNECTION" <=> other /\ category = "PROVIDER_CONNECTION_ERROR"
<1>1. CASE end \in {"401", "429", "500"}
  BY <1>1 DEF CircuitCategory
<1>2. CASE end \notin {"401", "429", "500"}
  BY <1>2 DEF CircuitCategory
<1> QED
  BY <1>1, <1>2

\* What a reply of status 200 is worth.
LEMMA AnswerFaultIs ==
  ASSUME NEW body \in Body
  PROVE  LET fault == AnswerFault(body)
             come == body.json /\ body.shaped
             whole == come /\ body.finish = "stop"
         IN /\ fault = "length" <=> come /\ body.finish = "length"
            /\ fault = None <=> whole /\ body.content = "valid"
            /\ fault = "schema" <=> whole /\ body.content = "invalid"
            /\ fault \in {"undecodable", "format", "length", "missing", "unsupported", "json", "schema", None}
<1>1. /\ body.json \in BOOLEAN /\ body.shaped \in BOOLEAN
      /\ body.finish \in {"stop", "length"}
      /\ body.content \in {"null", "list", "blank", "prose", "invalid", "valid"}
  BY DEF Body, Contents
<1>2. CASE ~body.json
  BY <1>2 DEF AnswerFault, None
<1>3. CASE body.json /\ ~body.shaped
  BY <1>3 DEF AnswerFault, None
<1>4. CASE body.json /\ body.shaped /\ body.finish = "length"
  BY <1>4 DEF AnswerFault, None
<1>5. CASE body.json /\ body.shaped /\ body.finish = "stop"
  <2>1. CASE body.content \in {"null", "blank"}
    BY <1>5, <2>1 DEF AnswerFault, None
  <2>2. CASE body.content = "list"
    BY <1>5, <2>2 DEF AnswerFault, None
  <2>3. CASE body.content = "prose"
    BY <1>5, <2>3 DEF AnswerFault, None
  <2>4. CASE body.content = "invalid"
    BY <1>5, <2>4 DEF AnswerFault, None
  <2>5. CASE body.content = "valid"
    BY <1>5, <2>5 DEF AnswerFault, None
  <2> QED
    BY <1>1, <2>1, <2>2, <2>3, <2>4, <2>5
<1> QED
  BY <1>1, <1>2, <1>3, <1>4, <1>5

ReplyEnds == Statuses \cup {"timeout"} \cup ConnectErrors \cup BrokenOff

\* A reply with status 200 has a body, and no other one has.
IsReply(reply) ==
    /\ reply.end \in ReplyEnds
    /\ reply.end = "200" => reply.body \in Body
    /\ reply.end # "200" => reply.body = NoBody

LEMMA RepliesHave ==
  ASSUME NEW reply \in Replies
  PROVE  IsReply(reply)
<1>1. CASE reply \in {[end |-> "200", body |-> body] : body \in Body}
  <2>1. PICK body \in Body : reply = [end |-> "200", body |-> body]
    BY <1>1
  <2>2. reply.end = "200" /\ reply.body = body
    BY <2>1
  <2> QED
    BY <2>2 DEF IsReply, ReplyEnds, Statuses
<1>2. CASE reply \in {[end |-> end, body |-> NoBody] :
                        end \in (Statuses \ {"200"}) \cup {"timeout"} \cup ConnectErrors \cup BrokenOff}
  <2>1. PICK end \in (Statuses \ {"200"}) \cup {"timeout"} \cup ConnectErrors \cup BrokenOff :
          reply = [end |-> end, body |-> NoBody]
    BY <1>2
  <2>2. reply.end = end /\ reply.body = NoBody
    BY <2>1
  <2>3. end # "200" /\ end \in ReplyEnds
    BY DEF ReplyEnds, Statuses, ConnectErrors, BrokenOff
  <2> QED
    BY <2>2, <2>3 DEF IsReply
<1> QED
  BY <1>1, <1>2 DEF Replies

\* What became of a call, by the way its last post ended.
LEMMA CallEnds ==
  ASSUME NEW reply, IsReply(reply), NEW verdict \in {None, "ungrounded", "forbidden"}
  PROVE  LET category == Category(Fault(reply, verdict))
             treatment == Treatment(category, reply.end)
             body == reply.body
             come == reply.end = "200" /\ body.json /\ body.shaped
             whole == come /\ body.finish = "stop"
         IN /\ treatment = "shorten" <=> come /\ body.finish = "length"
            /\ treatment = "repair" => whole /\ body.content \in {"invalid", "valid"}
            /\ category = None => whole /\ body.content = "valid" /\ verdict = None
            /\ reply.end \in Again => treatment = (IF reply.end = "dns" THEN "stop" ELSE "wait")
            /\ treatment = "wait" => reply.end \in Again \cup {"network"}
            /\ reply.end \in {"400", "401", "404", "422"} => treatment = "stop"
            /\ category = "PROVIDER_TIMEOUT" => reply.end = "timeout"
            /\ category = "PROVIDER_CONNECTION_ERROR" => treatment = "wait"
            /\ reply.end = "401" => category = "PROVIDER_HTTP_ERROR"
<1> DEFINE fault == Fault(reply, verdict)
           category == Category(fault)
           treatment == Treatment(category, reply.end)
           body == reply.body
<1>1. reply.end \in ReplyEnds
  BY DEF IsReply
<1> HIDE DEF fault
<1>2. CASE reply.end = "200"
  <2>1. body \in Body
    BY <1>2 DEF IsReply
  <2>2. /\ reply.end \notin Again \cup {"network", "400", "401", "404", "422", "timeout"}
    BY <1>2 DEF Again, ConnectErrors
  <2> DEFINE found == AnswerFault(body)
  <2>3. fault = IF found # None THEN found ELSE verdict
    BY <1>2 DEF fault, Fault
  <2>4. /\ found = "length" <=> body.json /\ body.shaped /\ body.finish = "length"
        /\ found = None <=> body.json /\ body.shaped /\ body.finish = "stop" /\ body.content = "valid"
        /\ found = "schema" <=> body.json /\ body.shaped /\ body.finish = "stop" /\ body.content = "invalid"
        /\ found \in {"undecodable", "format", "length", "missing", "unsupported", "json", "schema", None}
    BY <2>1, AnswerFaultIs
  <2> HIDE DEF found, body
  <2>5. CASE found # None
    <3>1. fault = found
      BY <2>3, <2>5
    <3>2. category \notin {"PROVIDER_TIMEOUT", "PROVIDER_CONNECTION_ERROR", "PROVIDER_HTTP_ERROR", None,
                           "EVIDENCE_VALIDATION_FAILED"}
      BY <2>4, <2>5, <3>1, Sorted DEF None
    <3>3. category = "PROVIDER_LENGTH_BEFORE_FINAL_CONTENT" <=> found = "length"
      BY <2>4, <2>5, <3>1, Sorted DEF None
    <3>4. category = "SCHEMA_VALIDATION_FAILED" <=> found = "schema"
      BY <2>4, <2>5, <3>1, Sorted DEF None
    <3> HIDE DEF category
    <3>5. /\ treatment = "shorten" <=> found = "length"
          /\ treatment = "repair" <=> found = "schema"
          /\ treatment # "wait"
      BY <3>2, <3>3, <3>4, Treated
    <3> HIDE DEF treatment
    <3> QED
      BY <1>2, <2>2, <2>4, <3>2, <3>5 DEF body, category, treatment, fault
  <2>6. CASE found = None
    <3>1. fault = verdict
      BY <2>3, <2>6
    <3>2. /\ category \notin {"PROVIDER_TIMEOUT", "PROVIDER_CONNECTION_ERROR", "PROVIDER_HTTP_ERROR",
                              "PROVIDER_LENGTH_BEFORE_FINAL_CONTENT", "SCHEMA_VALIDATION_FAILED"}
          /\ category = None => verdict = None
      BY <3>1, Sorted DEF None
    <3> HIDE DEF category
    <3>3. treatment # "shorten" /\ treatment # "wait"
      BY <3>2, Treated
    <3> HIDE DEF treatment
    <3>4. body.json /\ body.shaped /\ body.finish = "stop" /\ body.content = "valid"
      BY <2>4, <2>6
    <3> QED
      BY <1>2, <2>2, <3>2, <3>3, <3>4 DEF body, category, treatment, fault
  <2> QED
    BY <2>5, <2>6
<1>3. CASE reply.end \in Statuses /\ reply.end # "200"
  <2>1. category = "PROVIDER_HTTP_ERROR"
    BY <1>3, Sorted DEF fault, Fault
  <2>2. reply.end \in {"400", "401", "404", "422", "429", "500"}
    BY <1>3 DEF Statuses
  <2>3. reply.end \in Again <=> reply.end \in {"429", "500"}
    BY <2>2 DEF Again, ConnectErrors
  <2> HIDE DEF category
  <2>4. treatment = IF reply.end \in {"429", "500"} THEN "wait" ELSE "stop"
    BY <2>1, <2>2, Treated
  <2> HIDE DEF treatment
  <2> QED
    BY <2>1, <2>2, <2>3, <2>4 DEF category, treatment, fault, None
<1>4. CASE reply.end \notin Statuses
  <2>1. reply.end \in {"timeout", "dns", "tls", "refused", "unreachable", "network", "protocol"}
    BY <1>1, <1>4 DEF ReplyEnds, ConnectErrors, BrokenOff
  <2>2. fault = reply.end
    BY <1>4, <2>1 DEF fault, Fault
  <2>3. category = CASE reply.end = "timeout" -> "PROVIDER_TIMEOUT"
                     [] reply.end \in {"tls", "refused", "unreachable", "network"} -> "PROVIDER_CONNECTION_ERROR"
                     [] reply.end \in {"dns", "protocol"} -> "UNKNOWN_ERROR"
    BY <2>1, <2>2, Sorted
  <2>4. reply.end \in Again <=> reply.end \in {"timeout", "dns", "tls", "refused", "unreachable"}
    BY <2>1 DEF Again, ConnectErrors
  <2> HIDE DEF category
  <2>5. treatment = IF reply.end \in {"dns", "protocol"} THEN "stop" ELSE "wait"
    BY <2>1, <2>3, Treated
  <2> HIDE DEF treatment
  <2> QED
    BY <2>1, <2>3, <2>4, <2>5 DEF category, treatment, fault, None
<1> QED
  BY <1>2, <1>3, <1>4

\* The probe of readiness ends in a mode only with a valid answer in it.
LEMMA ReadinessIs ==
  ASSUME NEW policy \in Policies, NEW ready \in [Modes -> ProbeAnswers]
  PROVE  LET base == Readiness(policy, ready)
         IN /\ base \in Modes => Tried(policy, base) /\ ready[base] = "valid"
            /\ (policy = "AUTO" /\ ready["STRICT"] \in {"valid", "refused"} /\ ready["JSON"] = "valid") =>
                    base \in Modes
<1> DEFINE strict == IF Tried(policy, "STRICT") THEN ready["STRICT"] ELSE "refused"
           json == IF Tried(policy, "JSON") THEN ready["JSON"] ELSE "refused"
           base == Readiness(policy, ready)
<1>1. base = CASE strict = "valid" -> "STRICT"
               [] strict = "refused" /\ json = "valid" -> "JSON"
               [] strict = "refused" /\ json = "refused" -> "UNAVAILABLE"
               [] OTHER -> "FAILED"
  BY DEF Readiness
<1>2. /\ strict = "valid" <=> Tried(policy, "STRICT") /\ ready["STRICT"] = "valid"
      /\ json = "valid" <=> Tried(policy, "JSON") /\ ready["JSON"] = "valid"
  OBVIOUS
<1>3. policy = "AUTO" => strict = ready["STRICT"] /\ json = ready["JSON"]
  BY DEF Tried
<1> HIDE DEF strict, json, base
<1>4. CASE strict = "valid"
  <2>1. base = "STRICT"
    BY <1>1, <1>4
  <2> QED
    BY <1>2, <1>4, <2>1 DEF base, Modes
<1>5. CASE strict = "refused" /\ json = "valid"
  <2>1. base = "JSON"
    BY <1>1, <1>5
  <2> QED
    BY <1>2, <1>5, <2>1 DEF base, Modes
<1>6. CASE strict # "valid" /\ ~(strict = "refused" /\ json = "valid")
  <2>1. base \in {"UNAVAILABLE", "FAILED"}
    BY <1>1, <1>6
  <2> QED
    BY <1>3, <1>6, <2>1 DEF base, Modes
<1> QED
  BY <1>4, <1>5, <1>6

\* So does the probe of a schema, where an object is an answer too.
LEMMA SchemaModeIs ==
  ASSUME NEW policy \in Policies, NEW schema \in [Modes -> ProbeAnswers]
  PROVE  LET mode == SchemaMode(policy, schema)
         IN /\ mode \in Modes => Tried(policy, mode) /\ schema[mode] \in {"valid", "object"}
            /\ (policy = "AUTO" /\ schema["STRICT"] \notin Escaping /\ schema["JSON"] \in {"valid", "object"}) =>
                    mode # "UNAVAILABLE"
<1> DEFINE strict == Tried(policy, "STRICT")
           json == Tried(policy, "JSON")
           first == schema["STRICT"]
           second == schema["JSON"]
           mode == SchemaMode(policy, schema)
<1>1. mode = CASE strict /\ first \in {"valid", "object"} -> "STRICT"
               [] strict /\ first \in Escaping -> "UNAVAILABLE"
               [] ~strict \/ first \notin {"valid", "object"} \cup Escaping ->
                    IF json /\ second \in {"valid", "object"} THEN "JSON" ELSE "UNAVAILABLE"
  BY DEF SchemaMode
<1>2. policy = "AUTO" => strict /\ json
  BY DEF Tried
<1>3. strict \in BOOLEAN /\ json \in BOOLEAN
  BY DEF Tried
<1> HIDE DEF strict, json, first, second, mode
<1>4. CASE strict /\ first \in {"valid", "object"}
  <2>1. mode = "STRICT"
    BY <1>1, <1>4 DEF Escaping
  <2> QED
    BY <1>4, <2>1 DEF strict, first, mode
<1>5. CASE strict /\ first \in Escaping
  <2>1. mode = "UNAVAILABLE"
    BY <1>1, <1>5 DEF Escaping
  <2> QED
    BY <1>5, <2>1 DEF first, mode, Modes
<1>6. CASE ~strict \/ first \notin {"valid", "object"} \cup Escaping
  <2>1. mode = IF json /\ second \in {"valid", "object"} THEN "JSON" ELSE "UNAVAILABLE"
    BY <1>1, <1>6 DEF Escaping
  <2>2. CASE json /\ second \in {"valid", "object"}
    <3>1. mode = "JSON"
      BY <2>1, <2>2
    <3> QED
      BY <2>2, <3>1 DEF json, second, mode
  <2>3. CASE ~(json /\ second \in {"valid", "object"})
    <3>1. mode = "UNAVAILABLE"
      BY <2>1, <2>3
    <3> QED
      BY <1>2, <2>3, <3>1 DEF mode, second, Modes
  <2> QED
    BY <2>2, <2>3
<1> QED
  BY <1>4, <1>5, <1>6

\* The advice about events is the contract of events, but for their
\* location and their version.
LEMMA EventsAdvised ==
  ASSUME NEW event, EventAdvice(event)
  PROVE  EventContract(event) \/ (event.place # None /\ event.placeMention # None) \/ event.version = "1.0"
  BY DEF EventAdvice, EventContract

LEMMA EventRuleNamed ==
  ASSUME NEW event, EventRuleCode(event) # None
  PROVE  /\ ~EventContract(event)
         /\ EventRuleCode(event) \in {"MENTIONS", "LOCATION", event.actor} \/ event.actor = "UNKNOWN"
  BY DEF EventRuleCode, EventContract, None

\* A signal as the advice is asked about it.
AdvisedSignal(signal) ==
    /\ signal.kind \in {"TRUSTS", "PARENT_OF"}
    /\ signal.subject.kind = "CHARACTER" /\ signal.counterpart.kind = "CHARACTER"
    /\ signal.subject.text # signal.counterpart.text
    /\ signal.denied \in BOOLEAN /\ signal.speaker \in BOOLEAN
    /\ signal.basis \in Stated \cup {"NARRATED", "OBSERVED_ACTION", "INFERRED"}
    /\ Len(signal.evidence) = 1

LEMMA SignalsAdvised ==
  ASSUME NEW signal, AdvisedSignal(signal), SignalAdvice(signal)
  PROVE  \/ SignalContract(signal)
         \/ signal.effect = "UNKNOWN" \/ (signal.kind = "PARENT_OF" /\ signal.effect = "TERMINATION")
<1> SUFFICES ASSUME signal.effect # "UNKNOWN", ~(signal.kind = "PARENT_OF" /\ signal.effect = "TERMINATION")
             PROVE  SignalContract(signal)
  OBVIOUS
<1>1. PairAllowed(signal.kind, signal.subject.kind, signal.counterpart.kind)
  BY DEF AdvisedSignal, PairAllowed
<1>2. ~SameIdentity(signal.subject, signal.counterpart)
  BY DEF AdvisedSignal, SignalAdvice, SameIdentity
<1>3. ~(signal.effect = "TERMINATION" /\ signal.kind \in Kinship)
  BY DEF AdvisedSignal, Kinship
<1>4. (signal.effect = "DENIAL") <=> signal.denied
  BY DEF SignalAdvice, AdvisedSignal
<1>5. (signal.basis \in Stated) <=> signal.speaker
  BY DEF SignalAdvice, AdvisedSignal
<1>6. signal.support = "EXPLICIT" => signal.basis = "NARRATED"
  BY DEF SignalAdvice, AdvisedSignal
<1>7. signal.basis # "INFERRED" /\ (signal.effect \in Changing => signal.anchored)
  BY DEF SignalAdvice
<1>8. ~Repeated(signal.evidence)
  BY DEF Repeated, AdvisedSignal
<1> QED
  BY <1>1, <1>2, <1>3, <1>4, <1>5, <1>6, <1>7, <1>8 DEF SignalContract

\* What is asked about calls, modes and advice, and what is answered.
CallAsked ==
    topic = "call" =>
        /\ IsReply(question.first) /\ IsReply(question.second)
        /\ question.verdict \in {None, "ungrounded", "forbidden"}
        /\ answered =>
            /\ answer.posted = Posted(question.first, question.second)
            /\ answer.category = Category(Fault(answer.posted.reply, question.verdict))
            /\ answer.end = answer.posted.reply.end
            /\ answer.treatment = Treatment(answer.category, answer.end)
            /\ answer.circuit = CircuitCategory(answer.category, answer.end)
            /\ answer.advised = Advised(answer.category, answer.end)

NegotiationAsked ==
    topic = "negotiation" =>
        /\ question.policy \in Policies
        /\ question.ready \in [Modes -> ProbeAnswers] /\ question.schema \in [Modes -> ProbeAnswers]
        /\ question.profiled \in BOOLEAN /\ question.formatted \in BOOLEAN
        /\ answered =>
            answer.mode = SelectedMode(question.profiled, ProfileOf(question.policy, question.ready, question.schema),
                                       question.policy, question.formatted)

AdviceAsked ==
    /\ topic = "signal advice" => AdvisedSignal(question)
    /\ topic = "event advice" /\ answered =>
            /\ answer.follows = EventAdvice(question) /\ answer.accepted = EventContract(question)
            /\ answer.code = EventRuleCode(question)
    /\ topic = "signal advice" /\ answered =>
            answer.follows = SignalAdvice(question) /\ answer.accepted = SignalContract(question)

LEMMA CallQuestionsAre == Spec => []CallAsked
<1>1. Init => CallAsked
  <2> SUFFICES ASSUME Init, topic = "call" PROVE CallAsked
    BY DEF CallAsked
  <2>1. AskCall /\ ~answered
    BY Topics
  <2>2. PICK first \in Replies, second \in Replies, verdict \in {None, "ungrounded", "forbidden"} :
          question = [first |-> first, second |-> second, verdict |-> verdict]
    BY <2>1 DEF AskCall, Ask
  <2>3. question.first = first /\ question.second = second /\ question.verdict = verdict
    BY <2>2
  <2> QED
    BY <2>1, <2>3, RepliesHave DEF CallAsked
<1>2. CallAsked /\ [Next]_vars => CallAsked'
  <2> SUFFICES ASSUME CallAsked, [Next]_vars, topic' = "call" PROVE CallAsked'
    BY DEF CallAsked
  <2>1. CASE UNCHANGED vars
    BY <2>1 DEF CallAsked, vars
  <2>2. CASE Next
    <3>1. AnswerCall /\ topic' = topic /\ question' = question
      BY <2>2, Topics
    <3> DEFINE posted == Posted(question.first, question.second)
               category == Category(Fault(posted.reply, question.verdict))
               end == posted.reply.end
               treatment == Treatment(category, end)
               circuit == CircuitCategory(category, end)
               advised == Advised(category, end)
    <3>2. answer' = [posted |-> posted, category |-> category, end |-> end,
                     treatment |-> treatment, circuit |-> circuit, advised |-> advised]
      BY <3>1 DEF AnswerCall
    <3> HIDE DEF posted, category, end, treatment, circuit, advised
    <3>3. /\ answer'.posted = posted /\ answer'.category = category /\ answer'.end = end
          /\ answer'.treatment = treatment /\ answer'.circuit = circuit /\ answer'.advised = advised
      BY <3>2
    <3> QED
      BY <3>1, <3>3 DEF CallAsked, posted, category, end, treatment, circuit, advised
  <2> QED
    BY <2>1, <2>2
<1> QED
  BY <1>1, <1>2, PTL DEF Spec

LEMMA NegotiationQuestions == Spec => []NegotiationAsked
<1>1. Init => NegotiationAsked
  <2> SUFFICES ASSUME Init, topic = "negotiation" PROVE NegotiationAsked
    BY DEF NegotiationAsked
  <2>1. AskNegotiation /\ ~answered
    BY Topics
  <2>2. PICK policy \in Policies, ready \in [Modes -> ProbeAnswers], schema \in [Modes -> ProbeAnswers],
             profiled \in BOOLEAN, formatted \in BOOLEAN :
          question = [policy |-> policy, ready |-> ready, schema |-> schema,
                      profiled |-> profiled, formatted |-> formatted]
    BY <2>1 DEF AskNegotiation, Ask
  <2>3. /\ question.policy = policy /\ question.ready = ready /\ question.schema = schema
        /\ question.profiled = profiled /\ question.formatted = formatted
    BY <2>2
  <2> QED
    BY <2>1, <2>3 DEF NegotiationAsked
<1>2. NegotiationAsked /\ [Next]_vars => NegotiationAsked'
  <2> SUFFICES ASSUME NegotiationAsked, [Next]_vars, topic' = "negotiation" PROVE NegotiationAsked'
    BY DEF NegotiationAsked
  <2>1. CASE UNCHANGED vars
    BY <2>1 DEF NegotiationAsked, vars
  <2>2. CASE Next
    <3>1. AnswerNegotiation /\ topic' = topic /\ question' = question
      BY <2>2, Topics
    <3> DEFINE profile == ProfileOf(question.policy, question.ready, question.schema)
               mode == SelectedMode(question.profiled, profile, question.policy, question.formatted)
    <3>2. answer' = [profile |-> profile, mode |-> mode]
      BY <3>1 DEF AnswerNegotiation
    <3> HIDE DEF profile, mode
    <3>3. answer'.mode = mode
      BY <3>2
    <3> QED
      BY <3>1, <3>3 DEF NegotiationAsked, profile, mode
  <2> QED
    BY <2>1, <2>2
<1> QED
  BY <1>1, <1>2, PTL DEF Spec

\* What a mention is made of.
LEMMA MentionHas ==
  ASSUME NEW text, NEW kind
  PROVE  /\ DOMAIN Mention(text, kind) = {"text", "kind", "resolved", "id"}
         /\ Mention(text, kind).kind = kind /\ Mention(text, kind).text = text
  BY DEF Mention

LEMMA AdviceQuestions == Spec => []AdviceAsked
<1>1. Init => AdviceAsked
  <2> SUFFICES ASSUME Init, topic = "signal advice" PROVE AdvisedSignal(question)
    BY Topics DEF AdviceAsked
  <2>1. AskAdvice
    BY Topics
  <2> DEFINE kinds == {"TRUSTS", "PARENT_OF"}
             subjects == {Mention("x", "CHARACTER")}
             counterparts == {Mention("y", "CHARACTER"), [Mention("y", "CHARACTER") EXCEPT !.resolved = TRUE, !.id = "y"]}
             effects == Changing \cup {"PRESENT", "DENIAL", "UNKNOWN"}
             bases == Stated \cup {"NARRATED", "OBSERVED_ACTION", "INFERRED"}
             supports == {"EXPLICIT", "STRONG", "LIMITED"}
             some == <<CHOOSE ref \in Refs : TRUE>>
  <2>2. question \in [kind : kinds, subject : subjects, counterpart : counterparts, effect : effects, denied : BOOLEAN,
                      basis : bases, support : supports, speaker : BOOLEAN, anchored : BOOLEAN, evidence : {some}]
    BY <2>1 DEF AskAdvice, Ask
  <2>3. \A s \in subjects : s.kind = "CHARACTER" /\ s.text = "x"
    <3> DEFINE kind == "CHARACTER"
               text == "x"
    <3> HIDE DEF kind, text
    <3>1. Mention(text, kind).kind = kind /\ Mention(text, kind).text = text
      BY MentionHas
    <3> QED
      BY <3>1 DEF kind, text
  <2>4. \A c \in counterparts : c.kind = "CHARACTER" /\ c.text = "y"
    <3> DEFINE kind == "CHARACTER"
               text == "y"
               mention == Mention(text, kind)
               resolved == [mention EXCEPT !.resolved = TRUE, !.id = text]
    <3> HIDE DEF kind, text
    <3> HIDE DEF mention
    <3>1. /\ mention.kind = kind /\ mention.text = text
          /\ DOMAIN mention = {"text", "kind", "resolved", "id"}
      BY MentionHas DEF mention
    <3>2. counterparts = {mention, resolved}
      BY DEF kind, text, mention
    <3>3. resolved.kind = mention.kind /\ resolved.text = mention.text
      BY <3>1
    <3> HIDE DEF resolved, counterparts
    <3> QED
      BY <3>1, <3>2, <3>3 DEF kind, text
  <2>5. Len(some) = 1
    OBVIOUS
  <2> HIDE DEF subjects, counterparts, effects, some, bases, supports
  <2>6. /\ question.kind \in kinds /\ question.subject \in subjects /\ question.counterpart \in counterparts
        /\ question.denied \in BOOLEAN /\ question.speaker \in BOOLEAN /\ question.basis \in bases
        /\ question.evidence = some
    BY <2>2
  <2> QED
    BY <2>3, <2>4, <2>5, <2>6 DEF AdvisedSignal, bases
<1>2. AdviceAsked /\ [Next]_vars => AdviceAsked'
  <2> SUFFICES ASSUME AdviceAsked, [Next]_vars PROVE AdviceAsked'
    OBVIOUS
  <2>1. CASE UNCHANGED vars
    BY <2>1 DEF AdviceAsked, vars
  <2>2. CASE Next
    <3>1. topic' = topic /\ question' = question
          /\ (topic \in {"event advice", "signal advice"} => AnswerAdvice)
      BY <2>2, Topics
    <3>2. CASE topic = "event advice"
      <4> DEFINE follows == EventAdvice(question)
                 accepted == EventContract(question)
                 code == EventRuleCode(question)
      <4>1. answer' = [follows |-> follows, accepted |-> accepted, code |-> code]
        BY <3>1, <3>2 DEF AnswerAdvice
      <4> HIDE DEF follows, accepted, code
      <4>2. answer'.follows = follows /\ answer'.accepted = accepted /\ answer'.code = code
        BY <4>1
      <4> QED
        BY <3>1, <3>2, <4>2 DEF AdviceAsked, follows, accepted, code
    <3>3. CASE topic = "signal advice"
      <4> DEFINE follows == SignalAdvice(question)
                 accepted == SignalContract(question)
      <4>1. answer' = [follows |-> follows, accepted |-> accepted, code |-> None]
        BY <3>1, <3>3 DEF AnswerAdvice
      <4> HIDE DEF follows, accepted
      <4>2. answer'.follows = follows /\ answer'.accepted = accepted
        BY <4>1
      <4> QED
        BY <3>1, <3>3, <4>2 DEF AdviceAsked, follows, accepted
    <3>4. CASE topic \notin {"event advice", "signal advice"}
      BY <3>1, <3>4 DEF AdviceAsked
    <3> QED
      BY <3>2, <3>3, <3>4
  <2> QED
    BY <2>1, <2>2
<1> QED
  BY <1>1, <1>2, PTL DEF Spec

\* Evidence as the repair asks for it is evidence an agent lets through.
LEMMA EvidenceAdvised ==
  ASSUME NEW ref, NEW view, EvidenceAdvice(ref, view)
  PROVE  Bindable(ref, view)
<1>1. ref.chunk \in Matching(ref, view)
  BY DEF EvidenceAdvice, Matching
<1> QED
  BY <1>1 DEF EvidenceAdvice, Bindable

\* Every way a call of the Provider can end is treated as it needs: what was cut
\* off is shortened, what may pass by itself is waited for, a mode is used only
\* when the endpoint answered for it, and a model that does what the repair asks
\* for is accepted (OpenAICompatibleLLMProvider, classify_exception, the worker's
\* retries, the readiness probe), for evidence in texts of any length.
THEOREM CallsAreHandled == Spec => []CallsHandled
<1>1. CallAsked => CutOffShortened /\ TransientAgreed
  <2> SUFFICES ASSUME CallAsked, topic = "call", answered PROVE CutOffShortened /\ TransientAgreed
    BY DEF CutOffShortened, TransientAgreed, Replied
  <2> DEFINE first == question.first
             second == question.second
             verdict == question.verdict
             posted == answer.posted
             reply == posted.reply
             category == answer.category
             end == answer.end
             treatment == answer.treatment
             circuit == answer.circuit
             advised == answer.advised
             body == reply.body
             come == end = "200" /\ body.json /\ body.shaped
             whole == come /\ body.finish = "stop"
  <2>1. /\ IsReply(first) /\ IsReply(second) /\ verdict \in {None, "ungrounded", "forbidden"}
        /\ posted = Posted(first, second)
        /\ category = Category(Fault(reply, verdict))
        /\ end = reply.end
        /\ treatment = Treatment(category, end)
        /\ circuit = CircuitCategory(category, end)
        /\ advised = Advised(category, end)
    BY DEF CallAsked
  <2> HIDE DEF first, second, verdict, posted, category, end, treatment, circuit, advised
  <2>2. /\ first.end \notin Again => reply = first /\ posted.posts = 1 /\ posted.noted = 1
        /\ first.end \in Again =>
              /\ reply = second /\ posted.posts = 2
              /\ posted.noted = IF second.end \in BrokenOff THEN 1 ELSE 2
    BY <2>1 DEF Posted
  <2>3. IsReply(reply)
    BY <2>1, <2>2
  <2> HIDE DEF reply
  <2>4. /\ treatment = "shorten" <=> come /\ body.finish = "length"
        /\ treatment = "repair" => whole /\ body.content \in {"invalid", "valid"}
        /\ category = None => whole /\ body.content = "valid" /\ verdict = None
        /\ end \in Again => treatment = (IF end = "dns" THEN "stop" ELSE "wait")
        /\ treatment = "wait" => end \in Again \cup {"network"}
        /\ end \in {"400", "401", "404", "422"} => treatment = "stop"
        /\ category = "PROVIDER_TIMEOUT" => end = "timeout"
        /\ category = "PROVIDER_CONNECTION_ERROR" => treatment = "wait"
        /\ end = "401" => category = "PROVIDER_HTTP_ERROR"
    BY <2>1, <2>3, CallEnds
  <2>5. /\ circuit = "AUTH" <=> end = "401"
        /\ circuit = "RATE_LIMITED" <=> end = "429"
        /\ circuit = "SERVER" <=> end = "500"
        /\ circuit = "TIMEOUT" => category = "PROVIDER_TIMEOUT"
        /\ circuit = "CONNECTION" => category = "PROVIDER_CONNECTION_ERROR"
    BY <2>1, Filed
  <2>6. first.end \in {"400", "401", "404", "422"} => first.end \notin Again
    BY DEF Again, ConnectErrors
  <2>7. end = "401" => advised = "check settings"
    BY <2>1, <2>4 DEF Advised
  <2>8. CutOffShortened
    BY <2>4 DEF CutOffShortened, body, reply, come, whole, category, treatment, posted, end, verdict
  <2>9. circuit \in {"TIMEOUT", "CONNECTION", "RATE_LIMITED", "SERVER"} => treatment = "wait"
    <3>1. end \in {"timeout", "429", "500"} => end \in Again /\ end # "dns"
      BY DEF Again
    <3> QED
      BY <2>4, <2>5, <3>1
  <2>10. posted.noted # posted.posts => end \in BrokenOff
    BY <2>1, <2>2
  <2>11. first.end \in {"400", "401", "404", "422"} => posted.posts = 1
    BY <2>2, <2>6
  <2>12. TransientAgreed
    BY <2>4, <2>5, <2>7, <2>9, <2>10, <2>11
       DEF TransientAgreed, first, posted, category, end, treatment, circuit, advised
  <2> QED
    BY <2>8, <2>12
<1>2. NegotiationAsked => ModeAnswered /\ FallsBack
  <2> SUFFICES ASSUME NegotiationAsked, topic = "negotiation", answered PROVE ModeAnswered /\ FallsBack
    BY DEF ModeAnswered, FallsBack, Replied
  <2> DEFINE policy == question.policy
             ready == question.ready
             schema == question.schema
             profiled == question.profiled
             formatted == question.formatted
             mode == answer.mode
             base == Readiness(policy, ready)
             fitting == SchemaMode(policy, schema)
  <2>1. /\ policy \in Policies /\ ready \in [Modes -> ProbeAnswers] /\ schema \in [Modes -> ProbeAnswers]
        /\ profiled \in BOOLEAN /\ formatted \in BOOLEAN
        /\ mode = SelectedMode(profiled, ProfileOf(policy, ready, schema), policy, formatted)
    BY DEF NegotiationAsked
  <2> HIDE DEF policy, ready, schema, profiled, formatted, mode
  <2>2. /\ base \in Modes => ready[base] = "valid"
        /\ (policy = "AUTO" /\ ready["STRICT"] \in {"valid", "refused"} /\ ready["JSON"] = "valid") => base \in Modes
    BY <2>1, ReadinessIs
  <2>3. /\ fitting \in Modes => Tried(policy, fitting) /\ schema[fitting] \in {"valid", "object"}
        /\ (policy = "AUTO" /\ schema["STRICT"] \notin Escaping /\ schema["JSON"] \in {"valid", "object"}) =>
                fitting # "UNAVAILABLE"
    BY <2>1, SchemaModeIs
  <2>4. ProfileOf(policy, ready, schema).schema = IF base \in Modes THEN fitting ELSE "UNAVAILABLE"
    BY DEF ProfileOf
  <2> HIDE DEF base, fitting
  <2>5. /\ profiled => mode = IF base \in Modes THEN fitting ELSE "UNAVAILABLE"
        /\ ~profiled /\ policy = "REQUIRE_STRICT" /\ mode # "UNAVAILABLE" => formatted
    BY <2>1, <2>4 DEF SelectedMode
  <2>6. "UNAVAILABLE" \notin Modes
    BY DEF Modes
  <2>7. profiled /\ mode \in Modes =>
            /\ schema[mode] \in {"valid", "object"} /\ Tried(policy, mode)
            /\ \E one \in Modes : ready[one] = "valid"
    BY <2>2, <2>3, <2>5, <2>6
  <2>8. ModeAnswered
    BY <2>5, <2>7 DEF ModeAnswered, policy, ready, schema, profiled, formatted, mode
  <2>9. FallsBack
    BY <2>2, <2>3, <2>5 DEF FallsBack, policy, ready, schema, profiled, mode
  <2> QED
    BY <2>8, <2>9
<1>3. AdviceAsked /\ EvidenceSound => AdviceAccepted
  <2> SUFFICES ASSUME AdviceAsked, EvidenceSound PROVE AdviceAccepted
    OBVIOUS
  <2>1. (Replied("event advice") /\ answer.follows) =>
            \/ answer.accepted
            \/ question.place # None /\ question.placeMention # None
            \/ question.version = "1.0"
    BY EventsAdvised DEF AdviceAsked, Replied
  <2>2. (Replied("signal advice") /\ answer.follows) =>
            \/ answer.accepted
            \/ question.effect = "UNKNOWN" \/ (question.kind = "PARENT_OF" /\ question.effect = "TERMINATION")
    BY SignalsAdvised DEF AdviceAsked, Replied
  <2>3. (Replied("event advice") /\ answer.code # None) =>
            /\ ~answer.accepted
            /\ answer.code \in {"MENTIONS", "LOCATION", question.actor} \/ question.actor = "UNKNOWN"
    BY EventRuleNamed DEF AdviceAsked, Replied
  <2>4. (Replied("evidence") /\ EvidenceAdvice(question.ref, answer.view)) =>
            Bindable(question.ref, answer.view) /\ answer.window.passed
    BY EvidenceAdvised DEF EvidenceSound, EvidenceHolds, Replied
  <2> QED
    BY <2>1, <2>2, <2>3, <2>4 DEF AdviceAccepted
<1> QED
  BY <1>1, <1>2, <1>3, CallQuestionsAre, NegotiationQuestions, AdviceQuestions, EvidenceIsSound, PTL DEF CallsHandled

\* An event by its fields, with sets of people.
EventFields == {"version", "ids", "mentions", "actor", "actorRef", "place", "placeMention"}

\* Ids of no entity become mentions, and the contract does not mind.
LEMMA RelinkedEvents ==
  ASSUME NEW event, NEW entities, EventContract(event), DOMAIN event = EventFields
  PROVE  LET linked == EventRelinked(event, entities)
         IN /\ EventContract(linked)
            /\ linked.ids \cup linked.mentions = event.ids \cup event.mentions
            /\ {linked.place, linked.placeMention} = {event.place, event.placeMention}
<1> DEFINE linked == EventRelinked(event, entities)
           lost == event.place # None /\ event.place \notin entities
           ids == event.ids \cap entities
           mentions == event.mentions \cup (event.ids \ entities)
           place == IF lost THEN None ELSE event.place
           placeMention == IF lost THEN event.place ELSE event.placeMention
<1>1. CASE event.ids \subseteq entities /\ ~lost
  <2>1. linked = event
    BY <1>1 DEF EventRelinked
  <2> QED
    BY <2>1
<1>2. CASE ~(event.ids \subseteq entities /\ ~lost)
  <2>1. linked = [event EXCEPT !.version = "1.1", !.ids = ids, !.mentions = mentions,
                               !.place = place, !.placeMention = placeMention]
    BY <1>2 DEF EventRelinked
  <2> HIDE DEF linked, ids, mentions, place, placeMention
  <2>2. /\ linked.version = "1.1" /\ linked.actor = event.actor /\ linked.actorRef = event.actorRef
    BY <2>1 DEF EventFields
  <2>3. linked.ids = ids /\ linked.mentions = mentions
    BY <2>1 DEF EventFields
  <2>4. linked.place = place /\ linked.placeMention = placeMention
    BY <2>1 DEF EventFields
  <2>5. ids \cup mentions = event.ids \cup event.mentions
    BY DEF ids, mentions
  <2>6. (ids # {} \/ mentions # {}) <=> (event.ids # {} \/ event.mentions # {})
    BY <2>5
  <2>7. (place = None \/ placeMention = None) /\ {place, placeMention} = {event.place, event.placeMention}
    BY DEF place, placeMention, EventContract
  <2> HIDE DEF lost
  <2>8. EventContract(linked)
    <3>1. linked.version # "1.0"
      BY <2>2
    <3>2. (linked.ids # {} \/ linked.mentions # {}) <=> (event.ids # {} \/ event.mentions # {})
      BY <2>3, <2>6
    <3>3. linked.place = None \/ linked.placeMention = None
      BY <2>4, <2>7
    <3> QED
      BY <2>2, <3>1, <3>2, <3>3 DEF EventContract
  <2> QED
    BY <2>3, <2>4, <2>5, <2>7, <2>8 DEF linked
<1> QED
  BY <1>1, <1>2

\* What the lifting changes is the version.
LEMMA LiftedEvents ==
  ASSUME NEW event, DOMAIN event = EventFields, NEW version,
         NEW lifted \in EventBatchLifted([version |-> version, events |-> {event}]).events
  PROVE  /\ DOMAIN lifted = EventFields
         /\ lifted.ids = event.ids /\ lifted.mentions = event.mentions
         /\ lifted.place = event.place /\ lifted.placeMention = event.placeMention
<1> DEFINE batch == [version |-> version, events |-> {event}]
           other == [event EXCEPT !.version = "1.1"]
           named == \E e \in batch.events : e.mentions # {} \/ e.placeMention # None
           raised == [version |-> "1.1", events |-> {[e EXCEPT !.version = "1.1"] : e \in batch.events}]
<1>1. batch.events = {event}
  OBVIOUS
<1>2. raised.events = {other}
  BY <1>1
<1>3. EventBatchLifted(batch) = IF named THEN raised ELSE batch
  BY DEF EventBatchLifted
<1> HIDE DEF batch, named, raised
<1>4. lifted \in EventBatchLifted(batch).events
  BY DEF batch
<1>5. lifted = event \/ lifted = other
  BY <1>1, <1>2, <1>3, <1>4
<1>6. /\ DOMAIN other = EventFields
      /\ other.ids = event.ids /\ other.mentions = event.mentions
      /\ other.place = event.place /\ other.placeMention = event.placeMention
  BY DEF EventFields
<1> QED
  BY <1>5, <1>6

ClaimFields == {"minor", "type", "scoped", "speaker", "source", "sourceMention", "event", "eventMention"}

\* So for claims, but for those of version 1.0.
LEMMA RelinkedClaims ==
  ASSUME NEW claim, ClaimContract(claim), DOMAIN claim = ClaimFields, claim.minor \in Nat,
         NEW entities, NEW events, NEW claims
  PROVE  \/ ClaimContract(ClaimRelinked(claim, entities, events, claims))
         \/ claim.minor = 0 /\ (claim.type = "ASSERTION" \/ ~claim.scoped)
<1> SUFFICES ASSUME claim.minor # 0 \/ (claim.type # "ASSERTION" /\ claim.scoped)
             PROVE  ClaimContract(ClaimRelinked(claim, entities, events, claims))
  OBVIOUS
<1> DEFINE linked == ClaimRelinked(claim, entities, events, claims)
           known == IF claim.speaker = "CHARACTER" THEN entities ELSE entities \cup events \cup claims
           lostSource == claim.source # None /\ claim.source \notin known
           lostEvent == claim.event # None /\ claim.event \notin events
           source == IF lostSource THEN None ELSE claim.source
           sourceMention == IF lostSource THEN claim.source ELSE claim.sourceMention
           event == IF lostEvent THEN None ELSE claim.event
           eventMention == IF lostEvent THEN claim.event ELSE claim.eventMention
<1>1. claim.type # "ASSERTION" /\ claim.scoped
  BY DEF ClaimContract
<1>2. CASE ~lostSource /\ ~lostEvent
  <2>1. linked = claim
    BY <1>2 DEF ClaimRelinked
  <2> QED
    BY <2>1
<1>3. CASE lostSource \/ lostEvent
  <2>1. linked = [claim EXCEPT !.minor = 3, !.source = source, !.sourceMention = sourceMention,
                               !.event = event, !.eventMention = eventMention]
    BY <1>3 DEF ClaimRelinked
  <2> HIDE DEF linked, source, sourceMention, event, eventMention, lostSource, lostEvent
  <2>2. linked.minor = 3 /\ linked.type = claim.type /\ linked.scoped = claim.scoped /\ linked.speaker = claim.speaker
    BY <2>1 DEF ClaimFields
  <2>3. linked.source = source /\ linked.sourceMention = sourceMention
    BY <2>1 DEF ClaimFields
  <2>4. linked.event = event /\ linked.eventMention = eventMention
    BY <2>1 DEF ClaimFields
  <2>5. source = None \/ sourceMention = None
    BY DEF source, sourceMention, ClaimContract
  <2>6. event = None \/ eventMention = None
    BY DEF event, eventMention, ClaimContract
  <2>7. claim.speaker = "UNKNOWN" => source = None /\ sourceMention = None
    BY DEF source, sourceMention, lostSource, ClaimContract
  <2> QED
    BY <1>1, <2>2, <2>3, <2>4, <2>5, <2>6, <2>7 DEF ClaimContract, linked
<1> QED
  BY <1>2, <1>3

\* A link keeps its state when its proposal is given another id.
LEMMA RenamedStates ==
  ASSUME NEW state, KnowledgeContract(state),
         DOMAIN state = {"target", "kind", "status", "basis", "supported"},
         DOMAIN state.target = {"resolved", "id", "schema"}
  PROVE  KnowledgeContract([state EXCEPT !.target = LinkRenamed(state.target)])
<1> DEFINE link == state.target
           renamed == LinkRenamed(link)
           stored == [state EXCEPT !.target = renamed]
<1>1. /\ renamed.resolved = link.resolved /\ renamed.schema = link.schema
      /\ renamed.id = None <=> link.id = None
  <2>1. CASE link.id = None
    BY <2>1 DEF LinkRenamed
  <2>2. CASE link.id # None
    <3>1. renamed = [link EXCEPT !.id = "global"]
      BY <2>2 DEF LinkRenamed
    <3>2. renamed.resolved = link.resolved /\ renamed.schema = link.schema /\ renamed.id = "global"
      BY <3>1
    <3> QED
      BY <2>2, <3>2 DEF None
  <2> QED
    BY <2>1, <2>2
<1> HIDE DEF renamed
<1>2. /\ stored.target = renamed /\ stored.kind = state.kind /\ stored.status = state.status
      /\ stored.basis = state.basis /\ stored.supported = state.supported
  OBVIOUS
<1> HIDE DEF stored
<1>3. KnowledgeContract(stored)
  <2>1. LinkContract(stored.target, KnowledgeSchema(stored.kind))
    <3>1. LinkContract(link, KnowledgeSchema(state.kind))
      BY DEF KnowledgeContract
    <3> QED
      BY <1>1, <1>2, <3>1 DEF LinkContract
  <2> QED
    BY <1>2, <2>1 DEF KnowledgeContract
<1> QED
  BY <1>3 DEF stored, renamed

ChangeFields ==
    {"minor", "path", "kind", "old", "new", "persistent", "supports", "lasts", "evidence"}

\* A change whose evidence was rewritten keeps its contract, and the chunk
\* that owns it holds the quote of its first support, in texts of any length.
LEMMA RewrittenChanges ==
  ASSUME NEW K, NEW C, NEW view, IsView(view, K, C),
         NEW change, DOMAIN change = ChangeFields, ChangeContract(change),
         change.supports \in Seq(Nat), change.evidence \in Seq(RefsOf(K, C)),
         \A i \in DOMAIN change.evidence : Bindable(change.evidence[i], view)
  PROVE  LET kept == [change EXCEPT !.evidence = Rewritten(change.evidence, view)]
         IN /\ ChangeContract(kept)
            /\ \E chunk \in DOMAIN view :
                /\ {c \in DOMAIN view : ChangeOwnedBy(kept, {c})} = {chunk}
                /\ Occurs(change.evidence[change.supports[1] + 1].quote, view[chunk])
<1> DEFINE evidence == change.evidence
           supports == change.supports
           rewritten == Rewritten(evidence, view)
           kept == [change EXCEPT !.evidence = rewritten]
           at == supports[1] + 1
<1>1. /\ kept.minor = change.minor /\ kept.path = change.path /\ kept.kind = change.kind
      /\ kept.old = change.old /\ kept.new = change.new
  BY DEF ChangeFields
<1>2. /\ kept.persistent = change.persistent /\ kept.supports = supports
      /\ kept.lasts = change.lasts /\ kept.evidence = rewritten
  BY DEF ChangeFields
<1>3. DOMAIN rewritten = 1..Len(evidence) /\ rewritten \in Seq({Normalised(evidence[i], view) : i \in 1..Len(evidence)})
  BY DEF Rewritten
<1>4. Len(rewritten) = Len(evidence)
  BY <1>3
<1>5. IndexesFit(supports, Len(evidence), TRUE)
  BY DEF ChangeContract
<1>6. supports # <<>> /\ 1 \in DOMAIN supports
  <2>1. supports # <<>>
    BY <1>5 DEF IndexesFit
  <2> QED
    BY <2>1
<1>7. supports[1] \in Nat /\ supports[1] < Len(evidence)
  BY <1>5, <1>6 DEF IndexesFit
<1>8. at \in 1..Len(evidence)
  BY <1>7
<1> DEFINE ref == evidence[at]
           new == Normalised(ref, view)
<1>9. rewritten[at] = new /\ ref \in RefsOf(K, C) /\ Bindable(ref, view)
  BY <1>8 DEF Rewritten
<1> HIDE DEF rewritten, kept, at
<1>10. ChangeContract(kept)
  BY <1>1, <1>2, <1>4 DEF ChangeContract
<1> HIDE DEF ref, new
<1>11. new.chunk \in Matching(ref, view)
  BY <1>9, NormalisedFits DEF Bindable, new
<1>12. new.chunk \in DOMAIN view /\ Occurs(ref.quote, view[new.chunk])
  BY <1>11 DEF Matching
<1>13. \A c : ChangeOwnedBy(kept, {c}) <=> c = new.chunk
  BY <1>2, <1>4, <1>6, <1>7, <1>9 DEF ChangeOwnedBy, at
<1>14. {c \in DOMAIN view : ChangeOwnedBy(kept, {c})} = {new.chunk}
  BY <1>12, <1>13
<1> HIDE DEF evidence
<1> QED
  BY <1>10, <1>12, <1>14 DEF kept, rewritten, ref, at, evidence, supports

\* What Python calls different the aggregation calls different too.
LEMMA MergedChanges ==
  ASSUME NEW one, NEW two, ChangeBatchContract(<<one, two>>)
  PROVE  Cardinality({ChangeMergeKey(<<one, two>>[i]) : i \in DOMAIN <<one, two>>}) = 2
<1> DEFINE pair == <<one, two>>
           first == ChangeMergeKey(one)
           second == ChangeMergeKey(two)
<1>1. DOMAIN pair = {1, 2} /\ pair[1] = one /\ pair[2] = two
  OBVIOUS
<1>2. ChangeBatchKey(pair[1]) # ChangeBatchKey(pair[2])
  BY <1>1 DEF ChangeBatchContract
<1>3. ChangeBatchKey(one) # ChangeBatchKey(two)
  BY <1>1, <1>2
<1>4. first # second
  BY <1>3 DEF ChangeBatchKey, ChangeMergeKey
<1> HIDE DEF pair
<1>5. {ChangeMergeKey(pair[i]) : i \in DOMAIN pair} = {first, second}
  BY <1>1
<1> HIDE DEF first, second
<1>6. Cardinality({first}) = 1 /\ IsFiniteSet({first})
  BY FS_Singleton
<1>7. Cardinality({first} \cup {second}) = 2
  BY <1>4, <1>6, FS_AddElement
<1>8. {first} \cup {second} = {first, second}
  OBVIOUS
<1> QED
  BY <1>5, <1>7, <1>8 DEF pair

SignalFields ==
    {"kind", "subject", "counterpart", "effect", "denied", "basis", "support", "speaker", "anchored", "evidence"}

\* Whoever is named first, a relationship between equals is the same signal.
LEMMA SwappedSignals ==
  ASSUME NEW signal, DOMAIN signal = SignalFields, SignalContract(signal),
         signal.subject.resolved \in BOOLEAN
  PROVE  LET swapped == [signal EXCEPT !.subject = signal.counterpart, !.counterpart = signal.subject]
         IN IF signal.kind \in Symmetric
            THEN SignalContract(swapped) /\ SignalKey(swapped) = SignalKey(signal)
            ELSE SignalKey(swapped) # SignalKey(signal)
<1> DEFINE subject == signal.subject
           counterpart == signal.counterpart
           swapped == [signal EXCEPT !.subject = counterpart, !.counterpart = subject]
<1>1. swapped.subject = counterpart /\ swapped.counterpart = subject
  BY DEF SignalFields
<1>2. /\ swapped.kind = signal.kind /\ swapped.effect = signal.effect /\ swapped.denied = signal.denied
      /\ swapped.basis = signal.basis /\ swapped.support = signal.support
  BY DEF SignalFields
<1>3. /\ swapped.speaker = signal.speaker /\ swapped.anchored = signal.anchored
      /\ swapped.evidence = signal.evidence
  BY DEF SignalFields
<1> HIDE DEF swapped
<1>4. CASE signal.kind \in Symmetric
  <2>1. PairAllowed(signal.kind, counterpart.kind, subject.kind)
    <3>1. PairAllowed(signal.kind, subject.kind, counterpart.kind)
      BY DEF SignalContract
    <3>2. signal.kind \notin {"MEMBER_OF", "LEADS", "COMMANDS", "REPORTS_TO", "MASTER_OF", "DISCIPLE_OF"}
      BY <1>4 DEF Symmetric
    <3>3. {subject.kind, counterpart.kind} = {counterpart.kind, subject.kind}
      OBVIOUS
    <3> QED
      BY <3>1, <3>2, <3>3 DEF PairAllowed
  <2>2. ~SameIdentity(counterpart, subject)
    BY DEF SignalContract, SameIdentity
  <2>3. SignalContract(swapped)
    BY <1>1, <1>2, <1>3, <2>1, <2>2 DEF SignalContract
  <2>4. {counterpart, subject} = {subject, counterpart}
    OBVIOUS
  <2>5. SignalKey(swapped) = SignalKey(signal)
    BY <1>1, <1>2, <1>3, <1>4, <2>4 DEF SignalKey
  <2> QED
    BY <1>4, <2>3, <2>5 DEF swapped
<1>5. CASE signal.kind \notin Symmetric
  <2>1. subject # counterpart
    BY DEF SignalContract, SameIdentity
  <2>2. SignalKey(signal)[8] = <<subject, counterpart>> /\ SignalKey(swapped)[8] = <<counterpart, subject>>
    BY <1>1, <1>2, <1>5 DEF SignalKey
  <2>3. <<subject, counterpart>> # <<counterpart, subject>>
    BY <2>1
  <2>4. SignalKey(swapped) # SignalKey(signal)
    BY <2>2, <2>3
  <2> QED
    BY <1>5, <2>4 DEF swapped
<1> QED
  BY <1>4, <1>5

\* Evidence rewritten repeats a reference only where it repeated a quote.
LEMMA RewrittenSignals ==
  ASSUME NEW K, NEW C, NEW view, IsView(view, K, C),
         NEW signal, DOMAIN signal = SignalFields, SignalContract(signal),
         \/ Len(signal.evidence) = 1 /\ DOMAIN signal.evidence = {1}
         \/ signal.evidence \in Seq(RefsOf(K, C))
  PROVE  \/ SignalContract([signal EXCEPT !.evidence = Rewritten(signal.evidence, view)])
         \/ \E i, j \in DOMAIN signal.evidence : i # j /\ signal.evidence[i].quote = signal.evidence[j].quote
<1> DEFINE evidence == signal.evidence
           rewritten == Rewritten(evidence, view)
           stored == [signal EXCEPT !.evidence = rewritten]
<1> SUFFICES ASSUME \A i, j \in DOMAIN evidence : i # j => evidence[i].quote # evidence[j].quote
             PROVE  SignalContract(stored)
  OBVIOUS
<1>1. DOMAIN rewritten = DOMAIN evidence /\ \A i \in DOMAIN evidence : rewritten[i] = Normalised(evidence[i], view)
  BY DEF Rewritten
<1>2. ~Repeated(rewritten)
  <2>1. CASE Len(evidence) = 1 /\ DOMAIN evidence = {1}
    BY <1>1, <2>1 DEF Repeated
  <2>2. CASE evidence \in Seq(RefsOf(K, C))
    <3>1. \A i \in DOMAIN evidence : rewritten[i].quote = evidence[i].quote
      <4> SUFFICES ASSUME NEW i \in DOMAIN evidence PROVE rewritten[i].quote = evidence[i].quote
        OBVIOUS
      <4> DEFINE ref == evidence[i]
      <4>1. ref \in RefsOf(K, C)
        BY <2>2
      <4> HIDE DEF ref
      <4>2. Normalised(ref, view).quote = ref.quote
        BY <4>1, NormalisedFits
      <4> QED
        BY <1>1, <4>2 DEF ref
    <3> HIDE DEF rewritten, evidence
    <3> QED
      BY <1>1, <3>1 DEF Repeated
  <2> QED
    BY <2>1, <2>2
<1>3. Len(rewritten) = Len(evidence)
  <2>1. DOMAIN evidence = 1..Len(evidence) /\ Len(evidence) \in Nat
    <3>1. CASE Len(evidence) = 1 /\ DOMAIN evidence = {1}
      BY <3>1
    <3>2. CASE evidence \in Seq(RefsOf(K, C))
      BY <3>2
    <3> QED
      BY <3>1, <3>2
  <2> DEFINE n == Len(evidence)
  <2> HIDE DEF n
  <2>2. n \in Nat /\ DOMAIN evidence = 1..n
    BY <2>1 DEF n
  <2>3. rewritten = [i \in 1..n |-> Normalised(evidence[i], view)]
    BY <2>2 DEF Rewritten
  <2> DEFINE V == {Normalised(evidence[i], view) : i \in 1..n}
  <2>4. rewritten \in [1..n -> V]
    BY <2>3
  <2>5. Len(rewritten) = n
    BY <2>2, <2>4, LenProperties
  <2> QED
    BY <2>5 DEF n
<1>4. /\ stored.subject = signal.subject /\ stored.counterpart = signal.counterpart
      /\ stored.kind = signal.kind /\ stored.effect = signal.effect /\ stored.denied = signal.denied
  BY DEF SignalFields
<1>5. /\ stored.basis = signal.basis /\ stored.support = signal.support
      /\ stored.speaker = signal.speaker /\ stored.anchored = signal.anchored
      /\ stored.evidence = rewritten
  BY DEF SignalFields
<1> HIDE DEF stored, rewritten, evidence
<1> QED
  BY <1>2, <1>3, <1>4, <1>5 DEF SignalContract, evidence

\* What is asked about events, claims and states of knowledge.
EventsAsked ==
    topic = "event" =>
        /\ \A event \in question.batch.events :
            /\ EventContract(event) /\ DOMAIN event = EventFields
            /\ event.ids = question.raw.ids /\ event.mentions = question.raw.mentions
            /\ event.place = question.raw.place /\ event.placeMention = question.raw.placeMention
        /\ answered => answer = {EventRelinked(event, question.entities) : event \in question.batch.events}

ClaimsAsked ==
    topic = "claim" =>
        /\ ClaimContract(question.claim) /\ DOMAIN question.claim = ClaimFields /\ question.claim.minor \in Nat
        /\ answered =>
            answer = ClaimRelinked(question.claim, question.entities, question.events, question.claims)

StatesAsked ==
    topic = "knowledge" =>
        /\ KnowledgeContract(question)
        /\ DOMAIN question = {"target", "kind", "status", "basis", "supported"}
        /\ DOMAIN question.target = {"resolved", "id", "schema"}
        /\ answered => answer = [question EXCEPT !.target = LinkRenamed(question.target)]

LEMMA EventQuestions == Spec => []EventsAsked
<1>1. Init => EventsAsked
  <2> SUFFICES ASSUME Init, topic = "event" PROVE EventsAsked
    BY DEF EventsAsked
  <2>1. AskEvent /\ ~answered
    BY Topics
  <2>2. PICK raw \in RawEvents, version \in {"1.0", "1.1"}, entities \in SUBSET {"x", "y", "z"} :
          /\ EventBatchContract(EventBatchLifted([version |-> version, events |-> {raw}]))
          /\ question = [batch |-> EventBatchLifted([version |-> version, events |-> {raw}]),
                         raw |-> raw, entities |-> entities]
    BY <2>1 DEF AskEvent, Ask
  <2> DEFINE batch == EventBatchLifted([version |-> version, events |-> {raw}])
  <2>3. \A event \in batch.events : EventContract(event)
    BY <2>2 DEF EventBatchContract
  <2>4. DOMAIN raw = EventFields
    BY DEF RawEvents, EventFields
  <2>5. \A event \in batch.events :
            /\ DOMAIN event = EventFields
            /\ event.ids = raw.ids /\ event.mentions = raw.mentions
            /\ event.place = raw.place /\ event.placeMention = raw.placeMention
    BY <2>4, LiftedEvents
  <2> HIDE DEF batch
  <2>6. question.batch = batch /\ question.raw = raw
    BY <2>2 DEF batch
  <2> QED
    BY <2>1, <2>3, <2>5, <2>6 DEF EventsAsked
<1>2. EventsAsked /\ [Next]_vars => EventsAsked'
  <2> SUFFICES ASSUME EventsAsked, [Next]_vars, topic' = "event" PROVE EventsAsked'
    BY DEF EventsAsked
  <2>1. CASE UNCHANGED vars
    BY <2>1 DEF EventsAsked, vars
  <2>2. CASE Next
    <3>1. AnswerEvent /\ topic' = topic /\ question' = question
      BY <2>2, Topics
    <3> QED
      BY <3>1 DEF EventsAsked, AnswerEvent
  <2> QED
    BY <2>1, <2>2
<1> QED
  BY <1>1, <1>2, PTL DEF Spec

LEMMA ClaimQuestions == Spec => []ClaimsAsked
<1>1. Init => ClaimsAsked
  <2> SUFFICES ASSUME Init, topic = "claim" PROVE ClaimsAsked
    BY DEF ClaimsAsked
  <2>1. AskClaim /\ ~answered
    BY Topics
  <2>2. PICK claim \in RawClaims, entities \in SUBSET {"x"}, claims \in SUBSET {"x"}, events \in SUBSET {"e", "x"} :
          /\ ClaimBatchContract([minor |-> claim.minor, claims |-> {claim}])
          /\ question = [claim |-> claim, entities |-> entities, events |-> events, claims |-> claims]
    BY <2>1 DEF AskClaim, Ask
  <2>3. ClaimContract(claim)
    BY <2>2 DEF ClaimBatchContract
  <2>4. DOMAIN claim = ClaimFields /\ claim.minor \in Nat
    BY DEF RawClaims, ClaimFields
  <2>5. question.claim = claim
    BY <2>2
  <2> QED
    BY <2>1, <2>3, <2>4, <2>5 DEF ClaimsAsked
<1>2. ClaimsAsked /\ [Next]_vars => ClaimsAsked'
  <2> SUFFICES ASSUME ClaimsAsked, [Next]_vars, topic' = "claim" PROVE ClaimsAsked'
    BY DEF ClaimsAsked
  <2>1. CASE UNCHANGED vars
    BY <2>1 DEF ClaimsAsked, vars
  <2>2. CASE Next
    <3>1. AnswerClaim /\ topic' = topic /\ question' = question
      BY <2>2, Topics
    <3> QED
      BY <3>1 DEF ClaimsAsked, AnswerClaim
  <2> QED
    BY <2>1, <2>2
<1> QED
  BY <1>1, <1>2, PTL DEF Spec

LEMMA StateQuestions == Spec => []StatesAsked
<1>1. Init => StatesAsked
  <2> SUFFICES ASSUME Init, topic = "knowledge" PROVE StatesAsked
    BY DEF StatesAsked
  <2>1. AskState /\ ~answered
    BY Topics
  <2>2. question \in RawStates /\ KnowledgeContract(question)
    BY <2>1 DEF AskState, Ask
  <2>3. DOMAIN question = {"target", "kind", "status", "basis", "supported"} /\ question.target \in RawLinks
    BY <2>2 DEF RawStates
  <2>4. DOMAIN question.target = {"resolved", "id", "schema"}
    BY <2>3 DEF RawLinks
  <2> QED
    BY <2>1, <2>2, <2>3, <2>4 DEF StatesAsked
<1>2. StatesAsked /\ [Next]_vars => StatesAsked'
  <2> SUFFICES ASSUME StatesAsked, [Next]_vars, topic' = "knowledge" PROVE StatesAsked'
    BY DEF StatesAsked
  <2>1. CASE UNCHANGED vars
    BY <2>1 DEF StatesAsked, vars
  <2>2. CASE Next
    <3>1. AnswerState /\ topic' = topic /\ question' = question
      BY <2>2, Topics
    <3> QED
      BY <3>1 DEF StatesAsked, AnswerState
  <2> QED
    BY <2>1, <2>2
<1> QED
  BY <1>1, <1>2, PTL DEF Spec

Alphabet == {"a", "b"}

\* The evidence of changes and signals, and the window it is from.
LEMMA PairsAre ==
  /\ IsView(Chunks, 1..3, Alphabet)
  /\ \A pair \in Pairs : pair \in Seq(RefsOf(1..3, Alphabet))
<1> DEFINE a == "a"
           b == "b"
           first == <<a>>
           second == <<b>>
<1>1. DOMAIN Chunks = 1..2 /\ Chunks[1] = first /\ Chunks[2] = second
  <2> HIDE DEF first, second
  <2>1. Chunks = <<first, second>>
    BY DEF Chunks, first, second
  <2> QED
    BY <2>1
<1>2. first \in Seq(Alphabet) /\ second \in Seq(Alphabet)
  <2>1. a \in Alphabet /\ b \in Alphabet
    BY DEF Alphabet
  <2> HIDE DEF a, b
  <2> QED
    BY <2>1
<1>3. \A c \in DOMAIN Chunks : Chunks[c] \in Seq(Alphabet)
  <2> HIDE DEF first, second
  <2> SUFFICES ASSUME NEW c \in 1..2 PROVE Chunks[c] \in Seq(Alphabet)
    BY <1>1
  <2>1. c = 1 \/ c = 2
    OBVIOUS
  <2> QED
    BY <1>1, <1>2, <2>1
<1>4. IsFiniteSet(1..2)
  <2> DEFINE n == 2
             m == 1
  <2>1. n \in Int /\ m \in Int
    OBVIOUS
  <2> HIDE DEF n, m
  <2>2. IsFiniteSet(m..n)
    BY <2>1, FS_Interval
  <2> QED
    BY <2>2 DEF n, m
<1>5. IsView(Chunks, 1..3, Alphabet)
  BY <1>1, <1>3, <1>4 DEF IsView
<1> HIDE DEF a, b, first, second
<1>6. ASSUME NEW ref \in Refs, (ref.start = Absent) = (ref.stop = Absent)
      PROVE  ref \in RefsOf(1..3, Alphabet)
  <2>1. /\ ref \in [chunk : 1..3, start : {Absent, 0}, stop : {Absent, 1}, quote : {first, second}]
    BY DEF Refs, a, b, first, second
  <2>2. ref \in [chunk : 1..3, start : Int, stop : Int, quote : Seq(Alphabet)]
    BY <1>2, <2>1 DEF Absent
  <2>3. ref.start # Absent => ref.start \in Nat /\ ref.stop > ref.start
    BY <1>6, <2>1 DEF Absent
  <2> QED
    BY <1>6, <2>2, <2>3 DEF RefsOf
<1>7. ASSUME NEW pair \in Pairs PROVE pair \in Seq(RefsOf(1..3, Alphabet))
  <2> DEFINE whole == {ref \in Refs : (ref.start = Absent) = (ref.stop = Absent)}
  <2>1. PICK one \in whole, two \in whole : pair = <<one, two>>
    BY DEF Pairs
  <2>2. one \in RefsOf(1..3, Alphabet) /\ two \in RefsOf(1..3, Alphabet)
    BY <1>6
  <2> QED
    BY <2>1, <2>2
<1> QED
  BY <1>5, <1>7

\* What is asked about changes and signals.
ChangeAsked ==
    topic = "change" =>
        /\ ChangeContract(question) /\ DOMAIN question = ChangeFields
        /\ question.supports \in Seq(Nat) /\ question.evidence \in Seq(RefsOf(1..3, Alphabet))
        /\ \A i \in DOMAIN question.evidence : Bindable(question.evidence[i], Chunks)
        /\ answered => answer = [question EXCEPT !.evidence = Rewritten(question.evidence, Chunks)]

ChangesAsked ==
    topic = "changes" =>
        /\ \E one, two : question = <<one, two>>
        /\ ChangeBatchContract(question)
        /\ answered => answer = {ChangeMergeKey(question[i]) : i \in DOMAIN question}

SignalAsked ==
    topic = "signal" =>
        /\ SignalContract(question) /\ DOMAIN question = SignalFields
        /\ question.subject.resolved \in BOOLEAN
        /\ \/ Len(question.evidence) = 1 /\ DOMAIN question.evidence = {1}
           \/ question.evidence \in Seq(RefsOf(1..3, Alphabet))
        /\ answered =>
            /\ answer.stored = [question EXCEPT !.evidence = Rewritten(question.evidence, Chunks)]
            /\ answer.swapped = [question EXCEPT !.subject = question.counterpart, !.counterpart = question.subject]

LEMMA ChangeQuestions == Spec => []ChangeAsked
<1>1. Init => ChangeAsked
  <2> SUFFICES ASSUME Init, topic = "change" PROVE ChangeAsked
    BY DEF ChangeAsked
  <2>1. AskChange /\ ~answered
    BY Topics
  <2>2. PICK path \in {"location", "quantity"}, evidence \in Pairs, supports \in Indexes, lasts \in Indexes,
             persistent \in BOOLEAN :
          LET change == Change(path, "OBJECT", "null", IF path = "quantity" THEN "1" ELSE "text",
                               persistent, supports, lasts, evidence)
          IN /\ ChangeContract(change)
             /\ \A i \in DOMAIN evidence : Bindable(evidence[i], Chunks)
             /\ question = change
    BY <2>1 DEF AskChange, Ask
  <2> DEFINE value == IF path = "quantity" THEN "1" ELSE "text"
  <2> HIDE DEF value
  <2>3. /\ question = Change(path, "OBJECT", "null", value, persistent, supports, lasts, evidence)
        /\ ChangeContract(question)
        /\ \A i \in DOMAIN evidence : Bindable(evidence[i], Chunks)
    BY <2>2 DEF value
  <2> DEFINE kind == "OBJECT"
             old == "null"
  <2> HIDE DEF kind, old
  <2>4. DOMAIN question = ChangeFields /\ question.supports = supports /\ question.evidence = evidence
    <3>1. question = Change(path, kind, old, value, persistent, supports, lasts, evidence)
      BY <2>3 DEF kind, old
    <3> QED
      BY <3>1 DEF Change, ChangeFields
  <2>5. supports \in Seq(Nat)
    <3> DEFINE zero == 0
               one == 1
               two == 2
    <3>1. zero \in Nat /\ one \in Nat /\ two \in Nat
      OBVIOUS
    <3>2. Indexes = {<<>>, <<zero>>, <<one>>, <<two>>, <<zero, zero>>, <<zero, one>>, <<one, zero>>}
      BY DEF Indexes
    <3> HIDE DEF zero, one, two
    <3>3. \A i, j \in Nat : <<>> \in Seq(Nat) /\ <<i>> \in Seq(Nat) /\ <<i, j>> \in Seq(Nat)
      OBVIOUS
    <3> QED
      BY <3>1, <3>2, <3>3
  <2>6. evidence \in Seq(RefsOf(1..3, Alphabet))
    BY PairsAre
  <2> QED
    BY <2>1, <2>3, <2>4, <2>5, <2>6 DEF ChangeAsked
<1>2. ChangeAsked /\ [Next]_vars => ChangeAsked'
  <2> SUFFICES ASSUME ChangeAsked, [Next]_vars, topic' = "change" PROVE ChangeAsked'
    BY DEF ChangeAsked
  <2>1. CASE UNCHANGED vars
    BY <2>1 DEF ChangeAsked, vars
  <2>2. CASE Next
    <3>1. AnswerChange /\ topic' = topic /\ question' = question
      BY <2>2, Topics
    <3> QED
      BY <3>1 DEF ChangeAsked, AnswerChange
  <2> QED
    BY <2>1, <2>2
<1> QED
  BY <1>1, <1>2, PTL DEF Spec

LEMMA ChangesQuestions == Spec => []ChangesAsked
<1>1. Init => ChangesAsked
  <2> SUFFICES ASSUME Init, topic = "changes" PROVE ChangesAsked
    BY DEF ChangesAsked
  <2>1. AskChanges /\ ~answered
    BY Topics
  <2>2. \E one, two : ChangeBatchContract(<<one, two>>) /\ question = <<one, two>>
    BY <2>1 DEF AskChanges, Ask
  <2> QED
    BY <2>1, <2>2 DEF ChangesAsked
<1>2. ChangesAsked /\ [Next]_vars => ChangesAsked'
  <2> SUFFICES ASSUME ChangesAsked, [Next]_vars, topic' = "changes" PROVE ChangesAsked'
    BY DEF ChangesAsked
  <2>1. CASE UNCHANGED vars
    BY <2>1 DEF ChangesAsked, vars
  <2>2. CASE Next
    <3>1. AnswerChanges /\ topic' = topic /\ question' = question
      BY <2>2, Topics
    <3> QED
      BY <3>1 DEF ChangesAsked, AnswerChanges
  <2> QED
    BY <2>1, <2>2
<1> QED
  BY <1>1, <1>2, PTL DEF Spec

\* A signal by its parts.
LEMMA SignalHas ==
  ASSUME NEW kind, NEW subject, NEW counterpart, NEW effect, NEW basis, NEW support, NEW evidence
  PROVE  LET signal == Signal(kind, subject, counterpart, effect, basis, support, evidence)
         IN /\ DOMAIN signal = SignalFields
            /\ signal.subject = subject /\ signal.evidence = evidence
  BY DEF Signal, SignalFields

LEMMA SignalQuestions == Spec => []SignalAsked
<1>1. Init => SignalAsked
  <2> SUFFICES ASSUME Init, topic = "signal" PROVE SignalAsked
    BY DEF SignalAsked
  <2>1. AskSignal /\ ~answered
    BY Topics
  <2> DEFINE one == CHOOSE ref \in Refs : ref.chunk = 1
  <2>2. CASE \E kind \in RelationshipKinds, subject, counterpart \in Participants, effect \in {"PRESENT", "TERMINATION"} :
               question = Signal(kind, subject, counterpart, effect, "NARRATED", "EXPLICIT", <<one>>)
    <3> DEFINE basis == "NARRATED"
               support == "EXPLICIT"
               evidence == <<one>>
    <3>1. PICK kind \in RelationshipKinds, subject \in Participants, counterpart \in Participants,
               effect \in {"PRESENT", "TERMINATION"} :
            question = Signal(kind, subject, counterpart, effect, basis, support, evidence)
      BY <2>2
    <3>2. Len(evidence) = 1 /\ DOMAIN evidence = {1}
      OBVIOUS
    <3> HIDE DEF basis, support, evidence
    <3>3. DOMAIN question = SignalFields /\ question.subject = subject /\ question.evidence = evidence
      BY <3>1, SignalHas
    <3>4. subject.resolved \in BOOLEAN
      BY DEF Participants
    <3>5. SignalContract(question)
      BY <2>1 DEF AskSignal
    <3> QED
      BY <2>1, <3>2, <3>3, <3>4, <3>5 DEF SignalAsked
  <2>3. CASE ~\E kind \in RelationshipKinds, subject, counterpart \in Participants, effect \in {"PRESENT", "TERMINATION"} :
               question = Signal(kind, subject, counterpart, effect, "NARRATED", "EXPLICIT", <<one>>)
    <3> DEFINE kind == "TRUSTS"
               first == Mention("x", "CHARACTER")
               second == Mention("y", "ORGANIZATION")
    <3>1. PICK effect \in {"PRESENT", "FORMATION", "DENIAL", "UNKNOWN"}, support \in {"EXPLICIT", "STRONG", "LIMITED"},
               basis \in {"DIRECT_STATEMENT", "NARRATED", "OBSERVED_ACTION", "INFERRED"}, evidence \in Pairs :
            question = Signal(kind, first, second, effect, basis, support, evidence)
      BY <2>1, <2>3 DEF AskSignal
    <3>2. first.resolved = FALSE
      BY DEF Mention
    <3> HIDE DEF kind, first, second
    <3>3. DOMAIN question = SignalFields /\ question.subject = first /\ question.evidence = evidence
      BY <3>1, SignalHas
    <3>4. evidence \in Seq(RefsOf(1..3, Alphabet))
      BY PairsAre
    <3>5. SignalContract(question)
      BY <2>1 DEF AskSignal
    <3> QED
      BY <2>1, <3>2, <3>3, <3>4, <3>5 DEF SignalAsked
  <2> QED
    BY <2>2, <2>3
<1>2. SignalAsked /\ [Next]_vars => SignalAsked'
  <2> SUFFICES ASSUME SignalAsked, [Next]_vars, topic' = "signal" PROVE SignalAsked'
    BY DEF SignalAsked
  <2>1. CASE UNCHANGED vars
    BY <2>1 DEF SignalAsked, vars
  <2>2. CASE Next
    <3>1. AnswerSignal /\ topic' = topic /\ question' = question
      BY <2>2, Topics
    <3> DEFINE stored == [question EXCEPT !.evidence = Rewritten(question.evidence, Chunks)]
               swapped == [question EXCEPT !.subject = question.counterpart, !.counterpart = question.subject]
    <3>2. answer' = [stored |-> stored, swapped |-> swapped]
      BY <3>1 DEF AnswerSignal
    <3> HIDE DEF stored, swapped
    <3>3. answer'.stored = stored /\ answer'.swapped = swapped
      BY <3>2
    <3> QED
      BY <3>1, <3>3 DEF SignalAsked, stored, swapped
  <2> QED
    BY <2>1, <2>2
<1> QED
  BY <1>1, <1>2, PTL DEF Spec

\* What one contract accepts the next one reads, owns once and judges alike: proposals
\* that the aggregation links anew (claims of version 1.0 aside), state changes and
\* relationship signals whose evidence the window normalised, and their merging
\* (aggregate_narrative_analysis, the proposals' Pydantic schemas, the window's owned
\* changes); by the lemmas for any entities, any evidence and texts of any length.
THEOREM ContractsDoAgree == Spec => []ContractsAgree
<1>1. EventsAsked /\ ClaimsAsked /\ StatesAsked => AcceptedReread
  <2> SUFFICES ASSUME EventsAsked, ClaimsAsked, StatesAsked PROVE AcceptedReread
    OBVIOUS
  <2>1. ASSUME Replied("event"), NEW event \in answer
        PROVE  /\ EventContract(event)
               /\ event.ids \cup event.mentions = question.raw.ids \cup question.raw.mentions
               /\ {event.place, event.placeMention} = {question.raw.place, question.raw.placeMention}
    <3>1. PICK e \in question.batch.events : event = EventRelinked(e, question.entities)
      BY <2>1 DEF EventsAsked, Replied
    <3>2. /\ EventContract(e) /\ DOMAIN e = EventFields
          /\ e.ids = question.raw.ids /\ e.mentions = question.raw.mentions
          /\ e.place = question.raw.place /\ e.placeMention = question.raw.placeMention
      BY <2>1 DEF EventsAsked, Replied
    <3>3. /\ EventContract(event)
          /\ event.ids \cup event.mentions = e.ids \cup e.mentions
          /\ {event.place, event.placeMention} = {e.place, e.placeMention}
      BY <3>1, <3>2, RelinkedEvents
    <3> QED
      BY <3>2, <3>3
  <2>2. Replied("claim") =>
            \/ ClaimContract(answer)
            \/ question.claim.minor = 0 /\ (question.claim.type = "ASSERTION" \/ ~question.claim.scoped)
    BY RelinkedClaims DEF ClaimsAsked, Replied
  <2>3. Replied("knowledge") => KnowledgeContract(answer)
    BY RenamedStates DEF StatesAsked, Replied
  <2> QED
    BY <2>1, <2>2, <2>3 DEF AcceptedReread
<1>2. ChangeAsked => ChangeOwnedOnce
  <2> SUFFICES ASSUME ChangeAsked, topic = "change", answered PROVE ChangeOwnedOnce
    BY DEF ChangeOwnedOnce, Replied
  <2> DEFINE change == question
             view == Chunks
             K == 1..3
  <2>1. /\ DOMAIN change = ChangeFields /\ ChangeContract(change)
        /\ change.supports \in Seq(Nat) /\ change.evidence \in Seq(RefsOf(K, Alphabet))
        /\ \A i \in DOMAIN change.evidence : Bindable(change.evidence[i], view)
        /\ answer = [change EXCEPT !.evidence = Rewritten(change.evidence, view)]
    BY DEF ChangeAsked
  <2>2. IsView(view, K, Alphabet)
    BY PairsAre
  <2> HIDE DEF change, view, K
  <2>3. /\ ChangeContract(answer)
        /\ \E chunk \in DOMAIN view :
            /\ {c \in DOMAIN view : ChangeOwnedBy(answer, {c})} = {chunk}
            /\ Occurs(change.evidence[change.supports[1] + 1].quote, view[chunk])
    BY <2>1, <2>2, RewrittenChanges
  <2> QED
    BY <2>3 DEF ChangeOwnedOnce, change, view
<1>3. ChangesAsked => KeptApart
  BY MergedChanges DEF ChangesAsked, KeptApart, Replied
<1>4. SignalAsked => SwapIsSame /\ SignalReread
  <2> SUFFICES ASSUME SignalAsked, topic = "signal", answered PROVE SwapIsSame /\ SignalReread
    BY DEF SwapIsSame, SignalReread, Replied
  <2> DEFINE signal == question
             view == Chunks
             K == 1..3
  <2>1. /\ DOMAIN signal = SignalFields /\ SignalContract(signal) /\ signal.subject.resolved \in BOOLEAN
        /\ \/ Len(signal.evidence) = 1 /\ DOMAIN signal.evidence = {1}
           \/ signal.evidence \in Seq(RefsOf(K, Alphabet))
        /\ answer.stored = [signal EXCEPT !.evidence = Rewritten(signal.evidence, view)]
        /\ answer.swapped = [signal EXCEPT !.subject = signal.counterpart, !.counterpart = signal.subject]
    BY DEF SignalAsked
  <2>2. IsView(view, K, Alphabet)
    BY PairsAre
  <2> HIDE DEF signal, view, K
  <2>3. IF signal.kind \in Symmetric
        THEN SignalContract(answer.swapped) /\ SignalKey(answer.swapped) = SignalKey(signal)
        ELSE SignalKey(answer.swapped) # SignalKey(signal)
    BY <2>1, SwappedSignals
  <2>4. \/ SignalContract(answer.stored)
        \/ \E i, j \in DOMAIN signal.evidence : i # j /\ signal.evidence[i].quote = signal.evidence[j].quote
    BY <2>1, <2>2, RewrittenSignals
  <2> QED
    BY <2>3, <2>4 DEF SwapIsSame, SignalReread, signal
<1> QED
  BY <1>1, <1>2, <1>3, <1>4, EventQuestions, ClaimQuestions, StateQuestions, ChangeQuestions, ChangesQuestions,
     SignalQuestions, PTL DEF ContractsAgree

(***************************************************************************)
(* What is asked about texts, audits and imports.                          *)
(***************************************************************************)

\* What is asked about texts.
TextIsAsked ==
    topic = "text" =>
        /\ question.text \in Seq(Letters)
        /\ answered => answer.input = GateInput(question) /\ answer.result = Reviewed(GateInput(question))

\* An upload is reviewed as it is parsed.
LEMMA InputOfText ==
  ASSUME NEW upload
  PROVE  OfText(GateInput(upload), DocumentOf(upload), upload.text)
BY DEF OfText, GateInput

LEMMA TextsAsked ==
  ASSUME AskText
  PROVE  topic = "text" /\ question.text \in Seq(Letters)
<1>1. PICK text \in Texts1(Letters, ImportLength) : topic = "text" /\ question = [name |-> 1, text |-> text]
  BY DEF AskText, Ask
<1>2. PICK n \in 1..ImportLength : text \in [1..n -> Letters]
  BY DEF Texts1
<1>3. text \in Seq(Letters)
  <2>1. n \in Nat
    OBVIOUS
  <2> QED
    BY <1>2, <2>1
<1> QED
  BY <1>1, <1>3

\* What is kept of a text is verbatim, in order and apart, and is everything but spaces,
\* headings and what comes before the first of them.
LEMMA TextsAreVerbatim == TextIsAsked => ChunksVerbatim
<1> SUFFICES ASSUME TextIsAsked, topic = "text", answered PROVE ChunksVerbatim
  BY DEF ChunksVerbatim, Replied
<1> DEFINE text == question.text
           document == DocumentOf(question)
           chunks == answer.input.chunks
           m == Cardinality(AllSpans(text))
<1>1. text \in Seq(Letters) /\ answer.input = GateInput(question)
  BY DEF TextIsAsked
<1>2. chunks = Parsed(document, text).chunks
  BY <1>1, InputOfText DEF OfText
<1>3. /\ m \in Nat /\ DOMAIN chunks = 1..m
      /\ \A k \in 1..m : CutFrom(chunks[k], document, text, k)
      /\ \A j, k \in 1..m : j < k => chunks[j].stop <= chunks[k].start
      /\ \A x \in DOMAIN text : Solid(text, x) =>
            (Dropped(text, x) <=> \A k \in 1..m : x \notin (chunks[k].start + 1)..chunks[k].stop)
  BY <1>1, <1>2, ParsedChunks
<1> HIDE DEF text, document, chunks, m
<1>4. ASSUME NEW i \in DOMAIN chunks
      PROVE  /\ chunks[i].text = SubSeq(text, chunks[i].start + 1, chunks[i].stop)
             /\ ~IsBlank(chunks[i].text) /\ Len(chunks[i].text) <= MaxChunk
             /\ i > 1 => chunks[i - 1].stop <= chunks[i].start
  <2>1. CutFrom(chunks[i], document, text, i)
    BY <1>3
  <2>2. i > 1 => chunks[i - 1].stop <= chunks[i].start
    <3> SUFFICES ASSUME i > 1 PROVE chunks[i - 1].stop <= chunks[i].start
      OBVIOUS
    <3>1. i \in 1..m /\ i - 1 \in 1..m /\ i - 1 < i
      BY <1>3
    <3> QED
      BY <1>3, <3>1
  <2> QED
    BY <2>1, <2>2 DEF CutFrom
<1>5. ASSUME NEW k \in DOMAIN text, Solid(text, k)
      PROVE  (\E head \in Headings(text) : k < Min(Headings(text)) \/ (head <= k /\ k <= LineStop(text, head)))
                <=> \A i \in DOMAIN chunks : k \notin (chunks[i].start + 1)..chunks[i].stop
  BY <1>3, <1>5 DEF Dropped
<1> QED
  BY <1>4, <1>5 DEF ChunksVerbatim, text, chunks

\* And it is answered for what the text is.
LEMMA TextsAreAnswered == TextIsAsked => ParseAnswered
<1> SUFFICES ASSUME TextIsAsked, topic = "text", answered PROVE ParseAnswered
  BY DEF ParseAnswered, Replied
<1> DEFINE text == question.text
           document == DocumentOf(question)
           input == answer.input
<1>1. text \in Seq(Letters) /\ input = GateInput(question) /\ answer.result = Reviewed(input)
  BY DEF TextIsAsked
<1>2. OfText(input, document, text)
  BY <1>1, InputOfText
<1> HIDE DEF text, document, input
<1>3. ParseIs(input, text, answer.result)
  BY <1>1, <1>2, ParsedIsAnswered
<1> QED
  BY <1>3 DEF ParseIs, HasTwin, ParseAnswered, text, input

\* Lists of a few things.
LEMMA ShortLists ==
  ASSUME NEW C
  PROVE  /\ <<>> \in Seq(C)
         /\ \A x \in C : <<x>> \in Seq(C)
         /\ \A x, y \in C : <<x, y>> \in Seq(C) /\ <<x, y, x, x>> \in Seq(C) /\ <<x, y, x, y>> \in Seq(C)
<1>1. <<>> \in Seq(C)
  OBVIOUS
<1>2. ASSUME NEW x \in C PROVE <<x>> \in Seq(C)
  OBVIOUS
<1>3. ASSUME NEW x \in C, NEW y \in C PROVE <<x, y>> \in Seq(C)
  OBVIOUS
<1>4. ASSUME NEW x \in C, NEW y \in C PROVE <<x, y, x, x>> \in Seq(C)
  OBVIOUS
<1>5. ASSUME NEW x \in C, NEW y \in C PROVE <<x, y, x, y>> \in Seq(C)
  OBVIOUS
<1> QED
  BY <1>1, <1>2, <1>3, <1>4, <1>5

LEMMA FourOf ==
  ASSUME NEW x, NEW y
  PROVE  Len(<<x, y, x, y>>) > 0 /\ <<x, y, x, y>>[1] = x
<1>1. Len(<<x, y, x, y>>) = 4 /\ <<x, y, x, y>>[1] = x
  OBVIOUS
<1> QED
  BY <1>1

LEMMA OneOrTwo ==
  ASSUME NEW A, NEW B, NEW list \in {<<>>} \cup {<<one>> : one \in A} \cup (A \X B)
  PROVE  list \in Seq(A \cup B)
<1> DEFINE C == A \cup B
<1>1. CASE list = <<>>
  BY <1>1, ShortLists
<1>2. CASE list \in {<<one>> : one \in A}
  <2>1. PICK x \in A : list = <<x>>
    BY <1>2
  <2>2. x \in C
    OBVIOUS
  <2> HIDE DEF C
  <2>3. list \in Seq(C)
    BY <2>1, <2>2, ShortLists
  <2> QED
    BY <2>3 DEF C
<1>3. CASE list \in A \X B
  <2>1. PICK x \in A, y \in B : list = <<x, y>>
    BY <1>3
  <2>2. x \in C /\ y \in C
    OBVIOUS
  <2> HIDE DEF C
  <2>3. list \in Seq(C)
    BY <2>1, <2>2, ShortLists
  <2> QED
    BY <2>3 DEF C
<1> QED
  BY <1>1, <1>2, <1>3

\* A text begins as its beginning does.
LEMMA BeginsWith ==
  ASSUME NEW C, NEW begun \in Seq(C), NEW tail \in Seq(C), Len(begun) > 0
  PROVE  1 \in DOMAIN (begun \o tail) /\ (begun \o tail)[1] = begun[1]
<1> DEFINE whole == begun \o tail
<1>1. whole \in Seq(C) /\ Len(whole) = Len(begun) + Len(tail)
  OBVIOUS
<1>2. Len(begun) \in Nat /\ Len(tail) \in Nat /\ Len(whole) \in Nat /\ DOMAIN whole = 1..Len(whole)
  BY <1>1
<1>3. 1 \in DOMAIN whole
  BY <1>1, <1>2
<1>4. whole[1] = begun[1]
  OBVIOUS
<1> QED
  BY <1>3, <1>4

LEMMA TailsAre ==
  ASSUME NEW tail \in {<<>>, <<"NUL">>, <<"CTL">>, <<"FFFD">>, <<"NL", " ", "NL", "NL">>, <<"NL", "NL">>}
  PROVE  tail \in Seq({"a", "b", "NUL", "CTL", "FFFD", "NL", " "})
<1> DEFINE C == {"a", "b", "NUL", "CTL", "FFFD", "NL", " "}
           nul == "NUL"
           control == "CTL"
           odd == "FFFD"
           line == "NL"
           space == " "
<1>1. nul \in C /\ control \in C /\ odd \in C /\ line \in C /\ space \in C
  OBVIOUS
<1>2. tail \in {<<>>, <<nul>>, <<control>>, <<odd>>, <<line, space, line, line>>, <<line, line>>}
  OBVIOUS
<1> HIDE DEF C, nul, control, odd, line, space
<1>3. tail \in Seq(C)
  BY <1>1, <1>2, ShortLists
<1> QED
  BY <1>3 DEF C

\* What is asked about audits.
AuditChunks == Chunks1(1) \cup Chunks1(2)

AuditIsAsked ==
    topic = "audit" =>
        /\ question.chunks \in Seq(AuditChunks) /\ ~IsBlank(question.text)
        /\ answered => /\ answer.input = question /\ answer.proposed = Proposed(question)
                       /\ answer.result = Reviewed(question)

LEMMA AuditChunksAre ==
  ASSUME NEW chunk \in AuditChunks
  PROVE  chunk.start \in Int /\ chunk.stop \in Int
<1>1. PICK i \in 1..2 : chunk \in Chunks1(i)
  <2>1. chunk \in Chunks1(1) \/ chunk \in Chunks1(2)
    BY DEF AuditChunks
  <2> QED
    BY <2>1
<1> DEFINE one == SoundChunk(i)
           from == 2 * (i - 1)
           to == 2 * i
<1>2. from \in Int /\ to \in Int /\ to + 1 \in Int /\ Missing \in Int
  BY DEF Missing
<1>3. /\ DOMAIN one = {"id", "order", "ours", "chapter", "text", "sound", "start", "stop"}
      /\ one.start = from /\ one.stop = to
  BY DEF SoundChunk
<1>4. \/ chunk = one
      \/ chunk = [one EXCEPT !.id = 3 - i]
      \/ chunk = [one EXCEPT !.order = 2 - i]
      \/ chunk = [one EXCEPT !.ours = FALSE]
      \/ chunk = [one EXCEPT !.chapter = 3 - i]
      \/ chunk = [one EXCEPT !.text = <<"b", "a">>]
      \/ chunk = [one EXCEPT !.text = <<" ", "NL">>]
      \/ chunk = [one EXCEPT !.text = <<"a", "b", "a", "b">>]
      \/ chunk = [one EXCEPT !.sound = FALSE]
      \/ chunk = [one EXCEPT !.start = Missing, !.stop = Missing]
      \/ chunk = [one EXCEPT !.stop = to + 1]
      \/ chunk = [one EXCEPT !.start = 1, !.stop = 3]
      \/ chunk = [one EXCEPT !.start = 0, !.stop = 2]
  BY <1>1, Zenon DEF Chunks1
<1> HIDE DEF one, from, to
<1>5. \A x : [one EXCEPT !.id = x].start = from /\ [one EXCEPT !.id = x].stop = to
  BY <1>3
<1>6. \A x : [one EXCEPT !.order = x].start = from /\ [one EXCEPT !.order = x].stop = to
  BY <1>3
<1>7. \A x : [one EXCEPT !.ours = x].start = from /\ [one EXCEPT !.ours = x].stop = to
  BY <1>3
<1>8. \A x : [one EXCEPT !.chapter = x].start = from /\ [one EXCEPT !.chapter = x].stop = to
  BY <1>3
<1>9. \A x : [one EXCEPT !.text = x].start = from /\ [one EXCEPT !.text = x].stop = to
  BY <1>3
<1>10. \A x : [one EXCEPT !.sound = x].start = from /\ [one EXCEPT !.sound = x].stop = to
  BY <1>3
<1>11. \A x : [one EXCEPT !.stop = x].start = from /\ [one EXCEPT !.stop = x].stop = x
  BY <1>3
<1>12. \A x, y : [one EXCEPT !.start = x, !.stop = y].start = x /\ [one EXCEPT !.start = x, !.stop = y].stop = y
  BY <1>3
<1>13. \/ chunk.start = from /\ chunk.stop = to
       \/ chunk.start = from /\ chunk.stop = to + 1
       \/ chunk.start = Missing /\ chunk.stop = Missing
       \/ chunk.start = 1 /\ chunk.stop = 3
       \/ chunk.start = 0 /\ chunk.stop = 2
  BY <1>3, <1>4, <1>5, <1>6, <1>7, <1>8, <1>9, <1>10, <1>11, <1>12
<1> QED
  BY <1>2, <1>13

LEMMA AuditsAsked ==
  ASSUME AskAudit
  PROVE  topic = "audit" /\ question.chunks \in Seq(AuditChunks) /\ ~IsBlank(question.text)
<1> DEFINE C == {"a", "b", "NUL", "CTL", "FFFD", "NL", " "}
           begun == <<"a", "b", "a", "b">>
<1>1. PICK chapters \in {<<>>} \cup {<<one>> : one \in Chapters1(1)} \cup (Chapters1(1) \X Chapters1(2)),
           chunks \in {<<>>} \cup {<<one>> : one \in Chunks1(1)} \cup (Chunks1(1) \X Chunks1(2)),
           tail \in {<<>>, <<"NUL">>, <<"CTL">>, <<"FFFD">>, <<"NL", " ", "NL", "NL">>, <<"NL", "NL">>},
           version \in {"1.0", "1.1"}, sound \in BOOLEAN :
          /\ version = "1.0" \/ ~sound => Len(chapters) = 1 /\ Len(chunks) = 1
          /\ Ask("audit", [text |-> <<"a", "b", "a", "b">> \o tail, version |-> version, sound |-> sound,
                           chapters |-> chapters, chunks |-> chunks])
  BY Zenon DEF AskAudit
<1>2. topic = "audit" /\ question.chunks = chunks /\ question.text = begun \o tail
  <2> DEFINE text == begun \o tail
  <2> HIDE DEF text
  <2>1. topic = "audit" /\ question.chunks = chunks /\ question.text = text
    BY <1>1 DEF Ask, text
  <2> QED
    BY <2>1 DEF text
<1>3. chunks \in Seq(AuditChunks)
  <2>1. chunks \in Seq(Chunks1(1) \cup Chunks1(2))
    BY OneOrTwo
  <2> QED
    BY <2>1 DEF AuditChunks
<1>4. tail \in Seq(C)
  BY TailsAre
<1>5. ~IsBlank(begun \o tail)
  <2> DEFINE a == "a"
             b == "b"
  <2>1. a \in C /\ b \in C /\ begun = <<a, b, a, b>>
    OBVIOUS
  <2> HIDE DEF C, a, b
  <2>2. <<a, b, a, b>> \in Seq(C)
    BY <2>1, ShortLists
  <2>3. Len(<<a, b, a, b>>) > 0 /\ <<a, b, a, b>>[1] = a
    BY FourOf
  <2> HIDE DEF begun
  <2>4. 1 \in DOMAIN (begun \o tail) /\ (begun \o tail)[1] = begun[1]
    BY <1>4, <2>1, <2>2, <2>3, BeginsWith
  <2>5. (begun \o tail)[1] = "a"
    BY <2>1, <2>3, <2>4 DEF a
  <2>6. Solid(begun \o tail, 1)
    BY <2>5 DEF Solid, Spaces
  <2> QED
    BY <2>4, <2>6 DEF IsBlank
<1> QED
  BY <1>2, <1>3, <1>5

\* A document goes on only with sound chunks, whatever is asked about it.
LEMMA ApprovalsAreSound == TextIsAsked /\ AuditIsAsked => ApprovalSound
<1> SUFFICES ASSUME TextIsAsked, AuditIsAsked, Replied("audit") \/ Replied("text"), answer.result.action = "CONTINUE"
             PROVE  ApprovalSound
  BY DEF ApprovalSound
<1> DEFINE input == answer.input
           chunks == input.chunks
<1>1. answer.result = Reviewed(input)
  BY DEF TextIsAsked, AuditIsAsked, Replied
<1>2. \E C : chunks \in Seq(C) /\ \A chunk \in C : chunk.start \in Int /\ chunk.stop \in Int
  <2>1. CASE Replied("audit")
    <3>1. chunks \in Seq(AuditChunks)
      BY <2>1 DEF AuditIsAsked, Replied
    <3> QED
      BY <3>1, AuditChunksAre
  <2>2. CASE Replied("text")
    <3> DEFINE text == question.text
               document == DocumentOf(question)
               all == AllChunks(document, text)
    <3>1. text \in Seq(Letters) /\ input = GateInput(question)
      BY <2>2 DEF TextIsAsked, Replied
    <3>2. chunks = Parsed(document, text).chunks
      BY <3>1, InputOfText DEF OfText
    <3>3. chunks \in Seq(all) /\ \A chunk \in all : chunk.start \in Int /\ chunk.stop \in Int
      BY <3>1, <3>2, ParsedSeq
    <3> HIDE DEF all
    <3> QED
      BY <3>3
  <2> QED
    BY <2>1, <2>2
<1>3. PICK C : input.chunks \in Seq(C) /\ \A chunk \in C : chunk.start \in Int /\ chunk.stop \in Int
  BY <1>2
<1> HIDE DEF input
<1>4. GoesOnSoundly(input, Reviewed(input))
  <2>1. Reviewed(input).action = "CONTINUE"
    BY <1>1
  <2> QED
    BY <1>3, <2>1, GoesOnSound
<1> QED
  BY <1>1, <1>4 DEF GoesOnSoundly, StandsSoundly, ApprovalSound, input

\* Every audit is answered as its schema demands.
LEMMA AuditsAreAnswered == AuditIsAsked => ReviewAnswers
<1> SUFFICES ASSUME AuditIsAsked, topic = "audit", answered PROVE ReviewAnswers
  BY DEF ReviewAnswers, Replied
<1>1. /\ question.chunks \in Seq(AuditChunks) /\ ~IsBlank(question.text)
      /\ answer.proposed = Proposed(question) /\ answer.result = Reviewed(question)
  BY DEF AuditIsAsked
<1> DEFINE action == Proposed(question).action
           forbidden == \E k \in DOMAIN question.text : question.text[k] = "NUL"
<1>2. /\ Contract(question, Reviewed(question))
      /\ Reviewed(question).action = "STOP" <=>
            \/ action = "CONTINUE" /\ Unordered(question)
            \/ action \in {"REIMPORT", "RECHUNK"} /\ Shadowed(question)
      /\ Reviewed(question).action # "STOP" => Reviewed(question) = Proposed(question)
      /\ Reviewed(question).action = "STOP" => Reviewed(question) = FailedResult(question)
      /\ FailedResult(question).action = "STOP"
  BY <1>1, EveryInputAnswered
<1>3. Proposed(question).findings = Findings(question)
  BY DEF Proposed, Result
<1>4. action = Action(Findings(question))
  BY <1>1, ProposedIs
<1>5. action = "REIMPORT" <=> ~question.sound \/ forbidden
  <2>1. action = "REIMPORT" <=> \E f \in Findings(question) : f.severity = "BLOCKING" /\ f.code \in ReimportCodes
    BY <1>4, ActionIs
  <2> QED
    BY <1>1, <2>1, ReimportIs
<1> HIDE DEF action, forbidden
<1>6. Reviewed(question).action = "REIMPORT" <=>
          Reviewed(question) # FailedResult(question) /\ (~question.sound \/ forbidden)
  BY <1>2, <1>5 DEF action
<1>7. Reviewed(question).action = "STOP" <=>
        \/ Proposed(question).action = "CONTINUE" /\ \E i \in DOMAIN question.chunks : question.chunks[i].order # i - 1
        \/ /\ Proposed(question).action \in {"REIMPORT", "RECHUNK"} /\ question.chunks # <<>>
           /\ \A i \in DOMAIN question.chunks : \E finding \in Findings(question) :
                i \in finding.chunks /\ finding.severity # "BLOCKING"
           /\ \A finding \in Findings(question) : finding.severity = "BLOCKING" => finding.chunks = {}
  BY <1>2 DEF action, Unordered, Shadowed
<1> QED
  BY <1>1, <1>2, <1>3, <1>6, <1>7 DEF ReviewAnswers, forbidden

\* What an approved upload has: chunks, each in one of its chapters, and no chapter without any.
StoredFully(upload, bundle) ==
    LET chunks == GateInput(upload).chunks
        chapters == GateInput(upload).chapters
    IN /\ bundle = [i \in DOMAIN chunks |-> chunks[i].id] /\ DOMAIN chunks # {}
       /\ \A i \in DOMAIN chunks : chunks[i].id[1] = DocumentOf(upload)
       /\ \A i \in DOMAIN chunks : \E j \in DOMAIN chapters : chapters[j].id = chunks[i].chapter
       /\ \A j \in DOMAIN chapters : \E i \in DOMAIN chunks : chunks[i].chapter = chapters[j].id

\* An approved upload has chunks, and each of its chapters has some.
LEMMA ApprovedIsStored ==
  ASSUME NEW C, NEW upload, upload.text \in Seq(C), Reviewed(GateInput(upload)).decision = "APPROVED"
  PROVE  StoredFully(upload, Reviewed(GateInput(upload)).bundle)
<1> DEFINE input == GateInput(upload)
           text == upload.text
           document == DocumentOf(upload)
           chunks == input.chunks
           chapters == input.chapters
           all == AllChunks(document, text)
           m == Cardinality(AllSpans(text))
<1>1. text \in Seq(C) /\ OfText(input, document, text)
  BY InputOfText
<1>2. chunks = Parsed(document, text).chunks
  BY <1>1 DEF OfText
<1>3. /\ chunks \in Seq(all) /\ \A chunk \in all : chunk.start \in Int /\ chunk.stop \in Int
      /\ chunks = <<>> <=> m = 0
  BY <1>1, <1>2, ParsedSeq
<1>4. m \in Nat /\ DOMAIN chunks = 1..m /\ \A k \in 1..m : CutFrom(chunks[k], document, text, k)
  BY <1>1, <1>2, ParsedChunks
<1>5. \A j \in DOMAIN input.chapters : Belonging(input.chapters[j], input.chunks) = {} =>
          Finding("CHAPTER_EMPTY", "REVIEW", {j}, {}) \in ChapterFindings(input)
  BY <1>1, ParsedChaptersFine
<1>6. Reviewed(input).decision = "APPROVED"
  OBVIOUS
<1> HIDE DEF input, text, document, all, m
<1>7. input.chunks \in Seq(all)
  BY <1>3
<1>8. Reviewed(input).action = "CONTINUE"
  <2>1. Contract(input, Reviewed(input))
    BY <1>7, EveryInputAnswered
  <2> QED
    BY <1>6, <2>1 DEF Contract, AgreementContract
<1>9. Unheld(input)
  BY <1>7, <1>8, ContinuedIs
<1>10. GoesOnSoundly(input, Reviewed(input))
  BY <1>3, <1>7, <1>8, GoesOnSound
<1>11. Reviewed(input).bundle = [i \in DOMAIN chunks |-> chunks[i].id] /\ DOMAIN chunks # {}
       /\ \A i \in DOMAIN chunks : \E j \in DOMAIN chapters : chapters[j].id = chunks[i].chapter
  <2>1. chunks # <<>> => DOMAIN chunks # {}
    <3>1. chunks # <<>> => 1 \in 1..m
      BY <1>3, <1>4
    <3> QED
      BY <1>4, <3>1
  <2> QED
    BY <1>10, <2>1 DEF GoesOnSoundly, StandsSoundly
<1>12. ASSUME NEW i \in DOMAIN chunks PROVE chunks[i].id[1] = document
  <2>1. CutFrom(chunks[i], document, text, i)
    BY <1>4
  <2>2. \E x, y : chunks[i].id = <<document, x, y>>
    <3> DEFINE chunk == chunks[i]
    <3>1. CutFrom(chunk, document, text, i)
      BY <2>1
    <3> HIDE DEF chunk
    <3>2. chunk.id = <<document, i - 1, chunk.text>>
      BY <3>1 DEF CutFrom
    <3>3. \E x, y : chunk.id = <<document, x, y>>
      BY <3>2
    <3> QED
      BY <3>3 DEF chunk
  <2>3. \A x, y : <<document, x, y>>[1] = document
    OBVIOUS
  <2> QED
    BY <2>2, <2>3
<1>13. ASSUME NEW j \in DOMAIN chapters PROVE \E i \in DOMAIN chunks : chunks[i].chapter = chapters[j].id
  <2> DEFINE f == Finding("CHAPTER_EMPTY", "REVIEW", {j}, {})
  <2>1. f.severity = "REVIEW"
    BY FindingHas
  <2> HIDE DEF f
  <2>2. f \notin Findings(input)
    BY <1>9, <2>1 DEF Unheld, Of
  <2>3. f \notin ChapterFindings(input)
    BY <2>2 DEF Findings
  <2>4. Belonging(chapters[j], chunks) # {}
    BY <1>5, <2>3 DEF f
  <2> QED
    BY <2>4 DEF Belonging
<1> QED
  BY <1>11, <1>12, <1>13 DEF StoredFully, input, document

\* A stored document, with its own review or that of another.
Complete(row) ==
    /\ DOMAIN row.chunks # {}
    /\ \A i \in DOMAIN row.chunks : row.chunks[i].id[1] = row.document
    /\ \A i \in DOMAIN row.chunks : \E j \in DOMAIN row.chapters : row.chapters[j].id = row.chunks[i].chapter
    /\ \A j \in DOMAIN row.chapters : \E i \in DOMAIN row.chunks : row.chunks[i].chapter = row.chapters[j].id

ApprovedWhole(row) == ApprovedIn(row) = IdsIn(row.chunks)

ApprovedElsewhere(row) == \A id \in ApprovedIn(row) : id \notin IdsIn(row.chunks)

Reads(row, renamed) ==
    LET chapters == {row.chapters[i].id : i \in DOMAIN row.chapters}
    IN /\ Eligible(row) <=> ~renamed
       /\ MayAnalyse(row, chapters) <=> ~renamed
       /\ \A chapter \in chapters :
            /\ Available(row, chapter) <=> ~renamed
            /\ AllowedLater(row, {chapter}) = IF renamed THEN {} ELSE ChunksOf(row, {chapter})

\* A stored document can be read with its own review, and not with that of another.
LEMMA CompleteReads ==
  ASSUME NEW row, Complete(row), NEW renamed \in BOOLEAN,
         renamed => ApprovedElsewhere(row), ~renamed => ApprovedWhole(row)
  PROVE  Reads(row, renamed)
<1> DEFINE chapters == {row.chapters[i].id : i \in DOMAIN row.chapters}
           ids == IdsIn(row.chunks)
           approved == ApprovedIn(row)
<1>1. \A some : ChunksOf(row, some) \subseteq ids
  BY DEF ChunksOf, IdsIn
<1>2. ids # {} /\ chapters # {}
  <2>1. PICK i \in DOMAIN row.chunks : TRUE
    BY DEF Complete
  <2>2. PICK j \in DOMAIN row.chapters : row.chapters[j].id = row.chunks[i].chapter
    BY DEF Complete
  <2>3. row.chunks[i].id \in ids /\ row.chapters[j].id \in chapters
    BY DEF IdsIn
  <2> QED
    BY <2>3
<1>3. ASSUME NEW chapter \in chapters PROVE ChunksOf(row, {chapter}) # {}
  <2>1. PICK j \in DOMAIN row.chapters : chapter = row.chapters[j].id
    OBVIOUS
  <2>2. PICK i \in DOMAIN row.chunks : row.chunks[i].chapter = chapter
    BY <2>1 DEF Complete
  <2>3. row.chunks[i].id \in ChunksOf(row, {chapter})
    BY <2>2 DEF ChunksOf
  <2> QED
    BY <2>3
<1>4. ChunksOf(row, chapters) # {}
  <2>1. PICK chapter \in chapters : TRUE
    BY <1>2
  <2>2. ChunksOf(row, {chapter}) \subseteq ChunksOf(row, chapters)
    BY DEF ChunksOf
  <2> QED
    BY <1>3, <2>2
<1>5. MayAnalyse(row, chapters) <=> chapters # {} /\ ChunksOf(row, chapters) # {} /\ ChunksOf(row, chapters) \subseteq approved
  BY DEF MayAnalyse
<1>6. Eligible(row) <=> approved = ids
  BY DEF Eligible
<1>7. \A chapter : /\ Available(row, chapter) <=> ChunksOf(row, {chapter}) # {} /\ ChunksOf(row, {chapter}) \subseteq approved
                   /\ AllowedLater(row, {chapter}) = ChunksOf(row, {chapter}) \cap approved
  BY DEF Available, AllowedLater
<1> HIDE DEF chapters, ids, approved
<1>8. CASE renamed
  <2>1. \A id \in approved : id \notin ids
    BY <1>8 DEF ApprovedElsewhere, ids, approved
  <2>2. ~Eligible(row) /\ ~MayAnalyse(row, chapters)
    BY <1>1, <1>2, <1>4, <1>5, <1>6, <2>1
  <2>3. ASSUME NEW chapter \in chapters PROVE ~Available(row, chapter) /\ AllowedLater(row, {chapter}) = {}
    <3> DEFINE here == ChunksOf(row, {chapter})
    <3>1. here # {} /\ here \subseteq ids
      BY <1>1, <1>3
    <3> HIDE DEF here
    <3>2. ~(here \subseteq approved) /\ here \cap approved = {}
      BY <2>1, <3>1
    <3> QED
      BY <1>7, <3>2 DEF here
  <2> QED
    BY <1>8, <2>2, <2>3 DEF Reads, chapters
<1>9. CASE ~renamed
  <2>1. approved = ids
    BY <1>9 DEF ApprovedWhole, ids, approved
  <2>2. Eligible(row) /\ MayAnalyse(row, chapters)
    BY <1>1, <1>2, <1>4, <1>5, <1>6, <2>1
  <2>3. ASSUME NEW chapter \in chapters
        PROVE  Available(row, chapter) /\ AllowedLater(row, {chapter}) = ChunksOf(row, {chapter})
    <3> DEFINE here == ChunksOf(row, {chapter})
    <3>1. here # {} /\ here \subseteq ids
      BY <1>1, <1>3
    <3> HIDE DEF here
    <3>2. here \subseteq approved /\ here \cap approved = here
      BY <2>1, <3>1
    <3> QED
      BY <1>7, <3>1, <3>2 DEF here
  <2> QED
    BY <1>9, <2>2, <2>3 DEF Reads, chapters
<1> QED
  BY <1>8, <1>9

\* A new row is approved as a whole.
LEMMA RowIsComplete ==
  ASSUME NEW upload, NEW bundle, StoredFully(upload, bundle)
  PROVE  Complete(Row(upload, bundle)) /\ ApprovedWhole(Row(upload, bundle))
<1> DEFINE row == Row(upload, bundle)
           chunks == GateInput(upload).chunks
           chapters == GateInput(upload).chapters
<1>1. row.document = DocumentOf(upload) /\ row.bundle = bundle /\ row.chapters = chapters /\ row.chunks = chunks
  BY DEF Row
<1> HIDE DEF row, chunks, chapters
<1>2. Complete(row)
  BY <1>1 DEF Complete, StoredFully, chunks, chapters
<1>3. bundle = [i \in DOMAIN chunks |-> chunks[i].id]
  BY DEF StoredFully, chunks
<1>4. ApprovedIn(row) = {chunks[i].id : i \in DOMAIN chunks}
  <2>1. DOMAIN bundle = DOMAIN chunks /\ \A i \in DOMAIN chunks : bundle[i] = chunks[i].id
    BY <1>3
  <2> QED
    BY <1>1, <2>1 DEF ApprovedIn
<1>5. ApprovedWhole(row)
  BY <1>1, <1>4 DEF ApprovedWhole, IdsIn
<1> QED
  BY <1>2, <1>5 DEF row

\* What an import does to the rows.
LEMMA ImportedIs ==
  ASSUME NEW seen, NEW rows, NEW upload
  PROVE  LET review == Reviewed(GateInput(upload))
             made == Imported(seen, rows, upload)
         IN \/ made.rows = rows /\ made.status \in {"empty", "gate1_blocked"}
            \/ /\ review.decision = "APPROVED" /\ Existing(seen, upload) # {} /\ made.status = "existing"
               /\ made.rows = {IF row \in Existing(rows, upload) THEN [row EXCEPT !.bundle = review.bundle] ELSE row : row \in rows}
            \/ /\ Existing(seen, upload) = {} /\ Existing(rows, upload) # {}
               /\ made.rows = rows /\ made.status = "conflict"
            \/ /\ review.decision = "APPROVED" /\ Existing(rows, upload) = {}
               /\ made.rows = rows \cup {Row(upload, review.bundle)} /\ made.status = "created"
<1> DEFINE review == Reviewed(GateInput(upload))
           renewed == {IF row \in Existing(rows, upload) THEN [row EXCEPT !.bundle = review.bundle] ELSE row : row \in rows}
           added == rows \cup {Row(upload, review.bundle)}
<1>1. Imported(seen, rows, upload) =
         IF IsBlank(upload.text) THEN [rows |-> rows, status |-> "empty"]
         ELSE IF review.decision # "APPROVED" THEN [rows |-> rows, status |-> "gate1_blocked"]
         ELSE IF Existing(seen, upload) # {} THEN [rows |-> renewed, status |-> "existing"]
         ELSE IF Existing(rows, upload) # {} THEN [rows |-> rows, status |-> "conflict"]
         ELSE [rows |-> added, status |-> "created"]
  BY DEF Imported
<1> HIDE DEF review, renewed, added
<1>2. LET made == Imported(seen, rows, upload)
      IN \/ made.rows = rows /\ made.status \in {"empty", "gate1_blocked"}
         \/ review.decision = "APPROVED" /\ Existing(seen, upload) # {} /\ made.status = "existing" /\ made.rows = renewed
         \/ Existing(seen, upload) = {} /\ Existing(rows, upload) # {} /\ made.rows = rows /\ made.status = "conflict"
         \/ review.decision = "APPROVED" /\ Existing(rows, upload) = {} /\ made.rows = added /\ made.status = "created"
  BY <1>1
<1> QED
  BY <1>2 DEF review, renewed, added

\* What is asked about imports.
ImportIsAsked ==
    topic = "import" =>
        /\ \E C : question.first.text \in Seq(C) /\ question.second.text \in Seq(C)
        /\ question.raced \in BOOLEAN
        /\ answered =>
            LET first == Imported({}, {}, question.first)
                second == Imported(IF question.raced THEN {} ELSE first.rows, first.rows, question.second)
            IN answer.first = first.status /\ answer.second = second.status /\ answer.rows = second.rows

\* One document, approved anew under its own name or under another.
LEMMA RenewedReads ==
  ASSUME NEW C, NEW one, NEW other, one.text = other.text, one.text \in Seq(C),
         NEW bundle, StoredFully(one, bundle), Reviewed(GateInput(other)).decision = "APPROVED",
         NEW row, row = [Row(one, bundle) EXCEPT !.bundle = Reviewed(GateInput(other)).bundle]
  PROVE  /\ Complete(row)
         /\ DocumentOf(other) # row.document => ApprovedElsewhere(row)
         /\ DocumentOf(other) = row.document => ApprovedWhole(row)
<1> DEFINE again == Reviewed(GateInput(other)).bundle
           old == Row(one, bundle)
<1>1. StoredFully(other, again)
  BY ApprovedIsStored
<1>2. /\ DOMAIN old = {"document", "text", "bundle", "chapters", "chunks"}
      /\ old.document = DocumentOf(one) /\ old.text = one.text
      /\ old.chapters = GateInput(one).chapters /\ old.chunks = GateInput(one).chunks
  BY DEF Row
<1>3. Complete(old)
  BY RowIsComplete
<1>4. row = [old EXCEPT !.bundle = again]
  OBVIOUS
<1> HIDE DEF old, again
<1>5. row.document = old.document /\ row.chapters = old.chapters /\ row.chunks = old.chunks /\ row.bundle = again
  BY <1>2, <1>4
<1>6. Complete(row)
  BY <1>3, <1>5 DEF Complete
<1> DEFINE theirs == GateInput(other).chunks
<1>7. again = [i \in DOMAIN theirs |-> theirs[i].id] /\ \A i \in DOMAIN theirs : theirs[i].id[1] = DocumentOf(other)
  BY <1>1 DEF StoredFully
<1> HIDE DEF theirs
<1>8. ApprovedIn(row) = IdsIn(theirs)
  <2>1. DOMAIN again = DOMAIN theirs /\ \A i \in DOMAIN theirs : again[i] = theirs[i].id
    BY <1>7
  <2> QED
    BY <1>5, <2>1 DEF ApprovedIn, IdsIn
<1>9. ASSUME DocumentOf(other) # row.document PROVE ApprovedElsewhere(row)
  <2>1. \A id \in ApprovedIn(row) : id[1] = DocumentOf(other)
    BY <1>7, <1>8 DEF IdsIn
  <2>2. \A id \in IdsIn(row.chunks) : id[1] = row.document
    BY <1>6 DEF Complete, IdsIn
  <2> QED
    BY <1>9, <2>1, <2>2 DEF ApprovedElsewhere
<1>10. ASSUME DocumentOf(other) = row.document PROVE ApprovedWhole(row)
  <2>1. DocumentOf(other) = DocumentOf(one)
    BY <1>2, <1>5, <1>10
  <2>2. GateInput(other) = GateInput(one)
    BY <2>1 DEF GateInput
  <2> QED
    BY <1>2, <1>5, <1>8, <2>2 DEF ApprovedWhole, theirs
<1> QED
  BY <1>6, <1>9, <1>10

\* What is asked about imports.
UploadLetters == {"a", "NL", "H", "NUL"}

LEMMA UploadsAre ==
  ASSUME NEW upload \in Uploads
  PROVE  upload.text \in Seq(UploadLetters)
<1> DEFINE a == "a"
           line == "NL"
           head == "H"
           nul == "NUL"
           long == <<head, line, a, line, head, line, a>>
           C == UploadLetters
<1>1. a \in C /\ line \in C /\ head \in C /\ nul \in C
  BY DEF UploadLetters
<1>2. upload.text \in Texts1({a, line, head}, 3) \/ upload.text \in {<<nul>>, <<a, line, line, a>>, long}
  BY DEF Uploads
<1> HIDE DEF C, a, line, head, nul
<1>3. CASE upload.text \in Texts1({a, line, head}, 3)
  <2> DEFINE letters == {a, line, head}
             text == upload.text
  <2>1. letters \subseteq C
    BY <1>1
  <2> HIDE DEF letters, text
  <2>2. PICK n \in 1..3 : text \in [1..n -> letters]
    BY <1>3 DEF Texts1, letters, text
  <2>3. n \in Nat /\ text \in [1..n -> C]
    BY <2>1, <2>2
  <2>4. text \in Seq(C)
    BY <2>3
  <2> QED
    BY <2>4 DEF text, C
<1>4. <<nul>> \in Seq(C)
  BY <1>1, ShortLists
<1>5. <<a, line, line, a>> \in Seq(C)
  BY <1>1
<1>6. long \in Seq(C)
  BY <1>1
<1> QED
  BY <1>2, <1>3, <1>4, <1>5, <1>6 DEF C

LEMMA ImportsAsked ==
  ASSUME AskImport
  PROVE  /\ topic = "import" /\ question.raced \in BOOLEAN
         /\ \E C : question.first.text \in Seq(C) /\ question.second.text \in Seq(C)
<1>1. PICK first \in Uploads, second \in Uploads, raced \in BOOLEAN :
          topic = "import" /\ question = [first |-> first, second |-> second, raced |-> raced]
  BY DEF AskImport, Ask
<1>2. question.first = first /\ question.second = second /\ question.raced = raced
  BY <1>1
<1> QED
  BY <1>1, <1>2, UploadsAre

\* Importing a text again changes nothing but what is approved of it under another name.
LEMMA ImportsAreHarmless == ImportIsAsked => ReimportHarmless
<1> SUFFICES ASSUME ImportIsAsked, topic = "import", answered PROVE ReimportHarmless
  BY DEF ReimportHarmless, Replied
<1> DEFINE one == question.first
           other == question.second
           raced == question.raced
           made == Imported({}, {}, one)
           seen == IF raced THEN {} ELSE made.rows
           then == Imported(seen, made.rows, other)
           bundle == Reviewed(GateInput(one)).bundle
           again == Reviewed(GateInput(other)).bundle
           renamed(row) == answer.second = "existing" /\ DocumentOf(other) # row.document
           Fit(row) == /\ Complete(row) /\ (renamed(row) => ApprovedElsewhere(row))
                       /\ (~renamed(row) => ApprovedWhole(row))
<1>1. PICK C : one.text \in Seq(C) /\ other.text \in Seq(C)
  BY DEF ImportIsAsked
<1>2. answer.first = made.status /\ answer.second = then.status /\ answer.rows = then.rows
  BY DEF ImportIsAsked
<1>3. \A upload : Existing({}, upload) = {}
  BY DEF Existing
<1>4. raced \in BOOLEAN
  BY DEF ImportIsAsked
<1>5. \/ made.rows = {} /\ made.status \in {"empty", "gate1_blocked"}
      \/ /\ Reviewed(GateInput(one)).decision = "APPROVED"
         /\ made.rows = {Row(one, bundle)} /\ made.status = "created"
  <2> DEFINE none == {}
             review == Reviewed(GateInput(one))
             first == Imported(none, none, one)
             renewed == {IF row \in Existing(none, one) THEN [row EXCEPT !.bundle = review.bundle] ELSE row : row \in none}
  <2> HIDE DEF none
  <2>1. \/ first.rows = none /\ first.status \in {"empty", "gate1_blocked"}
        \/ /\ review.decision = "APPROVED" /\ Existing(none, one) # {} /\ first.status = "existing"
           /\ first.rows = renewed
        \/ /\ Existing(none, one) = {} /\ Existing(none, one) # {}
           /\ first.rows = none /\ first.status = "conflict"
        \/ /\ review.decision = "APPROVED" /\ Existing(none, one) = {}
           /\ first.rows = none \cup {Row(one, review.bundle)} /\ first.status = "created"
    BY ImportedIs, Zenon
  <2> HIDE DEF first, renewed, review
  <2>2. first = made /\ none = {}
    BY DEF first, none
  <2> HIDE DEF made
  <2>3. \/ first.rows = {} /\ first.status \in {"empty", "gate1_blocked"}
        \/ /\ review.decision = "APPROVED" /\ first.rows = {Row(one, review.bundle)} /\ first.status = "created"
    BY <1>3, <2>1, <2>2
  <2> QED
    BY <2>2, <2>3 DEF review
<1>6. \/ then.rows = made.rows /\ then.status \in {"empty", "gate1_blocked"}
      \/ /\ Reviewed(GateInput(other)).decision = "APPROVED" /\ Existing(seen, other) # {} /\ then.status = "existing"
         /\ then.rows = {IF row \in Existing(made.rows, other) THEN [row EXCEPT !.bundle = again] ELSE row : row \in made.rows}
      \/ /\ Existing(seen, other) = {} /\ Existing(made.rows, other) # {}
         /\ then.rows = made.rows /\ then.status = "conflict"
      \/ /\ Reviewed(GateInput(other)).decision = "APPROVED" /\ Existing(made.rows, other) = {}
         /\ then.rows = made.rows \cup {Row(other, again)} /\ then.status = "created"
  <2> HIDE DEF made, seen
  <2> QED
    BY ImportedIs, Zenon
<1>7. seen \subseteq made.rows /\ (~raced => seen = made.rows)
  OBVIOUS
<1> HIDE DEF made, seen, then, bundle, again, one, other, raced
<1>8. \A row \in made.rows : /\ Reviewed(GateInput(one)).decision = "APPROVED"
                             /\ row = Row(one, bundle) /\ row.text = one.text
  BY <1>5 DEF Row
<1>9. ASSUME Reviewed(GateInput(one)).decision = "APPROVED"
      PROVE  StoredFully(one, bundle) /\ Complete(Row(one, bundle)) /\ ApprovedWhole(Row(one, bundle))
  <2>1. StoredFully(one, bundle)
    BY <1>1, <1>9, ApprovedIsStored DEF bundle
  <2> QED
    BY <2>1, RowIsComplete
<1>10. then.status # "existing" => \A row \in made.rows : Fit(row)
  BY <1>2, <1>8, <1>9
<1>11. (\A row \in then.rows : Fit(row)) /\ (\A row, twin \in then.rows : row.text = twin.text => row = twin)
  <2> HIDE DEF Fit
  <2>1. CASE then.rows = made.rows /\ then.status # "existing"
    BY <1>8, <1>10, <2>1
  <2>2. CASE /\ Reviewed(GateInput(other)).decision = "APPROVED" /\ Existing(seen, other) # {} /\ then.status = "existing"
             /\ then.rows = {IF row \in Existing(made.rows, other) THEN [row EXCEPT !.bundle = again] ELSE row : row \in made.rows}
    <3>1. PICK old \in made.rows : old.text = other.text
      BY <1>7, <2>2 DEF Existing
    <3>2. made.rows = {old} /\ old = Row(one, bundle) /\ one.text = other.text
      BY <1>5, <1>8, <3>1
    <3>3. Existing(made.rows, other) = {old}
      BY <3>1, <3>2 DEF Existing
    <3> DEFINE new == [old EXCEPT !.bundle = again]
    <3>4. then.rows = {new}
      <4> HIDE DEF new
      <4>1. \A row \in made.rows : row = old /\ row \in Existing(made.rows, other)
        BY <3>2, <3>3
      <4>2. \A row \in made.rows : (IF row \in Existing(made.rows, other) THEN [row EXCEPT !.bundle = again] ELSE row) = new
        BY <4>1 DEF new
      <4> QED
        BY <2>2, <3>2, <4>2
    <3>5. new = [Row(one, bundle) EXCEPT !.bundle = Reviewed(GateInput(other)).bundle]
      BY <3>2 DEF again
    <3> HIDE DEF new
    <3>6. StoredFully(one, bundle)
      BY <1>8, <1>9
    <3>7. /\ Complete(new)
          /\ DocumentOf(other) # new.document => ApprovedElsewhere(new)
          /\ DocumentOf(other) = new.document => ApprovedWhole(new)
      BY <1>1, <2>2, <3>2, <3>5, <3>6, RenewedReads
    <3>8. Fit(new)
      BY <1>2, <2>2, <3>7 DEF Fit
    <3> QED
      BY <3>4, <3>8
  <2>3. CASE /\ Reviewed(GateInput(other)).decision = "APPROVED" /\ Existing(made.rows, other) = {}
             /\ then.rows = made.rows \cup {Row(other, again)} /\ then.status = "created"
    <3> DEFINE new == Row(other, again)
    <3>1. StoredFully(other, again)
      BY <1>1, <2>3, ApprovedIsStored DEF again
    <3>2. Complete(new) /\ ApprovedWhole(new)
      BY <3>1, RowIsComplete
    <3>3. new.text = other.text
      BY DEF Row
    <3> HIDE DEF new
    <3>4. Fit(new)
      BY <1>2, <2>3, <3>2 DEF Fit
    <3>5. \A row \in made.rows : row.text # new.text
      BY <2>3, <3>3 DEF Existing
    <3>6. \A row, twin \in made.rows : row = twin
      BY <1>8
    <3>7. then.rows = made.rows \cup {new}
      BY <2>3 DEF new
    <3>8. then.status # "existing"
      BY <2>3
    <3> QED
      BY <1>10, <3>4, <3>5, <3>6, <3>7, <3>8
  <2> QED
    BY <1>6, <2>1, <2>2, <2>3
<1>12. ASSUME NEW row \in answer.rows PROVE Reads(row, renamed(row))
  <2> DEFINE changed == renamed(row)
  <2>1. Fit(row)
    BY <1>2, <1>11
  <2>2. Complete(row) /\ (changed => ApprovedElsewhere(row)) /\ (~changed => ApprovedWhole(row)) /\ changed \in BOOLEAN
    BY <2>1
  <2> HIDE DEF changed
  <2>3. Reads(row, changed)
    BY <2>2, CompleteReads
  <2> QED
    BY <2>3 DEF changed
<1>13. answer.second = "conflict" => raced /\ answer.first = "created"
  <2> SUFFICES ASSUME then.status = "conflict" PROVE raced /\ made.status = "created"
    BY <1>2
  <2>1. Existing(seen, other) = {} /\ Existing(made.rows, other) # {}
    BY <1>6
  <2>2. made.rows # {}
    BY <2>1 DEF Existing
  <2> QED
    BY <1>4, <1>5, <1>7, <2>1, <2>2
<1> HIDE DEF Fit
<1>14. \A row, twin \in answer.rows : row.text = twin.text => row = twin
  BY <1>2, <1>11
<1> QED
  BY <1>12, <1>13, <1>14 DEF ReimportHarmless, Reads, one, other, raced

LEMMA TextQuestions == Spec => []TextIsAsked
<1>1. Init => TextIsAsked
  <2> SUFFICES ASSUME Init, topic = "text" PROVE TextIsAsked
    BY DEF TextIsAsked
  <2>1. AskText /\ ~answered
    BY Topics
  <2> QED
    BY <2>1, TextsAsked DEF TextIsAsked
<1>2. TextIsAsked /\ [Next]_vars => TextIsAsked'
  <2> SUFFICES ASSUME TextIsAsked, [Next]_vars, topic' = "text" PROVE TextIsAsked'
    BY DEF TextIsAsked
  <2>1. CASE UNCHANGED vars
    BY <2>1 DEF vars, TextIsAsked
  <2>2. CASE Next
    <3>1. topic = "text" /\ question' = question /\ AnswerText
      BY <2>2, Topics
    <3> DEFINE input == GateInput(question)
               result == Reviewed(GateInput(question))
    <3>2. answer' = [input |-> input, result |-> result]
      BY <3>1 DEF AnswerText
    <3> HIDE DEF input, result
    <3>3. answer'.input = input /\ answer'.result = result
      BY <3>2
    <3>4. question.text \in Seq(Letters)
      BY <3>1 DEF TextIsAsked
    <3> QED
      BY <3>1, <3>3, <3>4 DEF TextIsAsked, input, result
  <2> QED
    BY <2>1, <2>2
<1> QED
  BY <1>1, <1>2, PTL DEF Spec

LEMMA AuditQuestions == Spec => []AuditIsAsked
<1>1. Init => AuditIsAsked
  <2> SUFFICES ASSUME Init, topic = "audit" PROVE AuditIsAsked
    BY DEF AuditIsAsked
  <2>1. AskAudit /\ ~answered
    BY Topics
  <2> QED
    BY <2>1, AuditsAsked DEF AuditIsAsked
<1>2. AuditIsAsked /\ [Next]_vars => AuditIsAsked'
  <2> SUFFICES ASSUME AuditIsAsked, [Next]_vars, topic' = "audit" PROVE AuditIsAsked'
    BY DEF AuditIsAsked
  <2>1. CASE UNCHANGED vars
    BY <2>1 DEF vars, AuditIsAsked
  <2>2. CASE Next
    <3>1. topic = "audit" /\ question' = question /\ AnswerAudit
      BY <2>2, Topics
    <3> DEFINE proposed == Proposed(question)
               result == Reviewed(question)
    <3>2. answer' = [input |-> question, proposed |-> proposed, result |-> result]
      BY <3>1 DEF AnswerAudit
    <3> HIDE DEF proposed, result
    <3>3. answer'.input = question /\ answer'.proposed = proposed /\ answer'.result = result
      BY <3>2
    <3>4. question.chunks \in Seq(AuditChunks) /\ ~IsBlank(question.text)
      BY <3>1 DEF AuditIsAsked
    <3> QED
      BY <3>1, <3>3, <3>4 DEF AuditIsAsked, proposed, result
  <2> QED
    BY <2>1, <2>2
<1> QED
  BY <1>1, <1>2, PTL DEF Spec

LEMMA ImportQuestions == Spec => []ImportIsAsked
<1>1. Init => ImportIsAsked
  <2> SUFFICES ASSUME Init, topic = "import" PROVE ImportIsAsked
    BY DEF ImportIsAsked
  <2>1. AskImport /\ ~answered
    BY Topics
  <2> QED
    BY <2>1, ImportsAsked DEF ImportIsAsked
<1>2. ImportIsAsked /\ [Next]_vars => ImportIsAsked'
  <2> SUFFICES ASSUME ImportIsAsked, [Next]_vars, topic' = "import" PROVE ImportIsAsked'
    BY DEF ImportIsAsked
  <2>1. CASE UNCHANGED vars
    BY <2>1 DEF vars, ImportIsAsked
  <2>2. CASE Next
    <3>1. topic = "import" /\ question' = question /\ AnswerImport
      BY <2>2, Topics
    <3> DEFINE first == Imported({}, {}, question.first)
               second == Imported(IF question.raced THEN {} ELSE first.rows, first.rows, question.second)
    <3>2. answer' = [first |-> first.status, second |-> second.status, rows |-> second.rows]
      BY <3>1 DEF AnswerImport
    <3> HIDE DEF first, second
    <3>3. answer'.first = first.status /\ answer'.second = second.status /\ answer'.rows = second.rows
      BY <3>2
    <3>4. /\ \E C : question.first.text \in Seq(C) /\ question.second.text \in Seq(C)
          /\ question.raced \in BOOLEAN
      BY <3>1 DEF ImportIsAsked
    <3> QED
      BY <3>1, <3>3, <3>4 DEF ImportIsAsked, first, second
  <2> QED
    BY <2>1, <2>2
<1> QED
  BY <1>1, <1>2, PTL DEF Spec

\* A text is kept from the file to the approved chunks: what is parsed of it is verbatim and
\* complete and passes its audit, every input is answered as its schema demands, and importing
\* it again changes only what was not approved.
THEOREM DocumentsAreSound == Spec => []DocumentsSound
<1>1. TextIsAsked => ChunksVerbatim /\ ParseAnswered
  BY TextsAreVerbatim, TextsAreAnswered
<1>2. TextIsAsked /\ AuditIsAsked => ApprovalSound /\ ReviewAnswers
  BY ApprovalsAreSound, AuditsAreAnswered
<1>3. ImportIsAsked => ReimportHarmless
  BY ImportsAreHarmless
<1>4. TextIsAsked /\ AuditIsAsked /\ ImportIsAsked => DocumentsSound
  BY <1>1, <1>2, <1>3 DEF DocumentsSound
<1> QED
  BY <1>4, TextQuestions, AuditQuestions, ImportQuestions, PTL

=============================================================================
