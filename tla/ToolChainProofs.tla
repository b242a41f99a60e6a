--------------------------- MODULE ToolChainProofs ---------------------------
(***************************************************************************)
(* Proofs about ToolChain, for any files, plans, limits and thresholds:    *)
(* it implements AgentTurn over real data, its inductive invariant, and    *)
(* what that says of selections, summaries, scores and profiles.           *)
(*                                                                         *)
(* First the documents of a file, loader by loader, and what the tools     *)
(* select and compute from them; then each part of the invariant over each *)
(* tool; the theorems are at the end.                                      *)
(***************************************************************************)
EXTENDS ToolChain, ListComprehensionLemmas, SequenceTheorems

\* The next-state relation, one action per case.
LEMMA StepCases ==
  ASSUME [Next]_vars
  PROVE  \/ ProfileDataset \/ SentimentAnalysis \/ TextClassification \/ SummarizeText
         \/ GenerateEmbeddings \/ SemanticSearch \/ FilterDocuments
         \/ EvaluateCandidates \/ ResearchModels \/ ModelRecommendation
         \/ ToolRaisesValueError \/ ToolFails \/ Control \/ UNCHANGED vars
BY DEF Next, ExecuteTool

-----------------------------------------------------------------------------
(* Documents and selections of them                                        *)

Distinct(d) == \A i, j \in DOMAIN d : d[i].id = d[j].id => i = j
OneColumn(d) == \A i, j \in DOMAIN d : d[i].text_column = d[j].text_column

\* A document's metadata are cells.
CellsOf(doc) == \A c \in DOMAIN doc.metadata : doc.metadata[c].chars \in Nat

\* Documents by their numbers, one of them with a text.
IsCorpus(d) ==
  /\ d \in Seq(Entries(d)) /\ d # <<>>
  /\ \A i \in DOMAIN d : d[i].id \in Nat /\ d[i].text \in Nat /\ CellsOf(d[i])
  /\ \E i \in DOMAIN d : d[i].text > 0

\* A selection keeps documents and their order; it has the ids of its positions.
LEMMA PickedDocuments ==
  ASSUME NEW S, NEW d \in Seq(S), NEW I \in SUBSET DOMAIN d
  PROVE  /\ Picked(d, I) \in Seq(S) /\ Len(Picked(d, I)) = Cardinality(I)
         /\ Cardinality(I) \in Nat /\ Cardinality(I) <= Len(d)
         /\ DOMAIN Picked(d, I) = 1..Cardinality(I)
         /\ Distinct(d) => Distinct(Picked(d, I))
         /\ Ids(Picked(d, I)) = {d[i].id : i \in I}
         /\ \A k \in DOMAIN Picked(d, I) : \E i \in I : Picked(d, I)[k] = d[i]
<1>. DEFINE w == Picked(d, I)
<1>1. /\ w \in Seq(S) /\ Len(w) = Cardinality(I)
      /\ Cardinality(I) \in Nat /\ Cardinality(I) <= Len(d)
      /\ \A k \in 1..Cardinality(I) : /\ Nth(I, k) \in I /\ Rank(I, Nth(I, k)) = k
                                      /\ w[k] = d[Nth(I, k)]
  BY PickedFacts
<1>2. /\ DOMAIN w = 1..Cardinality(I)
      /\ \A k \in DOMAIN w : \E i \in I : w[k] = d[i]
      /\ \A i \in I : \E k \in DOMAIN w : w[k] = d[i]
  BY PickedRange
<1>. HIDE DEF w
<1>3. Distinct(d) => Distinct(w)
  <2>. SUFFICES ASSUME Distinct(d),
                       NEW k \in 1..Cardinality(I), NEW l \in 1..Cardinality(I), w[k].id = w[l].id
                PROVE  k = l
    BY <1>2 DEF Distinct
  <2>1. d[Nth(I, k)].id = d[Nth(I, l)].id
    BY <1>1
  <2>2. Nth(I, k) = Nth(I, l)
    BY <1>1, <2>1 DEF Distinct
  <2>. QED
    BY <1>1, <2>2
<1>4. Ids(w) = {d[i].id : i \in I}
  BY <1>2 DEF Ids
<1>. QED
  BY <1>1, <1>2, <1>3, <1>4 DEF w

\* As many ids as documents.
LEMMA IdsCount ==
  ASSUME NEW S, NEW d \in Seq(S), Distinct(d)
  PROVE  IsFiniteSet(Ids(d)) /\ Cardinality(Ids(d)) = Len(d)
<1>. DEFINE h == [i \in 1..Len(d) |-> d[i].id]
<1>1. Len(d) \in Nat /\ DOMAIN d = 1..Len(d)
  OBVIOUS
<1>2. IsFiniteSet(1..Len(d)) /\ Cardinality(1..Len(d)) = Len(d)
  BY <1>1, FS_Interval
<1>3. h \in Bijection(1..Len(d), Ids(d))
  <2>1. h \in [1..Len(d) -> Ids(d)]
    BY <1>1 DEF Ids
  <2>2. \A i, j \in 1..Len(d) : h[i] = h[j] => i = j
    BY <1>1 DEF Distinct
  <2>3. \A x \in Ids(d) : \E i \in 1..Len(d) : h[i] = x
    BY <1>1 DEF Ids
  <2>. QED
    BY <2>1, <2>2, <2>3 DEF Bijection, Injection, Surjection, IsInjective
<1>4. ExistsBijection(1..Len(d), Ids(d))
  BY <1>3 DEF ExistsBijection
<1>. QED
  BY <1>2, <1>4, FS_Bijection

\* A sequence by its positions.
LEMMA EntriesFacts ==
  ASSUME NEW S, NEW s \in Seq(S)
  PROVE  /\ DOMAIN s = 1..Len(s) /\ Len(s) \in Nat /\ IsFiniteSet(DOMAIN s)
         /\ \A i \in DOMAIN s : s[i] \in S
<1>1. DOMAIN s = 1..Len(s) /\ Len(s) \in Nat /\ \A i \in DOMAIN s : s[i] \in S
  OBVIOUS
<1>2. IsFiniteSet(1..Len(s))
  BY <1>1, FS_Interval
<1>. QED
  BY <1>1, <1>2

\* The least of some numbers.
LEMMA MinFacts ==
  ASSUME NEW S \in SUBSET Nat, S # {}
  PROVE  Min(S) \in S /\ \A y \in S : Min(S) <= y
<1>1. PICK x \in S : \A y \in S : ~(<<y, x>> \in OpToRel(<, Nat))
  BY NatLessThanWellFounded, WFMin
<1>0. \A y \in S : ~(y < x)
  BY <1>1 DEF OpToRel
<1>2. \A y \in S : x <= y
  BY <1>0
<1>. QED
  BY <1>2 DEF Min

\* The largest of finitely many.
LEMMA MaxFacts ==
  ASSUME NEW n \in Nat, NEW S \in SUBSET (0..n), S # {}
  PROVE  Max(S) \in S /\ \A y \in S : y <= Max(S)
<1>. DEFINE R == {n - x : x \in S}
<1>1. R \in SUBSET Nat /\ R # {}
  <2>1. \A x \in S : x \in Nat /\ x <= n /\ n - x \in Nat
    OBVIOUS
  <2>. QED
    BY <2>1
<1>2. PICK x \in S : n - x = Min(R)
  <2>1. Min(R) \in R
    BY <1>1, MinFacts
  <2>. HIDE DEF Min
  <2>. QED
    BY <2>1
<1>3. \A y \in S : n - x <= n - y
  <2>1. \A z \in R : Min(R) <= z
    BY <1>1, MinFacts
  <2>. QED
    BY <1>2, <2>1
<1>4. \A y \in S : y <= x /\ x >= y
  BY <1>3
<1>5. Max(S) \in S /\ \A y \in S : Max(S) >= y
  BY <1>4 DEF Max
<1>. QED
  BY <1>5

\* Joined texts are as long as the texts together, or longer.
LEMMA JoinedFacts ==
  ASSUME NEW s \in Seq(Nat), s # <<>>, NEW k \in Nat
  PROVE  /\ Joined(s, k) \in Nat /\ SumOf(s) \in Nat /\ SumOf(s) <= Joined(s, k)
         /\ \A i \in DOMAIN s : s[i] <= SumOf(s)
<1>1. DOMAIN s = 1..Len(s) /\ Len(s) \in Nat \ {0}
  OBVIOUS
<1>2. IsFiniteSet(DOMAIN s) /\ \A i \in DOMAIN s : s[i] \in Nat
  BY EntriesFacts
<1>3. SumOf(s) \in Nat /\ \A i \in DOMAIN s : s[i] <= SumOf(s)
  BY <1>2, SumNat, SumElement DEF SumOf
<1>4. k * (Len(s) - 1) \in Nat
  BY <1>1
<1>. QED
  BY <1>3, <1>4 DEF Joined

\* Comparing fractions is transitive.
LEMMA FractionsOrdered ==
  ASSUME NEW a \in Nat, NEW b \in Nat, NEW c \in Nat,
         NEW p \in Nat, NEW q \in Nat \ {0}, NEW r \in Nat, a * q <= b * p, b * r <= c * q
  PROVE  a * r <= c * p
<1>1. (a * q) * r <= (b * p) * r
  <2>. DEFINE x == a * q
              y == b * p
  <2>1. x \in Nat /\ y \in Nat /\ x <= y
    OBVIOUS
  <2>. HIDE DEF x, y
  <2>2. y = x + (y - x) /\ y - x \in Nat /\ (y - x) * r \in Nat
    BY <2>1
  <2>3. y * r = x * r + (y - x) * r
    BY <2>1
  <2>4. x * r \in Nat /\ y * r \in Nat
    BY <2>1
  <2>5. x * r <= y * r
    BY <2>2, <2>3, <2>4
  <2>. QED
    BY <2>5 DEF x, y
<1>2. (b * r) * p <= (c * q) * p
  <2>. DEFINE x == b * r
              y == c * q
  <2>1. x \in Nat /\ y \in Nat /\ x <= y
    OBVIOUS
  <2>. HIDE DEF x, y
  <2>2. y - x \in Nat /\ (y - x) * p \in Nat
    BY <2>1
  <2>3. y * p = x * p + (y - x) * p
    BY <2>1
  <2>4. x * p \in Nat /\ y * p \in Nat
    BY <2>1
  <2>5. x * p <= y * p
    BY <2>2, <2>3, <2>4
  <2>. QED
    BY <2>5 DEF x, y
<1>3. (a * q) * r = (a * r) * q /\ (b * p) * r = (b * r) * p /\ (c * q) * p = (c * p) * q
  OBVIOUS
<1>. DEFINE u == a * r
            v == c * p
<1>4. u * q <= v * q
  BY <1>1, <1>2, <1>3
<1>5. u \in Nat /\ v \in Nat
  OBVIOUS
<1>. HIDE DEF u, v
<1>6. ASSUME v < u PROVE FALSE
  <2>1. u - v \in Nat \ {0} /\ u * q = v * q + (u - v) * q /\ u * q \in Nat /\ v * q \in Nat
    BY <1>5, <1>6
  <2>2. (u - v) * q >= 1
    BY <2>1
  <2>. QED
    BY <1>4, <2>1, <2>2
<1>7. u <= v
  BY <1>5, <1>6
<1>. QED
  BY <1>7 DEF u, v

\* The characters of a column.
LEMMA ColumnFacts ==
  ASSUME NEW f \in Accepted, f.format = "csv", NEW c \in Entries(f.columns)
  PROVE  /\ Chars(f, c) \in Nat /\ Cardinality(Filled(f, c)) \in Nat
         /\ Filled(f, c) = {} => Chars(f, c) = 0 /\ Cardinality(Filled(f, c)) = 0
         /\ Filled(f, c) # {} => Cardinality(Filled(f, c)) # 0
         /\ IsFiniteSet(Filled(f, c)) /\ IsFiniteSet(DOMAIN f.rows)
         /\ \A i \in DOMAIN f.rows : f.rows[i][c].chars \in Nat
<1>1. f.rows \in Seq([Entries(f.columns) -> [chars : Nat, word : STRING]])
  BY FilesAssumption DEF Accepted
<1>2. \A i \in DOMAIN f.rows : f.rows[i][c].chars \in Nat
  <2>1. \A i \in DOMAIN f.rows : f.rows[i] \in [Entries(f.columns) -> [chars : Nat, word : STRING]]
    BY <1>1
  <2>. HIDE DEF Entries
  <2>. QED
    BY <2>1
<1>3. IsFiniteSet(Filled(f, c)) /\ IsFiniteSet(DOMAIN f.rows)
  <2>1. DOMAIN f.rows = 1..Len(f.rows) /\ Len(f.rows) \in Nat
    BY <1>1
  <2>2. IsFiniteSet(DOMAIN f.rows)
    BY <2>1, FS_Interval
  <2>. QED
    BY <2>2, FS_Subset DEF Filled
<1>4. Chars(f, c) \in Nat
  <2>. DEFINE g == [i \in Filled(f, c) |-> f.rows[i][c].chars]
  <2>1. \A i \in Filled(f, c) : g[i] \in Nat
    BY <1>2 DEF Filled
  <2>. HIDE DEF g
  <2>2. SumOver(g, Filled(f, c)) \in Nat
    BY <1>3, <2>1, SumNat
  <2>. QED
    BY <2>2 DEF Chars, g
<1>5. Filled(f, c) = {} => Chars(f, c) = 0
  BY SumEmpty DEF Chars
<1>6. /\ Cardinality(Filled(f, c)) \in Nat
      /\ Filled(f, c) = {} <=> Cardinality(Filled(f, c)) = 0
  BY <1>3, FS_CardinalityType, FS_EmptySet
<1>. QED
  BY <1>2, <1>3, <1>4, <1>5, <1>6

\* The first of the columns with the longest texts exists.
LEMMA TextColumnDetected ==
  ASSUME NEW f \in Accepted, f.format = "csv"
  PROVE  \E k \in Candidates(f) : /\ DetectedTextColumn(f) = f.columns[k]
                                  /\ DetectedTextColumn(f) \in Entries(f.columns)
<1>. DEFINE C == Candidates(f)
            n(k) == Cardinality(Filled(f, f.columns[k]))
            m(k) == Chars(f, f.columns[k])
            Full == {k \in C : Filled(f, f.columns[k]) # {}}
            Best == {k \in C :
                       /\ Filled(f, f.columns[k]) = {} => \A j \in C : Filled(f, f.columns[j]) = {}
                       /\ ~ \E j \in C : LongerOnAverage(f, f.columns[j], f.columns[k])}
<1>1. C # {} /\ C \subseteq DOMAIN f.columns
  BY DEF Accepted, Rejected, Textless, Candidates
<1>2. /\ \A k \in C : f.columns[k] \in Entries(f.columns)
      /\ \A k \in C : m(k) \in Nat /\ n(k) \in Nat
      /\ \A k \in C \ Full : m(k) = 0 /\ n(k) = 0
      /\ \A k \in Full : n(k) # 0
  <2>1. \A k \in C : f.columns[k] \in Entries(f.columns)
    BY <1>1 DEF Entries
  <2>. QED
    BY <2>1, ColumnFacts
<1>3. \A j, k \in C : LongerOnAverage(f, f.columns[j], f.columns[k]) <=> m(j) * n(k) > m(k) * n(j)
  BY DEF LongerOnAverage
<1>. HIDE DEF n, m
<1>4. Best # {}
  <2>1. CASE Full = {}
    <3>1. \A j, k \in C : ~(m(j) * n(k) > m(k) * n(j))
      <4>1. \A k \in C : m(k) = 0 /\ n(k) = 0
        BY <1>2, <2>1
      <4>. HIDE DEF C, Full
      <4>. QED
        BY <4>1
    <3>. QED
      BY <1>1, <1>3, <2>1, <3>1
  <2>2. CASE Full # {}
    <3>1. IsFiniteSet(Full)
      <4>1. IsFiniteSet(DOMAIN f.columns)
        <5>1. f.columns \in Seq(STRING)
          BY FilesAssumption DEF Accepted
        <5>. QED
          BY <5>1, FS_Interval
      <4>. QED
        BY <1>1, <4>1, FS_Subset
    <3>. DEFINE Largest(k, t) == \A j \in t : m(j) * n(k) <= m(k) * n(j)
                F == {t \in SUBSET Full : t = {} \/ \E k \in t : Largest(k, t)}
    <3>2. {} \in F
      OBVIOUS
    <3>3. ASSUME NEW t \in SUBSET Full, NEW x \in Full \ t, t \in F PROVE t \cup {x} \in F
      <4>0. \A j \in Full : m(j) \in Nat /\ n(j) \in Nat \ {0}
        BY <1>2
      <4>. HIDE DEF Full
      <4>1. CASE t = {}
        <5>1. Largest(x, t \cup {x})
          BY <4>0, <4>1
        <5>. QED
          BY <5>1
      <4>2. CASE t # {}
        <5>1. PICK k \in t : Largest(k, t)
          BY <3>3, <4>2
        <5>2. /\ k \in Full /\ x \in Full
              /\ m(k) * n(k) <= m(k) * n(k) /\ m(x) * n(x) <= m(x) * n(x)
          BY <4>0
        <5>3. CASE m(x) * n(k) <= m(k) * n(x)
          <6>1. Largest(k, t \cup {x})
            BY <5>1, <5>3
          <6>. QED
            BY <5>1, <6>1
        <5>4. CASE ~(m(x) * n(k) <= m(k) * n(x))
          <6>1. m(k) * n(x) <= m(x) * n(k)
            <7>1. m(x) * n(k) \in Nat /\ m(k) * n(x) \in Nat
              BY <4>0, <5>2
            <7>. QED
              BY <5>4, <7>1
          <6>2. ASSUME NEW j \in t PROVE m(j) * n(x) <= m(x) * n(j)
            BY <4>0, <5>1, <5>2, <6>1, FractionsOrdered
          <6>3. Largest(x, t \cup {x})
            BY <5>2, <6>2
          <6>. QED
            BY <6>3
        <5>. QED
          BY <5>3, <5>4
      <4>. QED
        BY <4>1, <4>2
    <3>. HIDE DEF F
    <3>4. Full \in F
      BY <3>1, <3>2, <3>3, SubsetInduction
    <3>5. PICK k \in Full : Largest(k, Full)
      BY <2>2, <3>4 DEF F
    <3>6. ASSUME NEW j \in C PROVE ~(m(j) * n(k) > m(k) * n(j))
      <4>1. CASE j \in Full
        <5>1. m(j) * n(k) <= m(k) * n(j) /\ m(j) * n(k) \in Nat /\ m(k) * n(j) \in Nat
          BY <1>2, <3>5, <4>1
        <5>. QED
          BY <5>1
      <4>2. CASE j \notin Full
        BY <1>2, <4>2
      <4>. QED
        BY <4>1, <4>2
    <3>7. k \in Best
      BY <1>3, <3>5, <3>6
    <3>. QED
      BY <3>7
  <2>. QED
    BY <2>1, <2>2
<1>5. Best \in SUBSET Nat /\ Best \subseteq C
  <2>1. f.columns \in Seq(STRING)
    BY FilesAssumption DEF Accepted
  <2>2. DOMAIN f.columns \subseteq Nat
    BY <2>1
  <2>. QED
    BY <1>1, <2>2
<1>6. DetectedTextColumn(f) = f.columns[Min(Best)]
  BY DEF DetectedTextColumn
<1>. HIDE DEF Best, C
<1>7. Min(Best) \in C
  BY <1>4, <1>5, MinFacts
<1>. QED
  BY <1>2, <1>6, <1>7 DEF C

\* Numbered documents, one with a text, are a corpus.
LEMMA NumberedCorpus ==
  ASSUME NEW d, NEW n \in Nat \ {0}, d = [i \in 1..n |-> d[i]],
         \A i \in 1..n : d[i].id \in Nat /\ d[i].text \in Nat /\ CellsOf(d[i]),
         \E i \in 1..n : d[i].text > 0
  PROVE  IsCorpus(d)
<1>1. DOMAIN d = 1..n
  OBVIOUS
<1>2. d \in Seq(Entries(d)) /\ Len(d) = n
  <2>1. \A i \in 1..n : d[i] \in Entries(d)
    BY <1>1 DEF Entries
  <2>. HIDE DEF Entries
  <2>. QED
    BY <2>1
<1>3. d # <<>>
  BY <1>2
<1>. QED
  BY <1>1, <1>2, <1>3 DEF IsCorpus

\* What a loader makes of a file that it accepts is a corpus: of a CSV, whose index may give
\* two documents one id and whose cells may name different text columns, ...
LEMMA CsvCorpus ==
  ASSUME NEW f \in Accepted, f.format = "csv"
  PROVE  /\ IsCorpus(Documents(f))
         /\ ~RepeatsIds(f) => Distinct(Documents(f))
         /\ ~KeyReplaced(f) => OneColumn(Documents(f))
<1>. DEFINE n == Shorter(Len(f.rows), MaxRows)
            d == CsvDocuments(f)
            c == DetectedTextColumn(f)
<1>1. /\ Len(f.rows) \in Nat /\ DOMAIN f.rows = 1..Len(f.rows)
      /\ f.index \in [DOMAIN f.rows -> Nat \cup {NoNumber}]
  <2>. DEFINE S == [Entries(f.columns) -> [chars : Nat, word : STRING]]
  <2>1. f.rows \in Seq(S) /\ f.index \in [DOMAIN f.rows -> Nat \cup {NoNumber}]
    BY FilesAssumption DEF Accepted
  <2>. HIDE DEF S
  <2>. QED
    BY <2>1, EntriesFacts
<1>2. n \in Nat /\ 1..n \subseteq DOMAIN f.rows /\ CsvRows(f) = 1..n
  BY <1>1, LimitsAssumption DEF Shorter, CsvRows
<1>3. /\ d = [i \in 1..n |-> d[i]]
      /\ \A i \in 1..n : d[i].id = f.index[i] /\ d[i].text = f.rows[i][c].chars
      /\ ~KeyReplaced(f) => \A i \in 1..n : d[i].text_column = c
  BY DEF CsvDocuments, CsvRows
<1>9. \A i \in 1..n : f.index[i] \in Nat
  <2>1. \A i \in 1..n : f.index[i] # NoNumber
    BY <1>2 DEF Accepted, Unnumbered
  <2>. HIDE DEF n
  <2>. QED
    BY <1>1, <1>2, <2>1
<1>4. \A i \in 1..n : d[i].text \in Nat /\ CellsOf(d[i])
  <2>1. \A i \in DOMAIN f.rows : f.rows[i][c].chars \in Nat
    BY TextColumnDetected, ColumnFacts
  <2>2. ASSUME NEW i \in 1..n PROVE CellsOf(d[i])
    <3>1. d[i].metadata = [x \in OtherColumns(f) |-> f.rows[i][x]]
      BY <1>2 DEF CsvDocuments
    <3>2. OtherColumns(f) \subseteq Entries(f.columns)
      BY DEF OtherColumns, Entries
    <3>. HIDE DEF d, n
    <3>3. i \in DOMAIN f.rows /\ f.rows \in Seq([Entries(f.columns) -> [chars : Nat, word : STRING]])
      BY <1>2, FilesAssumption DEF Accepted
    <3>4. f.rows[i] \in [Entries(f.columns) -> [chars : Nat, word : STRING]]
      <4>. DEFINE S == [Entries(f.columns) -> [chars : Nat, word : STRING]]
      <4>. HIDE DEF S
      <4>1. f.rows \in Seq(S)
        BY <3>3 DEF S
      <4>2. f.rows[i] \in S
        BY <3>3, <4>1
      <4>. QED
        BY <4>2 DEF S
    <3>5. \A x \in OtherColumns(f) : f.rows[i][x] \in [chars : Nat, word : STRING]
      BY <3>2, <3>4
    <3>. QED
      BY <3>1, <3>5 DEF CellsOf
  <2>. HIDE DEF c, d, n
  <2>. QED
    BY <1>2, <1>3, <2>1, <2>2
<1>5. \E i \in 1..n : d[i].text > 0
  <2>1. ~(\A i \in CsvRows(f) : d[i].text = 0)
    BY DEF Accepted, Rejected, Textless
  <2>. HIDE DEF d, n
  <2>. QED
    BY <1>2, <1>4, <2>1
<1>. HIDE DEF d, n, c
<1>6. n # 0 /\ DOMAIN d = 1..n
  BY <1>3, <1>5
<1>7. /\ ~RepeatsIds(f) => Distinct(d)
      /\ ~KeyReplaced(f) => OneColumn(d)
  BY <1>2, <1>3, <1>6 DEF RepeatsIds, Distinct, OneColumn
<1>8. IsCorpus(d)
  BY <1>2, <1>3, <1>4, <1>5, <1>6, <1>9, NumberedCorpus
<1>. QED
  BY <1>7, <1>8 DEF Documents, d

\* The lines of a TXT with text in them, and from where to where they stand.
LEMMA LinesFacts ==
  ASSUME NEW f \in Accepted, f.format = "txt"
  PROVE  LET I == {i \in DOMAIN f.lines : f.lines[i].chars > 0}
         IN  /\ f.lines \in Seq([chars : Nat, ends : BOOLEAN])
             /\ IsFiniteSet(DOMAIN f.lines) /\ \A i \in DOMAIN f.lines : f.lines[i].chars \in Nat
             /\ I # {} /\ Min(I) \in I /\ Max(I) \in I /\ \A i \in I : i \in Min(I)..Max(I)
             /\ NonBlankLines(f) = Picked(f.lines, I) /\ NonBlankLines(f) # <<>>
<1>. DEFINE I == {i \in DOMAIN f.lines : f.lines[i].chars > 0}
<1>0. f.lines \in Seq([chars : Nat, ends : BOOLEAN])
  BY FilesAssumption DEF Accepted
<1>1. /\ DOMAIN f.lines = 1..Len(f.lines) /\ Len(f.lines) \in Nat /\ IsFiniteSet(DOMAIN f.lines)
      /\ \A i \in DOMAIN f.lines : f.lines[i] \in [chars : Nat, ends : BOOLEAN]
  BY <1>0, EntriesFacts
<1>2. IsFiniteSet(DOMAIN f.lines) /\ \A i \in DOMAIN f.lines : f.lines[i].chars \in Nat
  BY <1>1
<1>3. NonBlankLines(f) = Picked(f.lines, I) /\ NonBlankLines(f) # <<>>
  BY DEF Accepted, Rejected, Textless, NonBlankLines
<1>4. I # {}
  <2>. SUFFICES ASSUME I = {} PROVE FALSE
    OBVIOUS
  <2>1. Picked(f.lines, {}) = <<>>
    BY FS_EmptySet DEF Picked
  <2>. HIDE DEF I
  <2>. QED
    BY <1>3, <2>1
<1>5. I \in SUBSET Nat /\ I \in SUBSET (0..Len(f.lines))
  BY <1>1
<1>. HIDE DEF I
<1>6. /\ Min(I) \in I /\ \A y \in I : Min(I) <= y
      /\ Max(I) \in I /\ \A y \in I : y <= Max(I)
  BY <1>1, <1>4, <1>5, MinFacts, MaxFacts
<1>7. \A i \in I : i \in Min(I)..Max(I)
  BY <1>5, <1>6
<1>. QED
  BY <1>0, <1>2, <1>3, <1>4, <1>6, <1>7 DEF I

\* From the first line with text to the last one.
LEMMA StrippedFacts ==
  ASSUME NEW f \in Accepted, f.format = "txt"
  PROVE  LET I == {i \in DOMAIN f.lines : f.lines[i].chars > 0}
             s == LineLengths(Stripped(f))
         IN  /\ s \in Seq(Nat) /\ s # <<>> /\ s[1] > 0
             /\ DOMAIN s = 1..(Max(I) - Min(I) + 1)
             /\ \A k \in DOMAIN s : s[k] = f.lines[Min(I) + k - 1].chars
<1>. DEFINE I == {i \in DOMAIN f.lines : f.lines[i].chars > 0}
            a == Min(I)
            b == Max(I)
            m == b - a + 1
            t == SubSeq(f.lines, a, b)
            s == LineLengths(Stripped(f))
<1>1. /\ f.lines \in Seq([chars : Nat, ends : BOOLEAN])
      /\ DOMAIN f.lines = 1..Len(f.lines) /\ Len(f.lines) \in Nat
      /\ \A i \in DOMAIN f.lines : f.lines[i].chars \in Nat
      /\ a \in I /\ b \in I /\ a \in a..b
  <2>1. /\ f.lines \in Seq([chars : Nat, ends : BOOLEAN])
        /\ \A i \in DOMAIN f.lines : f.lines[i].chars \in Nat
        /\ a \in I /\ b \in I /\ \A i \in I : i \in a..b
    BY LinesFacts
  <2>2. DOMAIN f.lines = 1..Len(f.lines) /\ Len(f.lines) \in Nat
    BY <2>1, EntriesFacts
  <2>. HIDE DEF I, a, b
  <2>. QED
    BY <2>1, <2>2
<1>2. /\ a \in 1..Len(f.lines) /\ b \in 1..Len(f.lines) /\ a <= b /\ f.lines[a].chars > 0
      /\ m \in Nat \ {0}
  BY <1>1
<1>3. Stripped(f) = t
  BY DEF Stripped
<1>. HIDE DEF I, a, b
<1>4. t = [k \in 1..m |-> f.lines[a + k - 1]]
  BY <1>1, <1>2
<1>5. s = [k \in 1..m |-> f.lines[a + k - 1].chars]
  BY <1>3, <1>4 DEF LineLengths
<1>6. \A k \in 1..m : a + k - 1 \in DOMAIN f.lines
  BY <1>1, <1>2
<1>. HIDE DEF s, m
<1>7. s \in Seq(Nat) /\ s # <<>> /\ s[1] > 0
  <2>1. \A k \in 1..m : s[k] \in Nat
    BY <1>1, <1>5, <1>6
  <2>2. s \in Seq(Nat) /\ Len(s) = m
    BY <1>2, <1>5, <2>1
  <2>3. s[1] = f.lines[a].chars
    BY <1>2, <1>5
  <2>. QED
    BY <1>2, <2>2, <2>3
<1>. QED
  BY <1>5, <1>7 DEF s, m, a, b, I

\* The records of a TXT are texts.
LEMMA RecordsFacts ==
  ASSUME NEW f \in Accepted, f.format = "txt"
  PROVE  TxtRecords(f) \in Seq(Nat) /\ TxtRecords(f) # <<>> /\ TxtRecords(f)[1] > 0
<1>. DEFINE I == {i \in DOMAIN f.lines : f.lines[i].chars > 0}
            lines == NonBlankLines(f)
            s == LineLengths(Stripped(f))
<1>1. CASE MultiRecord(f)
  <2>1. /\ f.lines \in Seq([chars : Nat, ends : BOOLEAN]) /\ lines # <<>>
        /\ \A i \in DOMAIN f.lines : f.lines[i].chars \in Nat
        /\ lines = Picked(f.lines, I)
    BY LinesFacts
  <2>2. I \in SUBSET DOMAIN f.lines
    OBVIOUS
  <2>3. /\ lines \in Seq([chars : Nat, ends : BOOLEAN])
        /\ \A k \in DOMAIN lines : \E i \in I : lines[k] = f.lines[i]
    <3>. HIDE DEF I
    <3>. QED
      BY <2>1, <2>2, PickedFacts, PickedRange
  <2>4. \A k \in DOMAIN lines : lines[k].chars \in Nat /\ lines[k].chars > 0
    BY <2>1, <2>3
  <2>. HIDE DEF lines
  <2>5. LineLengths(lines) \in Seq(Nat) /\ LineLengths(lines) # <<>> /\ LineLengths(lines)[1] > 0
    <3>1. DOMAIN lines = 1..Len(lines) /\ Len(lines) \in Nat \ {0}
      BY <2>1, <2>3
    <3>2. LineLengths(lines) = [i \in 1..Len(lines) |-> lines[i].chars]
      BY <3>1 DEF LineLengths
    <3>. QED
      BY <2>4, <3>1, <3>2
  <2>. QED
    BY <1>1, <2>5 DEF TxtRecords, lines
<1>2. CASE ~MultiRecord(f)
  <2>1. s \in Seq(Nat) /\ s # <<>> /\ s[1] > 0
    BY StrippedFacts
  <2>. HIDE DEF s
  <2>2. 1 \in DOMAIN s
    BY <2>1
  <2>3. Joined(s, 1) \in Nat /\ Joined(s, 1) > 0
    BY <2>1, <2>2, JoinedFacts
  <2>4. TxtRecords(f) = <<Joined(s, 1)>>
    BY <1>2 DEF TxtRecords, s
  <2>. QED
    BY <2>3, <2>4
<1>. QED
  BY <1>1, <1>2

\* ... of a TXT ...
LEMMA TxtCorpus ==
  ASSUME NEW f \in Accepted, f.format = "txt"
  PROVE  IsCorpus(Documents(f)) /\ Distinct(Documents(f)) /\ OneColumn(Documents(f))
<1>. DEFINE records == TxtRecords(f)
            n == Shorter(Len(records), MaxRows)
            d == TxtDocuments(f)
<1>1. records \in Seq(Nat) /\ records # <<>> /\ records[1] > 0
  BY RecordsFacts
<1>2. n \in Nat \ {0} /\ 1..n \subseteq DOMAIN records
  <2>. HIDE DEF records
  <2>. QED
    BY <1>1, LimitsAssumption DEF Shorter
<1>3. /\ d = [i \in 1..n |-> d[i]]
      /\ \A i \in 1..n : /\ d[i].id = i - 1 /\ d[i].text_column = NoColumn /\ d[i].text = records[i]
                         /\ CellsOf(d[i])
  BY DEF TxtDocuments, Document, CellsOf
<1>. HIDE DEF d, n, records
<1>4. DOMAIN d = 1..n /\ 1 \in 1..n
  BY <1>2, <1>3
<1>5. Distinct(d) /\ OneColumn(d)
  BY <1>2, <1>3, <1>4 DEF Distinct, OneColumn
<1>6. /\ \A i \in 1..n : d[i].id \in Nat /\ d[i].text \in Nat /\ CellsOf(d[i])
      /\ \E i \in 1..n : d[i].text > 0
  BY <1>1, <1>2, <1>3, <1>4
<1>7. IsCorpus(d)
  BY <1>2, <1>3, <1>6, NumberedCorpus
<1>. QED
  BY <1>5, <1>7 DEF Documents, d

\* The pages of a PDF, and those with text.
LEMMA PagesFacts ==
  ASSUME NEW f \in Accepted, f.format = "pdf"
  PROVE  LET pages == PdfPages(f)
             I == {i \in DOMAIN pages : pages[i] > 0}
         IN  /\ pages \in Seq(Nat) /\ Texts(pages) = Picked(pages, I) /\ Cardinality(I) \in Nat \ {0}
             /\ Texts(pages) \in Seq(Nat) /\ Texts(pages) # <<>>
             /\ \A k \in DOMAIN Texts(pages) : Texts(pages)[k] > 0
<1>. DEFINE pages == PdfPages(f)
            I == {i \in DOMAIN pages : pages[i] > 0}
            texts == Picked(pages, I)
<1>1. pages \in Seq(Nat)
  <2>1. f.pages \in Seq(Nat)
    BY FilesAssumption DEF Accepted
  <2>2. /\ Shorter(Len(f.pages), MaxPdfPages) \in Int
        /\ \A i \in 1..Shorter(Len(f.pages), MaxPdfPages) : f.pages[i] \in Nat
    BY <2>1, LimitsAssumption DEF Shorter
  <2>. QED
    BY <2>2, SubSeqProperties DEF PdfPages
<1>2. Texts(pages) = texts /\ texts # <<>>
  BY DEF Accepted, Rejected, Textless, Texts
<1>3. I \in SUBSET DOMAIN pages /\ \A i \in I : pages[i] > 0
  OBVIOUS
<1>. HIDE DEF I, pages
<1>4. /\ texts \in Seq(Nat) /\ Len(texts) = Cardinality(I) /\ Cardinality(I) \in Nat
      /\ \A k \in DOMAIN texts : \E i \in I : texts[k] = pages[i]
  BY <1>1, <1>3, PickedFacts, PickedRange
<1>. HIDE DEF texts
<1>5. Cardinality(I) # 0 /\ \A k \in DOMAIN texts : texts[k] > 0
  BY <1>2, <1>3, <1>4
<1>. QED
  BY <1>1, <1>2, <1>4, <1>5 DEF pages, I, texts

\* ... and of a PDF, whose pages keep their numbers.
LEMMA PdfCorpus ==
  ASSUME NEW f \in Accepted, f.format = "pdf"
  PROVE  IsCorpus(Documents(f)) /\ Distinct(Documents(f)) /\ OneColumn(Documents(f))
<1>. DEFINE pages == PdfPages(f)
            I == {i \in DOMAIN pages : pages[i] > 0}
            all == [i \in DOMAIN pages |-> Document(i - 1, pages[i])]
            text == Joined(Texts(pages), 2)
<1>1. /\ pages \in Seq(Nat) /\ Cardinality(I) \in Nat \ {0}
      /\ Texts(pages) \in Seq(Nat) /\ Texts(pages) # <<>>
      /\ \A k \in DOMAIN Texts(pages) : Texts(pages)[k] > 0
  BY PagesFacts
<1>2. text \in Nat /\ text > 0
  <2>. DEFINE texts == Texts(pages)
  <2>1. texts \in Seq(Nat) /\ texts # <<>> /\ \A k \in DOMAIN texts : texts[k] > 0
    BY <1>1
  <2>. HIDE DEF texts, pages
  <2>2. 1 \in DOMAIN texts
    BY <2>1
  <2>3. /\ Joined(texts, 2) \in Nat /\ SumOf(texts) \in Nat /\ SumOf(texts) <= Joined(texts, 2)
        /\ texts[1] <= SumOf(texts) /\ texts[1] \in Nat /\ texts[1] > 0
    <3>1. texts[1] \in Nat /\ texts[1] > 0
      BY <2>1, <2>2
    <3>. DEFINE k == 2
    <3>2. k \in Nat
      OBVIOUS
    <3>. HIDE DEF k
    <3>3. Joined(texts, k) \in Nat /\ SumOf(texts) \in Nat /\ SumOf(texts) <= Joined(texts, k)
      BY <2>1, <3>2, JoinedFacts
    <3>4. texts[1] <= SumOf(texts)
      BY <2>1, <2>2, <3>2, JoinedFacts
    <3>. QED
      BY <3>1, <3>3, <3>4 DEF k
  <2>. QED
    BY <2>3, SMT DEF texts
<1>3. CASE SumOf(pages) <= SingleDocMaxChars
  <2>. DEFINE d == <<Document(0, text)>>
  <2>1. Documents(f) = d
    BY <1>3 DEF Documents, PdfDocuments
  <2>. HIDE DEF text
  <2>2. /\ d = [i \in 1..1 |-> d[i]]
        /\ \A i \in 1..1 : /\ d[i].id = i - 1 /\ d[i].text_column = NoColumn /\ d[i].text = text
                           /\ CellsOf(d[i])
    BY DEF Document, CellsOf
  <2>. HIDE DEF d
  <2>3. Distinct(d) /\ OneColumn(d)
    BY <2>2 DEF Distinct, OneColumn
  <2>4. /\ \A i \in 1..1 : d[i].id \in Nat /\ d[i].text \in Nat /\ CellsOf(d[i])
        /\ \E i \in 1..1 : d[i].text > 0
    BY <1>2, <2>2
  <2>5. IsCorpus(d)
    BY <2>2, <2>4, 1 \in Nat \ {0}, NumberedCorpus
  <2>. QED
    BY <2>1, <2>3, <2>5
<1>4. CASE ~(SumOf(pages) <= SingleDocMaxChars)
  <2>. DEFINE d == Picked(all, I)
  <2>1. Documents(f) = d
    BY <1>4 DEF Documents, PdfDocuments
  <2>2. /\ DOMAIN all = DOMAIN pages /\ I \in SUBSET DOMAIN all
        /\ \A i \in DOMAIN pages : /\ all[i].id = i - 1 /\ all[i].text_column = NoColumn
                                   /\ all[i].text = pages[i] /\ CellsOf(all[i])
        /\ \A i \in I : pages[i] > 0
    BY DEF Document, CellsOf
  <2>3. all \in Seq(Entries(all))
    <3>1. \A i \in DOMAIN pages : Document(i - 1, pages[i]) \in Entries(all)
      BY DEF Entries
    <3>2. DOMAIN pages = 1..Len(pages) /\ Len(pages) \in Nat
      BY <1>1
    <3>. HIDE DEF pages, Entries
    <3>. QED
      BY <3>1, <3>2
  <2>4. DOMAIN pages = 1..Len(pages) /\ \A i \in DOMAIN pages : pages[i] \in Nat
    BY <1>1
  <2>. HIDE DEF all, pages, I
  <2>5. Distinct(all) /\ \A i \in DOMAIN all : all[i].id \in Nat
    BY <1>1, <2>2, <2>4 DEF Distinct
  <2>6. /\ d \in Seq(Entries(all)) /\ Len(d) = Cardinality(I) /\ Cardinality(I) \in Nat
        /\ DOMAIN d = 1..Cardinality(I) /\ Distinct(d)
        /\ \A k \in DOMAIN d : \E i \in I : d[k] = all[i]
    BY <2>2, <2>3, <2>5, PickedDocuments
  <2>. HIDE DEF d
  <2>7. d \in Seq(Entries(d)) /\ d # <<>> /\ 1 \in DOMAIN d
    BY <1>1, <2>6 DEF Entries
  <2>8. /\ OneColumn(d)
        /\ \A k \in DOMAIN d : d[k].id \in Nat /\ d[k].text \in Nat /\ d[k].text > 0 /\ CellsOf(d[k])
    BY <2>2, <2>4, <2>5, <2>6 DEF OneColumn
  <2>. QED
    BY <2>1, <2>6, <2>7, <2>8 DEF IsCorpus
<1>. QED
  BY <1>3, <1>4

\* Whatever is accepted becomes a corpus.
LEMMA AcceptedCorpus ==
  ASSUME NEW f \in Accepted
  PROVE  /\ IsCorpus(Corpora[f].documents)
         /\ ~RepeatsIds(f) => Distinct(Corpora[f].documents)
         /\ ~KeyReplaced(f) => OneColumn(Corpora[f].documents)
<1>1. f.format \in {"csv", "txt", "pdf"}
  BY FilesAssumption DEF Accepted
<1>2. Corpora[f].documents = Documents(f)
  BY DEF Corpora, Loaded
<1>. QED
  BY <1>1, <1>2, CsvCorpus, TxtCorpus, PdfCorpus

-----------------------------------------------------------------------------
(* The refinement of AgentTurn                                             *)

\* Of a filter that kept nothing, nothing is selected, and so there is no text.
LEMMA NothingKept ==
  ASSUME Ran("filter_documents"), results["filter_documents"].ids = {}
  PROVE  WithText(Selection) = <<>>
<1>1. \A s : Picked(s, {}) = <<>>
  <2>1. Cardinality({}) = 0
    BY FS_EmptySet
  <2>. QED
    BY <2>1 DEF Picked
<1>2. Selection = <<>>
  BY <1>1 DEF Selection
<1>3. {i \in DOMAIN <<>> : <<>>[i].text > 0} = {}
  OBVIOUS
<1>. QED
  BY <1>1, <1>2, <1>3 DEF WithText

\* What the agent sees of profile and corpus.
LEMMA Seen ==
  ASSUME TypeOK
  PROVE  /\ KindOf(profile) = "labelled" <=> HasLabels(profile)
         /\ CorpusKind = "missing" <=> lost
         /\ ~lost => CorpusKind = KindOf(Profiles[file])
<1>1. NoProfile.known = FALSE /\ ~HasLabels(NoProfile)
  BY DEF NoProfile, HasLabels
<1>2. \A f \in Accepted : Profiles[f].known
  BY DEF Profiles, Profile
<1>. QED
  BY <1>1, <1>2 DEF TypeOK, KindOf, CorpusKind

\* What the agent sees of the results.
LEMMA SeenResults ==
  ASSUME TypeOK, NEW tool \in Agent!Tools
  PROVE  /\ Ran(tool) <=> Outcome(results[tool]) # "not_run"
         /\ Outcome(results["filter_documents"]) = "kept_none" =>
              Ran("filter_documents") /\ results["filter_documents"].ids = {}
<1>1. \A t \in Agent!Tools : ~Ran(t) => Outcome(results[t]) = "not_run"
  BY DEF Ran, NoResult, Outcome
<1>2. Ran(tool) => Outcome(results[tool]) # "not_run"
  BY DEF TypeOK, WellFormed, Outcome, Agent!Results, Agent!Tools
<1>3. Ran("filter_documents") => results["filter_documents"].kind = "filter"
  BY DEF TypeOK, WellFormed, Agent!Tools
<1>4. Outcome(results["filter_documents"]) = "kept_none" =>
              Ran("filter_documents") /\ results["filter_documents"].ids = {}
  BY <1>1, <1>3 DEF Outcome, Agent!Tools
<1>. QED
  BY <1>1, <1>2, <1>4

\* A tool that refuses, in terms of AgentTurn.
LEMMA RefusesFacts ==
  ASSUME TypeOK, NEW tool \in Agent!Tools
  PROVE  /\ Agent!Unplannable(tool) => Refuses(tool)
         /\ ~lost /\ Agent!Refused(tool) => Refuses(tool)
         /\ Refuses(tool) => Agent!CanRaiseValueError(tool)
         /\ Infers(tool) => Agent!Infers(tool) /\ ~Agent!CorpusMissing(tool)
         /\ lost /\ tool \in Agent!ReadsCorpus => Agent!CorpusMissing(tool)
<1>1. /\ Ran("sentiment_analysis") <=> Outcome(results["sentiment_analysis"]) # "not_run"
      /\ Ran("semantic_search") <=> Outcome(results["semantic_search"]) # "not_run"
  BY SeenResults DEF Agent!Tools
<1>2. DOMAIN results = Agent!Tools
  BY DEF TypeOK
<1>3. /\ KindOf(profile) = "labelled" <=> HasLabels(profile)
      /\ CorpusKind = "missing" <=> lost
  BY Seen
<1>4. Agent!FilterSource <=> Ran("sentiment_analysis") \/ Ran("semantic_search")
  BY <1>1, <1>2 DEF Agent!FilterSource, Agent!Executed, Agent!NotRun, Agent!Tools
<1>5. Agent!Unplannable(tool) => Refuses(tool)
  BY <1>3, <1>4 DEF Agent!Unplannable, Agent!LabelsKnown, Agent!HasLabels, Refuses
<1>6. ASSUME ~lost, Agent!Refused(tool) PROVE Refuses(tool)
  <2>1. CASE Agent!NoIndex(tool)
    BY <1>6, <2>1 DEF Agent!NoIndex, Refuses
  <2>2. CASE Agent!NothingSelected(tool)
    <3>1. tool = "summarize_text" /\ Outcome(results["filter_documents"]) = "kept_none"
      BY <1>2, <2>2 DEF Agent!NothingSelected, Agent!Tools
    <3>2. WithText(Selection) = <<>>
      BY <3>1, SeenResults, NothingKept
    <3>. QED
      BY <1>6, <3>1, <3>2 DEF Refuses, Misfit
  <2>. QED
    BY <1>6, <2>1, <2>2 DEF Agent!Refused
<1>7. Refuses(tool) => Agent!CanRaiseValueError(tool)
  BY <1>3, <1>4 DEF Refuses, Agent!CanRaiseValueError, Agent!Unplannable, Agent!LabelsKnown, Agent!HasLabels,
                    Agent!CorpusMissing, Agent!Refused, Agent!NoIndex, Agent!Infers, Agent!RunsModel
<1>8. Infers(tool) => Agent!Infers(tool) /\ ~Agent!CorpusMissing(tool)
  BY <1>3 DEF Infers, Measures, Agent!Infers, Agent!RunsModel, Agent!HasLabels, Agent!CorpusMissing
<1>9. lost /\ tool \in Agent!ReadsCorpus => Agent!CorpusMissing(tool)
  BY <1>3 DEF Agent!CorpusMissing
<1>. QED
  BY <1>5, <1>6, <1>7, <1>8, <1>9

\* A call that AgentTurn's ToolSucceeds allows.
LEMMA CallsSucceed ==
  ASSUME TypeOK, NEW tool \in Agent!Tools, Calls(tool)
  PROVE  /\ Agent!NextTool = tool /\ Agent!CanSucceed(tool)
         /\ tool \in Agent!ReadsCorpus => ~lost
<1>1. tool \notin Agent!ReadsCorpus => ~Agent!Refused(tool)
  BY DEF Agent!Refused, Agent!NoIndex, Agent!NothingSelected, Agent!ReadsCorpus
<1>. QED
  BY <1>1, RefusesFacts DEF Calls, Runs, Agent!CanSucceed

\* Storing a result whose outcome AgentTurn expects is its ToolSucceeds.
LEMMA StoredSucceeds ==
  ASSUME TypeOK, NEW tool \in Agent!Tools, NEW r, Calls(tool), Stored(tool, r),
         Outcome(r) \in Agent!ResultsOf(tool),
         profile' = IF tool = "profile_dataset" THEN Profiles[file] ELSE profile,
         indexed' = (indexed \/ tool = "generate_embeddings")
  PROVE  Agent!ToolSucceeds
<1>1. /\ Agent!NextTool = tool /\ Agent!CanSucceed(tool)
      /\ tool \in Agent!ReadsCorpus => ~lost
  BY CallsSucceed
<1>2. [t \in DOMAIN results |-> Outcome(results[t])]'
        = [[t \in DOMAIN results |-> Outcome(results[t])] EXCEPT ![tool] = Outcome(r)]
  BY DEF Stored, TypeOK
<1>3. KindOf(profile)' = IF tool = "profile_dataset" THEN CorpusKind ELSE KindOf(profile)
  BY <1>1, Seen DEF Agent!ReadsCorpus
<1>4. UNCHANGED <<query, CorpusKind, plan, error, final_answer, requested>>
  BY DEF Stored, CorpusKind
<1>5. Agent!Superstep("execute_tool") /\ step_index < Len(plan)
  BY DEF Calls, Runs
<1>. QED
  BY <1>1, <1>2, <1>3, <1>4, <1>5 DEF Stored, Agent!ToolSucceeds

\* The same for the tools that change neither profile nor index.
LEMMA ReturnsSucceeds ==
  ASSUME TypeOK, NEW tool \in Agent!Tools \ {"profile_dataset", "generate_embeddings"}, NEW r,
         Calls(tool), Returns(tool, r), Outcome(r) \in Agent!ResultsOf(tool)
  PROVE  Agent!ToolSucceeds
<1>1. profile' = profile /\ indexed' = (indexed \/ tool = "generate_embeddings")
  BY DEF Returns, TypeOK
<1>. QED
  BY <1>1, StoredSucceeds DEF Returns

\* Every tool that returns is AgentTurn's ToolSucceeds.
LEMMA ToolsSucceed ==
  ASSUME TypeOK,
         \/ ProfileDataset \/ SentimentAnalysis \/ TextClassification \/ SummarizeText
         \/ GenerateEmbeddings \/ SemanticSearch \/ FilterDocuments
         \/ EvaluateCandidates \/ ResearchModels \/ ModelRecommendation
  PROVE  Agent!ToolSucceeds
<1>1. CASE ProfileDataset
  <2>. DEFINE r == [kind |-> "profile"]
  <2>1. Outcome(r) = "done"
    BY DEF Outcome
  <2>2. profile' = Profiles[file] /\ indexed' = (indexed \/ "profile_dataset" = "generate_embeddings")
    BY <1>1 DEF ProfileDataset, TypeOK
  <2>3. Calls("profile_dataset") /\ Stored("profile_dataset", r)
    BY <1>1 DEF ProfileDataset
  <2>. HIDE DEF r
  <2>. QED
    BY <2>1, <2>2, <2>3, StoredSucceeds DEF Agent!ResultsOf, Agent!Tools
<1>2. CASE SentimentAnalysis
  <2>1. PICK r : Calls("sentiment_analysis") /\ Returns("sentiment_analysis", r) /\ r.kind = "sentiment"
    BY <1>2 DEF SentimentAnalysis
  <2>2. Outcome(r) = "done"
    BY <2>1 DEF Outcome
  <2>. QED
    BY <2>1, <2>2, ReturnsSucceeds DEF Agent!ResultsOf, Agent!Tools
<1>3. CASE TextClassification
  BY <1>3, ReturnsSucceeds DEF TextClassification, Outcome, Agent!ResultsOf, Agent!Tools
<1>4. CASE SummarizeText
  <2>1. PICK r : Calls("summarize_text") /\ Returns("summarize_text", r) /\ r.kind = "summary"
    BY <1>4 DEF SummarizeText
  <2>2. Outcome(r) = "done"
    BY <2>1 DEF Outcome
  <2>. QED
    BY <2>1, <2>2, ReturnsSucceeds DEF Agent!ResultsOf, Agent!Tools
<1>5. CASE GenerateEmbeddings
  <2>1. profile' = profile /\ indexed' = (indexed \/ "generate_embeddings" = "generate_embeddings")
    BY <1>5, Zenon DEF GenerateEmbeddings
  <2>. QED
    BY <1>5, <2>1, StoredSucceeds DEF GenerateEmbeddings, Outcome, Agent!ResultsOf, Agent!Tools
<1>6. CASE SemanticSearch
  <2>1. PICK r : Calls("semantic_search") /\ Returns("semantic_search", r) /\ r.kind = "search"
    BY <1>6 DEF SemanticSearch
  <2>2. Outcome(r) = "done"
    BY <2>1 DEF Outcome
  <2>. QED
    BY <2>1, <2>2, ReturnsSucceeds DEF Agent!ResultsOf, Agent!Tools
<1>7. CASE FilterDocuments
  <2>1. PICK r : Calls("filter_documents") /\ Returns("filter_documents", r) /\ r.kind = "filter"
    BY <1>7 DEF FilterDocuments
  <2>. QED
    BY <2>1, ReturnsSucceeds DEF Outcome, Agent!ResultsOf, Agent!Selections, Agent!Tools
<1>8. CASE EvaluateCandidates
  <2>1. PICK r : /\ Calls("evaluate_candidates") /\ Returns("evaluate_candidates", r)
                 /\ r.kind = "evaluation" /\ r.skipped \in BOOLEAN /\ (Measures \/ r.skipped)
    <3>1. CASE ~Measures
      <4>. DEFINE r == [kind |-> "evaluation", skipped |-> TRUE, per_model |-> <<>>]
      <4>1. Calls("evaluate_candidates") /\ Returns("evaluate_candidates", r)
        BY <1>8, <3>1 DEF EvaluateCandidates
      <4>2. r.kind = "evaluation" /\ r.skipped = TRUE
        OBVIOUS
      <4>. HIDE DEF r
      <4>. QED
        BY <4>1, <4>2
    <3>2. CASE Measures
      <4>. DEFINE r(m) == [kind |-> "evaluation", skipped |-> FALSE, per_model |-> m]
      <4>1. PICK m : Calls("evaluate_candidates") /\ Returns("evaluate_candidates", r(m))
        BY <1>8, <3>2 DEF EvaluateCandidates
      <4>2. r(m).kind = "evaluation" /\ r(m).skipped \in BOOLEAN
        OBVIOUS
      <4>. HIDE DEF r
      <4>. QED
        BY <3>2, <4>1, <4>2
    <3>. QED
      BY <3>1, <3>2
  <2>2. Measures => KindOf(profile) = "labelled"
    BY Seen DEF Measures
  <2>3. Outcome(r) \in Agent!ResultsOf("evaluate_candidates")
    BY <2>1, <2>2 DEF Outcome, Agent!ResultsOf, Agent!Evaluations, Agent!HasLabels
  <2>. QED
    BY <2>1, <2>3, ReturnsSucceeds DEF Agent!Tools
<1>9. CASE ResearchModels
  <2>1. PICK found \in BOOLEAN : /\ Calls("research_models")
                                 /\ Returns("research_models", [kind |-> "research", found |-> found])
    BY <1>9 DEF ResearchModels
  <2>. QED
    BY <2>1, ReturnsSucceeds DEF Outcome, Agent!ResultsOf, Agent!Searches, Agent!Tools
<1>10. CASE ModelRecommendation
  <2>1. PICK r : /\ Calls("model_recommendation") /\ Returns("model_recommendation", r)
                 /\ r.kind = "recommendation" /\ r.research_note = Agent!ResearchNote
    BY <1>10 DEF ModelRecommendation
  <2>2. Outcome(r) \in Agent!ResultsOf("model_recommendation")
    BY <2>1 DEF Outcome, Agent!ResultsOf
  <2>. QED
    BY <2>1, <2>2, ReturnsSucceeds DEF Agent!Tools
<1>. QED
  BY <1>1, <1>2, <1>3, <1>4, <1>5, <1>6, <1>7, <1>8, <1>9, <1>10

\* Every step of the tools in a turn is one of AgentTurn, or changes nothing that it sees.
LEMMA StepImplements ==
  ASSUME TypeOK, [Next]_vars
  PROVE  [Agent!Next]_(Agent!vars)
<1>1. CASE \/ ProfileDataset \/ SentimentAnalysis \/ TextClassification \/ SummarizeText
           \/ GenerateEmbeddings \/ SemanticSearch \/ FilterDocuments
           \/ EvaluateCandidates \/ ResearchModels \/ ModelRecommendation
  BY <1>1, ToolsSucceed DEF Agent!Next
<1>. DEFINE DataUnchanged ==
       /\ CorpusKind' = CorpusKind /\ KindOf(profile)' = KindOf(profile)
       /\ [t \in DOMAIN results |-> Outcome(results[t])]' = [t \in DOMAIN results |-> Outcome(results[t])]
<1>0. UNCHANGED <<file, lost, profile, results>> => DataUnchanged
  BY DEF CorpusKind
<1>2. CASE ToolRaisesValueError
  <2>1. PICK tool \in Agent!Tools : /\ Runs(tool) /\ error' = Agent!Replan(tool)
                                    /\ Refuses(tool) \/ Infers(tool) \/ tool \in Agent!Unvalidated
    BY <1>2 DEF ToolRaisesValueError
  <2>2. Agent!CanRaiseValueError(tool)
    <3>1. tool \in Agent!Unvalidated => ~Agent!CorpusMissing(tool)
      BY DEF Agent!Unvalidated, Agent!CorpusMissing, Agent!ReadsCorpus
    <3>. QED
      BY <2>1, <3>1, RefusesFacts DEF Agent!CanRaiseValueError
  <2>. HIDE DEF DataUnchanged
  <2>3. DataUnchanged
    BY <1>0, <1>2 DEF ToolRaisesValueError
  <2>. QED
    BY <1>2, <2>1, <2>2, <2>3 DEF DataUnchanged, ToolRaisesValueError, Runs, Agent!ToolRaisesValueError, Agent!Next
<1>3. CASE ToolFails
  <2>1. PICK tool \in Agent!Tools : /\ Runs(tool)
                                    /\ \/ Agent!CorpusMissing(tool) /\ ~Refuses(tool)
                                       \/ Infers(tool) \/ tool = "research_models"
    BY <1>3 DEF ToolFails
  <2>2. Agent!CanFail(tool)
    <3>1. Infers(tool) => ~lost /\ ~Refuses(tool)
      BY DEF Infers
    <3>2. tool = "research_models" => ~Agent!Unplannable(tool)
      BY DEF Agent!Unplannable
    <3>. QED
      BY <2>1, <3>1, <3>2, RefusesFacts DEF Agent!CanFail
  <2>. HIDE DEF DataUnchanged
  <2>3. DataUnchanged
    BY <1>0, <1>3 DEF ToolFails
  <2>. QED
    BY <1>3, <2>1, <2>2, <2>3 DEF DataUnchanged, ToolFails, Runs, Agent!ToolFails, Agent!Next
<1>4. CASE Control
  BY <1>4 DEF Control, Agent!Next
<1>5. CASE UNCHANGED vars
  BY <1>0, <1>5 DEF vars, Agent!vars
<1>. QED
  BY <1>1, <1>2, <1>3, <1>4, <1>5, StepCases
-----------------------------------------------------------------------------
(* Type correctness                                                        *)

\* Documents of d.
From(d, w) == w \in Seq(Entries(d))

\* A selection has some of the corpus's ids.
LEMMA FromFacts ==
  ASSUME NEW d, NEW w, From(d, w)
  PROVE  /\ Ids(w) \subseteq Ids(d)
         /\ w # <<>> => Ids(w) # {}
         /\ \A k \in DOMAIN w : \E i \in DOMAIN d : w[k] = d[i]
<1>1. w \in Seq(Entries(d))
  BY DEF From
<1>2. \A k \in DOMAIN w : w[k] \in Entries(d)
  BY <1>1
<1>3. \A k \in DOMAIN w : \E i \in DOMAIN d : w[k] = d[i]
  BY <1>2 DEF Entries
<1>4. Ids(w) \subseteq Ids(d)
  BY <1>3 DEF Ids
<1>5. w # <<>> => Ids(w) # {}
  <2>. SUFFICES ASSUME w # <<>> PROVE 1 \in DOMAIN w
    BY DEF Ids
  <2>. HIDE DEF Entries
  <2>. QED
    BY <1>1
<1>. QED
  BY <1>3, <1>4, <1>5

\* A selection of a selection is one.
LEMMA FromPicked ==
  ASSUME NEW d, NEW w, From(d, w), NEW I \in SUBSET DOMAIN w
  PROVE  /\ From(d, Picked(w, I)) /\ Ids(Picked(w, I)) = {w[i].id : i \in I}
         /\ Len(Picked(w, I)) = Cardinality(I) /\ Cardinality(I) \in Nat
         /\ Distinct(w) => Distinct(Picked(w, I))
<1>1. w \in Seq(Entries(d))
  BY DEF From
<1>. QED
  BY <1>1, PickedDocuments DEF From

\* What the tools select of a corpus.
LEMMA SelectionFacts ==
  ASSUME file \in Accepted
  PROVE  /\ IsCorpus(documents)
         /\ From(documents, documents) /\ From(documents, Selection)
         /\ From(documents, Judged)
         /\ \A w : From(documents, w) => From(documents, WithText(w))
         /\ ~RepeatsIds(file) => /\ Distinct(documents) /\ Distinct(Selection) /\ Distinct(Judged)
                                /\ Distinct(WithText(documents))
         /\ ~KeyReplaced(file) => OneColumn(documents)
<1>1. /\ IsCorpus(documents)
      /\ ~RepeatsIds(file) => Distinct(documents)
      /\ ~KeyReplaced(file) => OneColumn(documents)
  BY AcceptedCorpus DEF corpus, documents
<1>2. From(documents, documents)
  BY <1>1 DEF IsCorpus, From
<1>3. From(documents, Selection) /\ (Distinct(documents) => Distinct(Selection))
  <2>1. CASE ~Ran("filter_documents")
    BY <1>2, <2>1 DEF Selection
  <2>2. CASE Ran("filter_documents")
    <3>. DEFINE I == {i \in DOMAIN documents : documents[i].id \in results["filter_documents"].ids}
    <3>1. Selection = Picked(documents, I) /\ I \in SUBSET DOMAIN documents
      BY <2>2 DEF Selection
    <3>. HIDE DEF I
    <3>. QED
      BY <1>2, <3>1, FromPicked
  <2>. QED
    BY <2>1, <2>2
<1>4. From(documents, Judged) /\ (Distinct(Selection) => Distinct(Judged))
  <2>. DEFINE I == {i \in DOMAIN Selection : JudgedText(Selection[i], profile.text_column) >= MinTextChars}
  <2>1. Judged = Picked(Selection, I) /\ I \in SUBSET DOMAIN Selection
    BY DEF Judged, Usable
  <2>. HIDE DEF I
  <2>. QED
    BY <1>3, <2>1, FromPicked
<1>5. ASSUME NEW w, From(documents, w)
      PROVE  From(documents, WithText(w)) /\ (Distinct(w) => Distinct(WithText(w)))
  <2>. DEFINE I == {i \in DOMAIN w : w[i].text > 0}
  <2>1. WithText(w) = Picked(w, I) /\ I \in SUBSET DOMAIN w
    BY DEF WithText
  <2>. HIDE DEF I
  <2>. QED
    BY <1>5, <2>1, FromPicked
<1>. QED
  BY <1>1, <1>2, <1>3, <1>4, <1>5

\* A candidate hits at most the whole sample.
LEMMA HitsBounded ==
  ASSUME NEW n \in Nat, NEW truth, DOMAIN truth = 1..n, NEW predicted
  PROVE  Hits(truth, predicted) \in 0..n
<1>1. {i \in DOMAIN truth : truth[i] = predicted[i]} \in SUBSET (1..n)
  OBVIOUS
<1>. QED
  BY <1>1, PositionsFinite DEF Hits

\* The sample is as long as it may be, at most.
LEMMA SampleLength ==
  ASSUME file \in Accepted, NEW column
  PROVE  \E n \in Nat : n <= SampleSize /\ DOMAIN Sample(documents, column) = 1..n
<1>. DEFINE texts == WithText(documents)
            I == {i \in DOMAIN texts : Value(texts[i], column) # Blank}
            labelled == Picked(texts, I)
            m == Shorter(Len(labelled), SampleSize)
<1>1. Sample(documents, column) = SubSeq(labelled, 1, m)
  BY DEF Sample, Labelled
<1>2. From(documents, texts) /\ I \in SUBSET DOMAIN texts
  BY SelectionFacts
<1>. HIDE DEF texts, I
<1>3. labelled \in Seq(Entries(documents))
  BY <1>2, FromPicked DEF From
<1>. HIDE DEF labelled
<1>4. m \in Nat /\ m <= SampleSize
  BY <1>3, ThresholdsAssumption DEF Shorter
<1>5. SubSeq(labelled, 1, m) = [i \in 1..m |-> labelled[i]]
  <2>. HIDE DEF m
  <2>. QED
    BY <1>3, <1>4
<1>6. DOMAIN Sample(documents, column) = 1..m
  BY <1>1, <1>5
<1>. QED
  BY <1>4, <1>6

\* Storing a well-formed result keeps the type invariant.
LEMMA StoredType ==
  ASSUME TypeOK, NEW tool \in Agent!Tools, NEW r, Stored(tool, r), WellFormed(tool, r),
         indexed' \in BOOLEAN, profile' = profile \/ profile' = Profiles[file]
  PROVE  TypeOK'
<1>1. UNCHANGED <<file, lost>> /\ results' = [results EXCEPT ![tool] = r]
  BY DEF Stored
<1>2. documents' = documents
  BY <1>1 DEF documents, corpus
<1>3. ASSUME NEW t \in Agent!Tools, Ran(t)'
      PROVE  WellFormed(t, results[t])'
  <2>1. WellFormed(t, results[t])' <=> WellFormed(t, results'[t])
    BY <1>2 DEF WellFormed
  <2>2. CASE t = tool
    <3>1. results'[t] = r
      BY <1>1, <2>2 DEF TypeOK
    <3>. QED
      BY <2>1, <2>2, <3>1
  <2>3. CASE t # tool
    <3>1. results'[t] = results[t]
      BY <1>1, <2>3 DEF TypeOK
    <3>2. Ran(t)
      BY <1>3, <3>1 DEF Ran
    <3>. QED
      BY <2>1, <3>1, <3>2 DEF TypeOK
  <2>. QED
    BY <2>2, <2>3
<1>4. DOMAIN results' = Agent!Tools
  BY <1>1 DEF TypeOK
<1>5. profile' = NoProfile \/ \E f \in Accepted : profile' = Profiles[f]
  BY DEF TypeOK
<1>. QED
  BY <1>1, <1>2, <1>3, <1>4, <1>5 DEF TypeOK

\* ... and so does returning it.
LEMMA ReturnsType ==
  ASSUME TypeOK, NEW tool \in Agent!Tools, NEW r, Returns(tool, r), WellFormed(tool, r)
  PROVE  TypeOK'
<1>1. Stored(tool, r) /\ profile' = profile /\ indexed' \in BOOLEAN
  BY DEF Returns, TypeOK
<1>. QED
  BY <1>1, StoredType

\* What sentiment_analysis returns: an item for each document judged, and how many are not.
IsJudgement(r) ==
  /\ r.kind = "sentiment" /\ r.skipped = Cardinality(Unjudged(Selection, profile.text_column))
  /\ \E labels \in [DOMAIN Judged -> {"positive", "negative"}] :
       r.per_document = [k \in DOMAIN Judged |-> [id |-> Judged[k].id, label |-> labels[k]]]

\* It is what the action returns ...
LEMMA JudgementFacts ==
  ASSUME SentimentAnalysis
  PROVE  \E r : Returns("sentiment_analysis", r) /\ IsJudgement(r)
<1>. DEFINE r(labels) ==
       [kind |-> "sentiment",
        per_document |-> [k \in DOMAIN Judged |-> [id |-> Judged[k].id, label |-> labels[k]]],
        skipped |-> Cardinality(Unjudged(Selection, profile.text_column))]
<1>1. PICK labels \in [DOMAIN Judged -> {"positive", "negative"}] : Returns("sentiment_analysis", r(labels))
  BY DEF SentimentAnalysis
<1>2. IsJudgement(r(labels))
  BY DEF IsJudgement
<1>. HIDE DEF r
<1>. QED
  BY <1>1, <1>2

\* ... and well-formed, an item per document and none twice when no two share an id.
LEMMA JudgementType ==
  ASSUME file \in Accepted, NEW r, IsJudgement(r)
  PROVE  /\ r.kind = "sentiment" /\ r.skipped \in Nat
         /\ r.per_document \in Seq([id : Ids(documents), label : {"positive", "negative"}])
         /\ Len(r.per_document) = Len(Judged) /\ Ids(r.per_document) = Ids(Judged)
         /\ ~RepeatsIds(file) => Distinct(r.per_document)
<1>. DEFINE S == Entries(documents)
<1>1. /\ Judged \in Seq(S) /\ Selection \in Seq(S)
      /\ ~RepeatsIds(file) => Distinct(Judged) /\ Ids(Judged) \subseteq Ids(documents)
  BY SelectionFacts, FromFacts DEF From
<1>2. Ids(Judged) \subseteq Ids(documents)
  BY SelectionFacts, FromFacts
<1>. HIDE DEF S
<1>3. DOMAIN Judged = 1..Len(Judged) /\ Len(Judged) \in Nat /\ IsFiniteSet(DOMAIN Selection)
  BY <1>1, EntriesFacts
<1>4. r.skipped \in Nat
  <2>1. Unjudged(Selection, profile.text_column) \in SUBSET DOMAIN Selection
    BY DEF Unjudged
  <2>2. Cardinality(Unjudged(Selection, profile.text_column)) \in Nat
    BY <1>3, <2>1, FS_Subset, FS_CardinalityType
  <2>. QED
    BY <2>2 DEF IsJudgement
<1>5. PICK labels \in [DOMAIN Judged -> {"positive", "negative"}] :
        r.per_document = [k \in DOMAIN Judged |-> [id |-> Judged[k].id, label |-> labels[k]]]
  BY DEF IsJudgement
<1>. DEFINE p == r.per_document
            n == Len(Judged)
<1>6. /\ p = [k \in 1..n |-> p[k]] /\ n \in Nat
      /\ \A k \in 1..n : p[k] \in [id : Ids(documents), label : {"positive", "negative"}]
      /\ \A k \in 1..n : p[k].id = Judged[k].id
  <2>1. \A k \in 1..n : Judged[k].id \in Ids(documents)
    BY <1>2, <1>3 DEF Ids
  <2>. QED
    BY <1>3, <1>5, <2>1
<1>. HIDE DEF p, n
<1>7. p \in Seq([id : Ids(documents), label : {"positive", "negative"}]) /\ Len(p) = n /\ DOMAIN p = 1..n
  <2>. DEFINE T == [id : Ids(documents), label : {"positive", "negative"}]
  <2>1. \A k \in 1..n : p[k] \in T
    BY <1>6
  <2>. HIDE DEF T
  <2>2. p \in Seq(T) /\ Len(p) = n /\ DOMAIN p = 1..n
    BY <1>6, <2>1
  <2>. QED
    BY <2>2 DEF T
<1>8. Ids(p) = Ids(Judged) /\ (Distinct(Judged) => Distinct(p))
  BY <1>3, <1>6, <1>7 DEF Ids, Distinct, n
<1>. QED
  BY <1>1, <1>4, <1>7, <1>8 DEF p, n, IsJudgement

\* What semantic_search returns: as many documents with text as it counts, when no two
\* share an id.
IsSearch(r) ==
  /\ r.kind = "search" /\ r.ids \subseteq Ids(WithText(documents)) /\ r.count \in Nat
  /\ ~RepeatsIds(file) => r.count = Cardinality(r.ids)

\* It is what the action returns.
LEMMA SearchFacts ==
  ASSUME file \in Accepted, SemanticSearch
  PROVE  \E r : Returns("semantic_search", r) /\ IsSearch(r)
<1>. DEFINE texts == WithText(documents)
            r(hits) == [kind |-> "search", ids |-> {IndexIds[k] : k \in hits}, count |-> Cardinality(hits)]
<1>1. PICK hits \in SUBSET DOMAIN IndexIds : Returns("semantic_search", r(hits))
  BY DEF SemanticSearch
<1>2. /\ r(hits).kind = "search" /\ r(hits).count = Cardinality(hits)
      /\ r(hits).ids = {IndexIds[k] : k \in hits}
  OBVIOUS
<1>. HIDE DEF r
<1>3. hits \in SUBSET DOMAIN texts /\ {IndexIds[k] : k \in hits} = {texts[k].id : k \in hits}
  BY <1>1 DEF IndexIds
<1>4. From(documents, texts) /\ (~RepeatsIds(file) => Distinct(texts))
  BY SelectionFacts
<1>. HIDE DEF texts
<1>5. {texts[k].id : k \in hits} \subseteq Ids(texts)
  BY <1>3 DEF Ids
<1>6. /\ From(documents, Picked(texts, hits)) /\ Ids(Picked(texts, hits)) = {texts[k].id : k \in hits}
      /\ Len(Picked(texts, hits)) = Cardinality(hits) /\ Cardinality(hits) \in Nat
      /\ Distinct(texts) => Distinct(Picked(texts, hits))
  BY <1>3, <1>4, FromPicked
<1>7. Distinct(texts) => Cardinality({texts[k].id : k \in hits}) = Cardinality(hits)
  BY <1>6, IdsCount DEF From
<1>8. IsSearch(r(hits))
  BY <1>2, <1>3, <1>4, <1>5, <1>6, <1>7 DEF texts, IsSearch
<1>. QED
  BY <1>1, <1>8

\* What filter_documents returns: what was judged negative, or else what was found.
KeepsOf(r) ==
  \/ /\ Ran("sentiment_analysis") /\ r.ids = Ids(Negative(results["sentiment_analysis"]))
     /\ r.count = Len(Negative(results["sentiment_analysis"]))
  \/ /\ ~Ran("sentiment_analysis") /\ Ran("semantic_search")
     /\ r.ids = results["semantic_search"].ids /\ r.count = results["semantic_search"].count

\* It is what the action returns ...
LEMMA FilterFacts ==
  ASSUME FilterDocuments
  PROVE  \E r : Returns("filter_documents", r) /\ r.kind = "filter" /\ KeepsOf(r)
<1>. DEFINE r(ids, count) == [kind |-> "filter", ids |-> ids, count |-> count]
<1>1. \A i, n : r(i, n).kind = "filter" /\ r(i, n).ids = i /\ r(i, n).count = n
  OBVIOUS
<1>2. Ran("sentiment_analysis") \/ Ran("semantic_search")
  BY DEF FilterDocuments, Calls, Refuses
<1>3. CASE Ran("sentiment_analysis")
  <2>. DEFINE kept == Negative(results["sentiment_analysis"])
  <2>1. Returns("filter_documents", r(Ids(kept), Len(kept)))
    BY <1>3 DEF FilterDocuments
  <2>. HIDE DEF r
  <2>. QED
    BY <1>1, <1>3, <2>1 DEF KeepsOf
<1>4. CASE ~Ran("sentiment_analysis")
  <2>. DEFINE found == results["semantic_search"]
  <2>1. Returns("filter_documents", r(found.ids, found.count))
    BY <1>4 DEF FilterDocuments
  <2>. HIDE DEF r
  <2>. QED
    BY <1>1, <1>2, <1>4, <2>1 DEF KeepsOf
<1>. QED
  BY <1>3, <1>4

\* ... and those judged negative are some of those judged.
LEMMA NegativeFacts ==
  ASSUME TypeOK, Ran("sentiment_analysis")
  PROVE  LET judged == results["sentiment_analysis"]
         IN  /\ Ids(Negative(judged)) \subseteq Ids(judged.per_document)
             /\ Ids(judged.per_document) \subseteq Ids(documents)
             /\ Ids(Negative(judged)) \subseteq Ids(documents)
             /\ Len(Negative(judged)) \in Nat
             /\ Distinct(judged.per_document) => Cardinality(Ids(Negative(judged))) = Len(Negative(judged))
<1>. DEFINE p == results["sentiment_analysis"].per_document
            I == {k \in DOMAIN p : p[k].label = "negative"}
            S == [id : Ids(documents), label : {"positive", "negative"}]
            kept == Picked(p, I)
<1>1. p \in Seq(S)
  BY DEF TypeOK, WellFormed, Agent!Tools
<1>2. I \in SUBSET DOMAIN p /\ Negative(results["sentiment_analysis"]) = kept
  BY DEF Negative
<1>3. Ids(p) \subseteq Ids(documents)
  <2>. HIDE DEF p, S
  <2>1. \A k \in DOMAIN p : p[k] \in S
    BY <1>1
  <2>. QED
    BY <2>1 DEF Ids, S
<1>. HIDE DEF I, S, p, kept
<1>4. /\ kept \in Seq(S) /\ Len(kept) = Cardinality(I) /\ Cardinality(I) \in Nat
      /\ Ids(kept) = {p[i].id : i \in I} /\ (Distinct(p) => Distinct(kept))
  BY <1>1, <1>2, PickedDocuments DEF kept
<1>5. Ids(kept) \subseteq Ids(p)
  BY <1>2, <1>4 DEF Ids
<1>6. Distinct(kept) => Cardinality(Ids(kept)) = Len(kept)
  BY <1>4, IdsCount
<1>. QED
  BY <1>2, <1>3, <1>4, <1>5, <1>6 DEF p

\* What each tool returns is well-formed.
LEMMA ToolsType ==
  ASSUME TypeOK,
         \/ ProfileDataset \/ SentimentAnalysis \/ TextClassification \/ SummarizeText
         \/ GenerateEmbeddings \/ SemanticSearch \/ FilterDocuments
         \/ EvaluateCandidates \/ ResearchModels \/ ModelRecommendation
  PROVE  TypeOK'
<1>0. file \in Accepted
  BY DEF TypeOK
<1>1. CASE ProfileDataset
  <2>. DEFINE r == [kind |-> "profile"]
  <2>1. /\ Stored("profile_dataset", r) /\ profile' = Profiles[file]
        /\ indexed' \in BOOLEAN /\ r.kind = "profile"
    BY <1>1 DEF ProfileDataset, TypeOK
  <2>. HIDE DEF r
  <2>2. WellFormed("profile_dataset", r)
    BY <2>1 DEF WellFormed
  <2>. QED
    BY <2>1, <2>2, StoredType DEF Agent!Tools
<1>2. CASE SentimentAnalysis
  <2>1. PICK r : Returns("sentiment_analysis", r) /\ IsJudgement(r)
    BY <1>2, JudgementFacts
  <2>2. /\ r.kind = "sentiment" /\ r.skipped \in Nat
        /\ r.per_document \in Seq([id : Ids(documents), label : {"positive", "negative"}])
    BY <1>0, <2>1, JudgementType
  <2>3. WellFormed("sentiment_analysis", r)
    BY <2>2 DEF WellFormed
  <2>. QED
    BY <2>1, <2>3, ReturnsType DEF Agent!Tools
<1>3. CASE TextClassification
  <2>. DEFINE r == [kind |-> "classification", ids |-> Ids(WithText(Selection))]
  <2>1. Ids(WithText(Selection)) \subseteq Ids(documents)
    BY <1>0, SelectionFacts, FromFacts
  <2>2. Returns("text_classification", r) /\ r.kind = "classification" /\ r.ids \subseteq Ids(documents)
    BY <1>3, <2>1 DEF TextClassification
  <2>. HIDE DEF r
  <2>3. WellFormed("text_classification", r)
    BY <2>2 DEF WellFormed
  <2>. QED
    BY <2>2, <2>3, ReturnsType DEF Agent!Tools
<1>4. CASE SummarizeText
  <2>1. PICK r : /\ Returns("summarize_text", r)
                 /\ r.kind = "summary" /\ r.sources = Ids(WithText(Selection))
    BY <1>4 DEF SummarizeText
  <2>2. ~Refuses("summarize_text") /\ ~Agent!CorpusMissing("summarize_text")
    BY <1>4 DEF SummarizeText, Calls
  <2>3. ~lost
    BY <2>2, RefusesFacts DEF Agent!ReadsCorpus, Agent!Tools
  <2>4. WithText(Selection) # <<>>
    BY <2>2, <2>3 DEF Refuses, Misfit
  <2>5. r.sources \subseteq Ids(documents) /\ r.sources # {}
    BY <1>0, <2>1, <2>4, SelectionFacts, FromFacts
  <2>6. WellFormed("summarize_text", r)
    BY <2>1, <2>5 DEF WellFormed
  <2>. QED
    BY <2>1, <2>6, ReturnsType DEF Agent!Tools
<1>5. CASE GenerateEmbeddings
  <2>. DEFINE r == [kind |-> "embeddings", cached |-> indexed]
  <2>1. /\ Stored("generate_embeddings", r) /\ profile' = profile
        /\ indexed' \in BOOLEAN /\ r.kind = "embeddings"
    BY <1>5 DEF GenerateEmbeddings
  <2>. HIDE DEF r
  <2>2. WellFormed("generate_embeddings", r)
    BY <2>1 DEF WellFormed
  <2>. QED
    BY <2>1, <2>2, StoredType DEF Agent!Tools
<1>6. CASE SemanticSearch
  <2>1. PICK r : Returns("semantic_search", r) /\ IsSearch(r)
    BY <1>0, <1>6, SearchFacts
  <2>2. Ids(WithText(documents)) \subseteq Ids(documents)
    BY <1>0, SelectionFacts, FromFacts
  <2>3. WellFormed("semantic_search", r)
    BY <2>1, <2>2 DEF WellFormed, IsSearch
  <2>. QED
    BY <2>1, <2>3, ReturnsType DEF Agent!Tools
<1>7. CASE FilterDocuments
  <2>1. PICK r : Returns("filter_documents", r) /\ r.kind = "filter" /\ KeepsOf(r)
    BY <1>7, FilterFacts
  <2>2. Ran("sentiment_analysis") =>
          /\ Ids(Negative(results["sentiment_analysis"])) \subseteq Ids(documents)
          /\ Len(Negative(results["sentiment_analysis"])) \in Nat
    BY NegativeFacts
  <2>3. Ran("semantic_search") =>
          results["semantic_search"].ids \subseteq Ids(documents) /\ results["semantic_search"].count \in Nat
    BY DEF TypeOK, WellFormed, Agent!Tools
  <2>4. r.ids \subseteq Ids(documents) /\ r.count \in Nat
    BY <2>1, <2>2, <2>3 DEF KeepsOf
  <2>5. WellFormed("filter_documents", r)
    BY <2>1, <2>4 DEF WellFormed
  <2>. QED
    BY <2>1, <2>5, ReturnsType DEF Agent!Tools
<1>8. CASE EvaluateCandidates
  <2>1. PICK r : /\ Returns("evaluate_candidates", r) /\ r.kind = "evaluation" /\ r.skipped \in BOOLEAN
                 /\ \A k \in DOMAIN r.per_model :
                      r.per_model[k].hits \in 0..r.per_model[k].n_examples
    <3>1. CASE ~Measures
      <4>. DEFINE r == [kind |-> "evaluation", skipped |-> TRUE, per_model |-> <<>>]
      <4>1. Returns("evaluate_candidates", r)
        BY <1>8, <3>1 DEF EvaluateCandidates
      <4>2. r.kind = "evaluation" /\ r.skipped = TRUE /\ DOMAIN r.per_model = {}
        OBVIOUS
      <4>. HIDE DEF r
      <4>. QED
        BY <4>1, <4>2
    <3>2. CASE Measures
      <4>. DEFINE sample == Sample(documents, profile.label_column)
                  truth  == Truth(sample, profile.label_column)
                  r(m) == [kind |-> "evaluation", skipped |-> FALSE, per_model |-> m]
      <4>1. PICK first, second :
              Returns("evaluate_candidates", r(<<Metrics(truth, first), Metrics(truth, second)>>))
        BY <1>8, <3>2 DEF EvaluateCandidates
      <4>2. PICK n \in Nat : DOMAIN sample = 1..n
        BY <1>0, SampleLength
      <4>3. DOMAIN truth = 1..n /\ Len(truth) = n
        BY <4>2 DEF Truth
      <4>. HIDE DEF truth
      <4>4. \A p : Metrics(truth, p).hits \in 0..Metrics(truth, p).n_examples
        <5>. TAKE p
        <5>1. Metrics(truth, p).hits = Hits(truth, p) /\ Metrics(truth, p).n_examples = n
          BY <4>3 DEF Metrics
        <5>. QED
          BY <4>3, <5>1, HitsBounded
      <4>. DEFINE m == <<Metrics(truth, first), Metrics(truth, second)>>
      <4>5. \A k \in DOMAIN m : m[k].hits \in 0..m[k].n_examples
        BY <4>4
      <4>. HIDE DEF m
      <4>6. r(m).kind = "evaluation" /\ r(m).skipped \in BOOLEAN /\ r(m).per_model = m
        OBVIOUS
      <4>7. Returns("evaluate_candidates", r(m))
        BY <4>1 DEF m
      <4>. HIDE DEF r
      <4>. QED
        BY <4>5, <4>6, <4>7
    <3>. QED
      BY <3>1, <3>2
  <2>2. WellFormed("evaluate_candidates", r)
    BY <2>1 DEF WellFormed
  <2>. QED
    BY <2>1, <2>2, ReturnsType DEF Agent!Tools
<1>9. CASE ResearchModels
  <2>. DEFINE r(found) == [kind |-> "research", found |-> found]
  <2>1. PICK found \in BOOLEAN : Returns("research_models", r(found))
    BY <1>9 DEF ResearchModels
  <2>2. r(found).kind = "research" /\ r(found).found \in BOOLEAN
    OBVIOUS
  <2>. HIDE DEF r
  <2>3. WellFormed("research_models", r(found))
    BY <2>2 DEF WellFormed
  <2>. QED
    BY <2>1, <2>3, ReturnsType DEF Agent!Tools
<1>10. CASE ModelRecommendation
  <2>1. PICK r : /\ Returns("model_recommendation", r) /\ r.kind = "recommendation"
                 /\ r.recommendation \in 0..Len(Shortlist) /\ r.research_note = Agent!ResearchNote
    BY <1>10 DEF ModelRecommendation
  <2>2. Agent!ResearchNote \in Agent!Results
    BY DEF Agent!ResearchNote, Agent!Results
  <2>3. WellFormed("model_recommendation", r)
    BY <2>1, <2>2 DEF WellFormed
  <2>. QED
    BY <2>1, <2>3, ReturnsType DEF Agent!Tools
<1>. QED
  BY <1>1, <1>2, <1>3, <1>4, <1>5, <1>6, <1>7, <1>8, <1>9, <1>10

\* Nothing has run when a turn begins.
LEMMA TypeInit == Init => TypeOK
<1>. SUFFICES ASSUME Init PROVE TypeOK
  OBVIOUS
<1>1. file \in Accepted /\ lost \in BOOLEAN /\ indexed \in BOOLEAN
  BY DEF Init, Agent!Init
<1>2. profile = NoProfile \/ \E f \in Accepted : profile = Profiles[f]
  BY <1>1, FilesAssumption DEF Init
<1>3. /\ documents # <<>> /\ Ids(documents) \subseteq Nat
      /\ ~RepeatsIds(file) => Cardinality(Ids(documents)) = Len(documents)
  <2>1. IsCorpus(documents) /\ (~RepeatsIds(file) => Distinct(documents))
    BY <1>1, SelectionFacts
  <2>. QED
    BY <2>1, IdsCount DEF IsCorpus, Ids
<1>4. DOMAIN results = Agent!Tools /\ \A tool \in Agent!Tools : ~Ran(tool)
  BY DEF Init, Ran
<1>. QED
  BY <1>1, <1>2, <1>3, <1>4 DEF TypeOK

\* Without a tool that returns, data and results stay as they are.
LEMMA DataStays ==
  ASSUME TypeOK, ToolRaisesValueError \/ ToolFails \/ Control \/ UNCHANGED vars
  PROVE  UNCHANGED <<file, lost, profile, results, indexed>>
<1>1. CASE Control
  BY <1>1 DEF Control, Agent!UnderstandIntent, Agent!FailToUnderstand, Agent!RefinePlan, Agent!RepairPlan,
              Agent!NothingLeft, Agent!Synthesize, Agent!HandleError, Agent!GiveUp, Agent!Returned, Agent!vars
<1>. QED
  BY <1>1 DEF ToolRaisesValueError, ToolFails, vars

\* Types, over one step.
LEMMA TypeStep ==
  ASSUME TypeOK, [Next]_vars
  PROVE  TypeOK'
<1>1. CASE \/ ProfileDataset \/ SentimentAnalysis \/ TextClassification \/ SummarizeText
           \/ GenerateEmbeddings \/ SemanticSearch \/ FilterDocuments
           \/ EvaluateCandidates \/ ResearchModels \/ ModelRecommendation
  BY <1>1, ToolsType
<1>2. CASE ToolRaisesValueError \/ ToolFails \/ Control \/ UNCHANGED vars
  <2>1. UNCHANGED <<file, lost, profile, results, indexed>>
    BY <1>2, DataStays
  <2>2. documents' = documents
    BY <2>1 DEF documents, corpus
  <2>3. ASSUME NEW t \in Agent!Tools, Ran(t)' PROVE WellFormed(t, results[t])'
    <3>1. results' = results /\ WellFormed(t, results[t])
      BY <2>1, <2>3 DEF TypeOK, Ran
    <3>. QED
      BY <2>2, <3>1 DEF WellFormed
  <2>4. RepeatsIds(file)' <=> RepeatsIds(file)
    BY <2>1
  <2>. QED
    BY <2>1, <2>2, <2>3, <2>4 DEF TypeOK
<1>. QED
  BY <1>1, <1>2, StepCases

-----------------------------------------------------------------------------
(* The plan, and what was analysed                                         *)

\* Plan repair leaves a plan, without the tool and without anything new.
LEMMA WithoutFacts ==
  ASSUME NEW p \in Seq(Agent!Tools), NEW tool
  PROVE  /\ Agent!Without(p, tool) \in Seq(Agent!Tools)
         /\ Agent!PlannedTools(Agent!Without(p, tool)) \subseteq Agent!PlannedTools(p) \ {tool}
<1>. DEFINE I == {i \in DOMAIN p : p[i] # tool}
            w == Picked(p, I)
<1>1. Agent!Without(p, tool) = w
  <2>0. \A J : Agent!Cardinality(J) = Cardinality(J)
    BY Zenon DEF Agent!Cardinality, Cardinality
  <2>1. \A J, k : Agent!Nth(J, k) = Nth(J, k)
    BY <2>0, Zenon DEF Agent!Nth, Agent!Rank, Nth, Rank
  <2>. HIDE DEF I
  <2>2. Agent!Picked(p, I) = Picked(p, I)
    BY <2>0, <2>1 DEF Agent!Picked, Picked
  <2>. QED
    BY <2>2 DEF Agent!Without, Agent!Kept, I
<1>2. w \in Seq(Agent!Tools) /\ \A k \in DOMAIN w : \E i \in I : w[k] = p[i]
  <2>1. I \in SUBSET DOMAIN p
    OBVIOUS
  <2>. HIDE DEF I
  <2>. QED
    BY <2>1, PickedFacts, PickedRange
<1>. HIDE DEF w
<1>3. Agent!PlannedTools(w) \subseteq Agent!PlannedTools(p) \ {tool}
  BY <1>2 DEF Agent!PlannedTools
<1>. QED
  BY <1>1, <1>2, <1>3

\* The tool that returned, and its result.
LEMMA ReturnedTool ==
  ASSUME \/ ProfileDataset \/ SentimentAnalysis \/ TextClassification \/ SummarizeText
         \/ GenerateEmbeddings \/ SemanticSearch \/ FilterDocuments
         \/ EvaluateCandidates \/ ResearchModels \/ ModelRecommendation
  PROVE  \E tool \in Agent!Tools : \E r :
           /\ Calls(tool) /\ Stored(tool, r)
           /\ profile' = IF tool = "profile_dataset" THEN Profiles[file] ELSE profile
<1>1. CASE ProfileDataset
  BY <1>1 DEF ProfileDataset, Agent!Tools
<1>2. CASE SentimentAnalysis
  BY <1>2 DEF SentimentAnalysis, Returns, Agent!Tools
<1>3. CASE TextClassification
  BY <1>3 DEF TextClassification, Returns, Agent!Tools
<1>4. CASE SummarizeText
  BY <1>4 DEF SummarizeText, Returns, Agent!Tools
<1>5. CASE GenerateEmbeddings
  BY <1>5 DEF GenerateEmbeddings, Agent!Tools
<1>6. CASE SemanticSearch
  BY <1>6 DEF SemanticSearch, Returns, Agent!Tools
<1>7. CASE FilterDocuments
  BY <1>7 DEF FilterDocuments, Returns, Agent!Tools
<1>8. CASE EvaluateCandidates
  BY <1>8 DEF EvaluateCandidates, Returns, Agent!Tools
<1>9. CASE ResearchModels
  BY <1>9 DEF ResearchModels, Returns, Agent!Tools
<1>10. CASE ModelRecommendation
  BY <1>10 DEF ModelRecommendation, Returns, Agent!Tools
<1>. QED
  BY <1>1, <1>2, <1>3, <1>4, <1>5, <1>6, <1>7, <1>8, <1>9, <1>10

\* The next tool is one of the plan.
LEMMA NextIsPlanned ==
  ASSUME PlanInv, NEW tool, Runs(tool)
  PROVE  tool \in Agent!PlannedTools(plan) /\ node = "execute_tool"
<1>1. /\ plan[step_index + 1] = tool /\ step_index < Len(plan) /\ node = "execute_tool"
      /\ plan \in Seq(Agent!Tools) /\ step_index \in Nat
  BY DEF Runs, PlanInv, Agent!NextTool, Agent!Superstep
<1>2. step_index + 1 \in DOMAIN plan
  BY <1>1
<1>. QED
  BY <1>1, <1>2 DEF Agent!PlannedTools

\* There is no plan when a turn begins.
LEMMA PlanInit == Init => PlanInv
<1>1. <<>> \in Seq(Agent!Tools)
  OBVIOUS
<1>. QED
  BY <1>1 DEF Init, PlanInv, Agent!Init

\* The plan, over one step.
LEMMA PlanStep ==
  ASSUME TypeOK, PlanInv, [Next]_vars
  PROVE  PlanInv'
<1>0. /\ plan \in Seq(Agent!Tools) /\ step_index \in Nat
      /\ node = "understand_intent" => error = Agent!NoError
      /\ (node = "execute_tool" \/ (node = "plan_steps" /\ error.kind = "REPLAN")) /\ ~OwnProfile =>
           "profile_dataset" \notin Agent!PlannedTools(plan)
  BY DEF PlanInv
<1>r. \A e, i, p : Agent!RouteNext(e, i, p) \in {"plan_steps", "handle_error", "synthesize", "execute_tool"}
  BY DEF Agent!RouteNext
<1>1. CASE \/ ProfileDataset \/ SentimentAnalysis \/ TextClassification \/ SummarizeText
           \/ GenerateEmbeddings \/ SemanticSearch \/ FilterDocuments
           \/ EvaluateCandidates \/ ResearchModels \/ ModelRecommendation
  <2>0. PICK tool \in Agent!Tools :
          \E r : /\ Calls(tool) /\ Stored(tool, r)
                 /\ profile' = IF tool = "profile_dataset" THEN Profiles[file] ELSE profile
    BY <1>1, ReturnedTool
  <2>1. PICK r : /\ Calls(tool) /\ Stored(tool, r)
                 /\ profile' = IF tool = "profile_dataset" THEN Profiles[file] ELSE profile
    BY <2>0
  <2>2. node = "execute_tool"
    BY <2>1, NextIsPlanned DEF Calls
  <2>3. /\ plan' = plan /\ step_index' = step_index + 1 /\ file' = file
        /\ node' # "understand_intent"
    BY <1>r, <2>1 DEF Stored
  <2>4. OwnProfile' \/ ~OwnProfile
    BY <2>1, <2>3 DEF OwnProfile
  <2>. QED
    BY <1>0, <2>2, <2>3, <2>4 DEF PlanInv
<1>2. CASE ToolRaisesValueError \/ ToolFails
  <2>1. PICK tool : Runs(tool)
    BY <1>2 DEF ToolRaisesValueError, ToolFails
  <2>2. node = "execute_tool"
    BY <2>1, NextIsPlanned
  <2>3. /\ UNCHANGED <<plan, step_index, file, profile>> /\ node' # "understand_intent"
    BY <1>2, <1>r DEF ToolRaisesValueError, ToolFails
  <2>4. OwnProfile' <=> OwnProfile
    BY <2>3 DEF OwnProfile
  <2>. QED
    BY <1>0, <2>2, <2>3, <2>4 DEF PlanInv
<1>3. CASE Control
  <2>1. UNCHANGED <<file, profile>> /\ (OwnProfile' <=> OwnProfile)
    BY <1>3 DEF Control, OwnProfile
  <2>2. CASE Agent!UnderstandIntent
    <3>1. /\ plan' \in Plans /\ node = "understand_intent" /\ node' = "plan_steps"
          /\ UNCHANGED <<step_index, error>>
      BY <2>2 DEF Agent!UnderstandIntent, Agent!Superstep
    <3>2. plan' \in Seq(Agent!Tools) /\ error'.kind # "REPLAN"
      BY <1>0, <3>1, PlansAssumption DEF Agent!NoError
    <3>. QED
      BY <1>0, <3>1, <3>2 DEF PlanInv
  <2>3. CASE Agent!RefinePlan
    <3>1. /\ plan' = IF KindOf(profile) # "none" THEN Agent!Without(plan, "profile_dataset") ELSE plan
          /\ step_index' = 0 /\ node' = "execute_tool"
      BY <2>3 DEF Agent!RefinePlan
    <3>2. ~OwnProfile => KindOf(profile) # "none"
      <4>1. \A f \in Accepted : Profiles[f].known
        BY DEF Profiles, Profile
      <4>. QED
        BY <4>1 DEF TypeOK, OwnProfile, KindOf
    <3>3. plan' \in Seq(Agent!Tools)
      BY <1>0, <3>1, WithoutFacts
    <3>4. ~OwnProfile => "profile_dataset" \notin Agent!PlannedTools(plan')
      BY <1>0, <3>1, <3>2, WithoutFacts
    <3>. QED
      BY <2>1, <3>1, <3>3, <3>4 DEF PlanInv, Agent!PlannedTools
  <2>4. CASE Agent!RepairPlan
    <3>1. /\ plan' = Agent!Without(plan, error.tool) /\ UNCHANGED step_index
          /\ node' = "execute_tool" /\ node = "plan_steps" /\ error.kind = "REPLAN"
      BY <2>4 DEF Agent!RepairPlan, Agent!Superstep
    <3>2. plan' \in Seq(Agent!Tools) /\ Agent!PlannedTools(plan') \subseteq Agent!PlannedTools(plan)
      BY <1>0, <3>1, WithoutFacts
    <3>. QED
      BY <1>0, <2>1, <3>1, <3>2 DEF PlanInv, Agent!PlannedTools
  <2>5. CASE Agent!NothingLeft
    <3>1. UNCHANGED <<plan, step_index, error>> /\ node = "execute_tool" /\ node' # "understand_intent"
      BY <1>r, <2>5 DEF Agent!NothingLeft, Agent!Superstep
    <3>. QED
      BY <1>0, <2>1, <3>1 DEF PlanInv
  <2>6. CASE Agent!FailToUnderstand
    BY <1>0, <2>1, <2>6 DEF Agent!FailToUnderstand, PlanInv
  <2>7. CASE Agent!Synthesize \/ Agent!HandleError \/ Agent!GiveUp
    BY <1>0, <2>1, <2>7 DEF Agent!Synthesize, Agent!HandleError, Agent!GiveUp, PlanInv
  <2>8. CASE Agent!Returned
    BY <1>0, <2>1, <2>8 DEF Agent!Returned, Agent!vars, PlanInv
  <2>. QED
    BY <1>3, <2>2, <2>3, <2>4, <2>5, <2>6, <2>7, <2>8 DEF Control
<1>4. CASE UNCHANGED vars
  BY <1>0, <1>4 DEF vars, PlanInv, OwnProfile
<1>. QED
  BY <1>1, <1>2, <1>3, <1>4, StepCases

\* Whatever is looked up, a text's length is a number.
LEMMA JudgedNumbers ==
  ASSUME TypeOK, NEW i \in DOMAIN Selection, NEW column
  PROVE  JudgedText(Selection[i], column) \in Nat
<1>1. PICK j \in DOMAIN documents : Selection[i] = documents[j]
  BY SelectionFacts, FromFacts DEF TypeOK
<1>2. documents[j].text \in Nat /\ CellsOf(documents[j])
  BY SelectionFacts DEF TypeOK, IsCorpus
<1>3. Value(documents[j], column).chars \in Nat
  BY <1>2 DEF Value, CellsOf, Blank, Cell
<1>. QED
  BY <1>1, <1>2, <1>3 DEF JudgedText

\* Under the corpus's own profile, and without a column of that name, the text that is
\* judged is the document's own.
LEMMA JudgedOwnText ==
  ASSUME TypeOK, OwnTexts, NEW i \in DOMAIN Selection
  PROVE  JudgedText(Selection[i], profile.text_column) = Selection[i].text
<1>1. file \in Accepted
  BY DEF TypeOK
<1>2. OneColumn(documents) /\ documents \in Seq(Entries(documents)) /\ documents # <<>>
  BY <1>1, SelectionFacts DEF IsCorpus, OwnTexts
<1>3. 1 \in DOMAIN documents
  BY <1>2
<1>4. PICK j \in DOMAIN documents : Selection[i] = documents[j]
  BY <1>1, SelectionFacts, FromFacts
<1>5. Selection[i].text_column = documents[1].text_column
  BY <1>2, <1>3, <1>4 DEF OneColumn
<1>6. profile.text_column \in {NoColumn, Selection[i].text_column}
  <2>1. CASE profile = NoProfile
    BY <2>1 DEF NoProfile
  <2>2. CASE profile = Profiles[file]
    <3>1. Profiles[file].text_column = documents[1].text_column
      BY <1>1 DEF Profiles, Profile, corpus, documents
    <3>. QED
      BY <1>5, <2>2, <3>1
  <2>. QED
    BY <2>1, <2>2 DEF OwnTexts, OwnProfile
<1>. QED
  BY <1>6 DEF JudgedText

\* What is judged, and of what a summary is made, in positions of the selection.
LEMMA AnalysedIds ==
  ASSUME TypeOK
  PROVE  /\ Ids(Judged) = {Selection[i].id : i \in {k \in DOMAIN Selection :
                             JudgedText(Selection[k], profile.text_column) >= MinTextChars}}
         /\ Ids(WithText(Selection)) = {Selection[i].id : i \in {k \in DOMAIN Selection : Selection[k].text > 0}}
         /\ Ids(WithText(documents)) = {documents[i].id : i \in {k \in DOMAIN documents : documents[k].text > 0}}
<1>1. From(documents, Selection) /\ From(documents, documents)
  BY SelectionFacts DEF TypeOK
<1>. DEFINE I == {k \in DOMAIN Selection : JudgedText(Selection[k], profile.text_column) >= MinTextChars}
            J == {k \in DOMAIN Selection : Selection[k].text > 0}
            K == {k \in DOMAIN documents : documents[k].text > 0}
<1>2. /\ Judged = Picked(Selection, I) /\ WithText(Selection) = Picked(Selection, J)
      /\ WithText(documents) = Picked(documents, K)
  BY DEF Judged, Usable, WithText
<1>3. I \in SUBSET DOMAIN Selection /\ J \in SUBSET DOMAIN Selection /\ K \in SUBSET DOMAIN documents
  OBVIOUS
<1>. HIDE DEF I, J, K
<1>4. /\ Ids(Judged) = {Selection[i].id : i \in I} /\ Ids(WithText(Selection)) = {Selection[i].id : i \in J}
      /\ Ids(WithText(documents)) = {documents[i].id : i \in K}
  BY <1>1, <1>2, <1>3, FromPicked
<1>. QED
  BY <1>4 DEF I, J, K

\* Every text of the selection is a text of the corpus.
LEMMA TextsOfCorpus ==
  ASSUME TypeOK
  PROVE  /\ Ids(WithText(Selection)) \subseteq Ids(WithText(documents))
         /\ OwnTexts => Ids(Judged) \subseteq Ids(WithText(documents))
<1>1. \A k \in DOMAIN Selection : \E i \in DOMAIN documents :
        Selection[k] = documents[i] /\ documents[i].text \in Nat
  <2>1. From(documents, Selection) /\ IsCorpus(documents)
    BY SelectionFacts DEF TypeOK
  <2>. QED
    BY <2>1, FromFacts DEF IsCorpus
<1>2. Ids(WithText(Selection)) \subseteq Ids(WithText(documents))
  BY <1>1, AnalysedIds
<1>3. ASSUME OwnTexts PROVE Ids(Judged) \subseteq Ids(WithText(Selection))
  <2>1. ASSUME NEW i \in DOMAIN Selection, JudgedText(Selection[i], profile.text_column) >= MinTextChars
        PROVE  Selection[i].text > 0
    <3>1. Selection[i].text \in Nat /\ Selection[i].text >= MinTextChars
      BY <1>1, <1>3, <2>1, JudgedOwnText
    <3>. QED
      BY <3>1, ThresholdsAssumption
  <2>. QED
    BY <2>1, AnalysedIds
<1>. QED
  BY <1>2, <1>3

\* A sentiment analysis judges the documents that it does not skip.
LEMMA JudgedOrNot ==
  ASSUME TypeOK
  PROVE  Len(Judged) + Cardinality(Unjudged(Selection, profile.text_column)) = Len(Selection)
<1>. DEFINE D == DOMAIN Selection
            column == profile.text_column
            I == {i \in D : JudgedText(Selection[i], column) >= MinTextChars}
            J == {i \in D : JudgedText(Selection[i], column) < MinTextChars}
<1>1. From(documents, Selection)
  BY SelectionFacts DEF TypeOK
<1>2. Judged = Picked(Selection, I) /\ Unjudged(Selection, column) = J
  BY DEF Judged, Usable, Unjudged
<1>3. J = D \ I
  <2>1. \A i \in D : JudgedText(Selection[i], column) \in Nat
    BY JudgedNumbers
  <2>2. MinTextChars \in Nat
    BY ThresholdsAssumption
  <2>3. \A i \in D : JudgedText(Selection[i], column) < MinTextChars
                      <=> ~(JudgedText(Selection[i], column) >= MinTextChars)
    BY <2>1, <2>2
  <2>. QED
    BY <2>3
<1>4. I \in SUBSET D
  OBVIOUS
<1>. HIDE DEF I, J
<1>5. Len(Judged) = Cardinality(I) /\ Cardinality(I) \in Nat
  BY <1>1, <1>2, <1>4, FromPicked
<1>6. IsFiniteSet(D) /\ Cardinality(D) = Len(Selection) /\ Len(Selection) \in Nat
  <2>. DEFINE S == Entries(documents)
              w == Selection
  <2>1. w \in Seq(S)
    BY <1>1 DEF From
  <2>. HIDE DEF S, w
  <2>2. DOMAIN w = 1..Len(w) /\ Len(w) \in Nat
    BY <2>1
  <2>. DEFINE n == Len(w)
  <2>. HIDE DEF n
  <2>4. n \in Nat /\ DOMAIN w = 1..n
    BY <2>2 DEF n
  <2>5. IsFiniteSet(1..n) /\ Cardinality(1..n) = n
    BY <2>4, FS_Interval
  <2>3. IsFiniteSet(DOMAIN w) /\ Cardinality(DOMAIN w) = Len(w)
    BY <2>4, <2>5 DEF n
  <2>. QED
    BY <2>2, <2>3 DEF w
<1>. HIDE DEF D
<1>7. Cardinality(D \ I) = Cardinality(D) - Cardinality(D \cap I)
  BY <1>6, FS_Difference
<1>8. D \cap I = I
  BY <1>4
<1>9. Cardinality(J) = Len(Selection) - Cardinality(I)
  BY <1>3, <1>6, <1>7, <1>8
<1>. QED
  BY <1>2, <1>5, <1>6, <1>9

\* The documents selected by some ids: one for each, when no two share an id.
LEMMA FilteredSelection ==
  ASSUME TypeOK, ~RepeatsIds(file), NEW kept \in SUBSET Ids(documents)
  PROVE  LET w == Picked(documents, {i \in DOMAIN documents : documents[i].id \in kept})
         IN  Ids(w) = kept /\ Len(w) = Cardinality(kept)
<1>. DEFINE I == {i \in DOMAIN documents : documents[i].id \in kept}
            w == Picked(documents, I)
<1>1. From(documents, documents) /\ Distinct(documents)
  BY SelectionFacts DEF TypeOK
<1>2. I \in SUBSET DOMAIN documents /\ {documents[i].id : i \in I} = kept
  BY DEF Ids
<1>. HIDE DEF I
<1>3. From(documents, w) /\ Ids(w) = kept /\ Distinct(w)
  <2>1. /\ From(documents, Picked(documents, I))
        /\ Ids(Picked(documents, I)) = {documents[i].id : i \in I}
        /\ Distinct(documents) => Distinct(Picked(documents, I))
    BY <1>1, <1>2, FromPicked
  <2>. QED
    BY <1>1, <1>2, <2>1
<1>. HIDE DEF w
<1>4. Len(w) = Cardinality(kept)
  BY <1>3, IdsCount DEF From
<1>. QED
  BY <1>3, <1>4 DEF w, I

\* Of what a filter kept, the texts are summarised.
LEMMA SummarisedSelection ==
  ASSUME TypeOK, AnalysedInv, Ran("filter_documents")
  PROVE  /\ Ids(WithText(Selection)) \subseteq results["filter_documents"].ids
         /\ OwnTexts => results["filter_documents"].ids \subseteq Ids(WithText(Selection))
<1>. DEFINE kept == results["filter_documents"].ids
            I == {i \in DOMAIN documents : documents[i].id \in kept}
<1>1. Selection = Picked(documents, I) /\ I \in SUBSET DOMAIN documents
  BY DEF Selection
<1>2. documents \in Seq(Entries(documents)) /\ From(documents, documents)
  BY SelectionFacts DEF TypeOK, IsCorpus
<1>3. /\ \A k \in DOMAIN Selection : \E i \in I : Selection[k] = documents[i]
      /\ \A i \in I : \E k \in DOMAIN Selection : Selection[k] = documents[i]
  <2>. HIDE DEF I
  <2>. QED
    BY <1>1, <1>2, PickedRange
<1>4. /\ Ids(WithText(Selection)) = {Selection[i].id : i \in {k \in DOMAIN Selection : Selection[k].text > 0}}
      /\ Ids(WithText(documents)) = {documents[i].id : i \in {k \in DOMAIN documents : documents[k].text > 0}}
  BY AnalysedIds
<1>5. Ids(WithText(Selection)) \subseteq kept
  BY <1>3, <1>4
<1>6. ASSUME OwnTexts PROVE kept \subseteq Ids(WithText(Selection))
  <2>1. kept \subseteq Ids(WithText(documents))
    BY <1>6 DEF AnalysedInv
  <2>2. ASSUME NEW id \in kept PROVE id \in Ids(WithText(Selection))
    <3>1. PICK i \in DOMAIN documents : documents[i].id = id /\ documents[i].text > 0
      BY <1>4, <2>1, <2>2
    <3>2. PICK k \in DOMAIN Selection : Selection[k] = documents[i]
      BY <1>3, <2>2, <3>1
    <3>. QED
      BY <1>4, <3>1, <3>2
  <2>. QED
    BY <2>2
<1>. QED
  BY <1>5, <1>6

\* Nothing is analysed when a turn begins.
LEMMA AnalysedInit == Init => AnalysedInv
BY DEF Init, AnalysedInv, Ran, Agent!Tools

\* A tool whose results are not looked at, and that leaves the profile alone.
LEMMA AnalysedReturns ==
  ASSUME TypeOK, AnalysedInv, NEW tool \in Agent!Tools, NEW r, Stored(tool, r), profile' = profile,
         LET with_text == Ids(WithText(documents))
         IN  /\ tool = "semantic_search" =>
                  r.ids \subseteq with_text /\ (~RepeatsIds(file) => r.count = Cardinality(r.ids))
             /\ tool = "sentiment_analysis" =>
                  /\ ~RepeatsIds(file) => Distinct(r.per_document)
                  /\ OwnTexts => Ids(r.per_document) \subseteq with_text
             /\ tool = "filter_documents" /\ OwnTexts => r.ids \subseteq with_text
  PROVE  AnalysedInv'
<1>1. file' = file /\ results' = [results EXCEPT ![tool] = r] /\ DOMAIN results = Agent!Tools
  BY DEF Stored, TypeOK
<1>2. documents' = documents /\ (OwnTexts' <=> OwnTexts) /\ (RepeatsIds(file)' <=> RepeatsIds(file))
  BY <1>1 DEF documents, corpus, OwnTexts, OwnProfile
<1>3. \A t \in Agent!Tools : results'[t] = IF t = tool THEN r ELSE results[t]
  BY <1>1
<1>4. Ids(WithText(documents))' = Ids(WithText(documents))
  BY <1>2
<1>. DEFINE found == results["semantic_search"]
            judged == results["sentiment_analysis"]
            kept == results["filter_documents"]
<1>5. Ran("semantic_search")' =>
        /\ found'.ids \subseteq Ids(WithText(documents))
        /\ ~RepeatsIds(file) => found'.count = Cardinality(found'.ids)
  BY <1>3 DEF AnalysedInv, Ran, Agent!Tools
<1>6. Ran("sentiment_analysis")' =>
        /\ ~RepeatsIds(file) => Distinct(judged'.per_document)
        /\ OwnTexts => Ids(judged'.per_document) \subseteq Ids(WithText(documents))
  <2>1. CASE tool = "sentiment_analysis"
    BY <1>3, <2>1 DEF Agent!Tools
  <2>2. CASE tool # "sentiment_analysis"
    <3>1. judged' = judged /\ (Ran("sentiment_analysis")' <=> Ran("sentiment_analysis"))
      BY <1>3, <2>2 DEF Ran, Agent!Tools
    <3>. QED
      BY <3>1 DEF AnalysedInv, Distinct
  <2>. QED
    BY <2>1, <2>2
<1>7. Ran("filter_documents")' /\ OwnTexts => kept'.ids \subseteq Ids(WithText(documents))
  BY <1>3 DEF AnalysedInv, Ran, Agent!Tools
<1>. HIDE DEF found, judged, kept
<1>. QED
  BY <1>2, <1>4, <1>5, <1>6, <1>7 DEF AnalysedInv, Distinct, found, judged, kept

\* What was analysed, over one step.
LEMMA AnalysedStep ==
  ASSUME TypeOK, PlanInv, AnalysedInv, [Next]_vars
  PROVE  AnalysedInv'
<1>1. CASE ProfileDataset
  <2>1. Calls("profile_dataset") /\ Stored("profile_dataset", [kind |-> "profile"])
    BY <1>1 DEF ProfileDataset
  <2>2. OwnProfile
    BY <2>1, NextIsPlanned DEF PlanInv, Calls
  <2>3. /\ file' = file /\ DOMAIN results = Agent!Tools
        /\ results' = [results EXCEPT !["profile_dataset"] = [kind |-> "profile"]]
    BY <2>1 DEF Stored, TypeOK
  <2>4. documents' = documents /\ (RepeatsIds(file)' <=> RepeatsIds(file)) /\ (OwnTexts' => OwnTexts)
    BY <2>2, <2>3 DEF documents, corpus, OwnTexts
  <2>5. \A t \in {"semantic_search", "sentiment_analysis", "filter_documents"} : results'[t] = results[t]
    BY <2>3 DEF Agent!Tools
  <2>. QED
    BY <2>4, <2>5 DEF AnalysedInv, Ran
<1>2. CASE SentimentAnalysis
  <2>1. PICK r : Returns("sentiment_analysis", r) /\ IsJudgement(r)
    BY <1>2, JudgementFacts
  <2>2. Ids(r.per_document) = Ids(Judged) /\ (~RepeatsIds(file) => Distinct(r.per_document))
    BY <2>1, JudgementType DEF TypeOK
  <2>. QED
    BY <2>1, <2>2, TextsOfCorpus, AnalysedReturns DEF Returns, Agent!Tools
<1>3. CASE SemanticSearch
  <2>1. PICK r : Returns("semantic_search", r) /\ IsSearch(r)
    BY <1>3, SearchFacts DEF TypeOK
  <2>. QED
    BY <2>1, AnalysedReturns DEF Returns, IsSearch, Agent!Tools
<1>4. CASE FilterDocuments
  <2>1. PICK r : Returns("filter_documents", r) /\ KeepsOf(r)
    BY <1>4, FilterFacts
  <2>2. Ran("sentiment_analysis") =>
          Ids(Negative(results["sentiment_analysis"])) \subseteq Ids(results["sentiment_analysis"].per_document)
    BY NegativeFacts
  <2>3. OwnTexts => r.ids \subseteq Ids(WithText(documents))
    BY <2>1, <2>2 DEF AnalysedInv, KeepsOf
  <2>. QED
    BY <2>1, <2>3, AnalysedReturns DEF Returns, Agent!Tools
<1>5. CASE \/ TextClassification \/ SummarizeText \/ GenerateEmbeddings
           \/ EvaluateCandidates \/ ResearchModels \/ ModelRecommendation
  <2>1. PICK tool \in Agent!Tools \ {"semantic_search", "sentiment_analysis", "filter_documents"} :
          \E r : Stored(tool, r) /\ profile' = profile
    BY <1>5 DEF TextClassification, SummarizeText, GenerateEmbeddings, EvaluateCandidates, ResearchModels,
                ModelRecommendation, Returns, Agent!Tools
  <2>. QED
    BY <2>1, AnalysedReturns
<1>6. CASE ToolRaisesValueError \/ ToolFails \/ Control \/ UNCHANGED vars
  <2>1. UNCHANGED <<file, lost, profile, results, indexed>>
    BY <1>6, DataStays
  <2>2. documents' = documents /\ (OwnTexts' <=> OwnTexts) /\ (RepeatsIds(file)' <=> RepeatsIds(file))
    BY <2>1 DEF documents, corpus, OwnTexts, OwnProfile
  <2>. QED
    BY <2>1, <2>2 DEF AnalysedInv, Ran
<1>. QED
  BY <1>1, <1>2, <1>3, <1>4, <1>5, <1>6, StepCases

-----------------------------------------------------------------------------
(* What the loaders keep of a file's text                                  *)

\* A CSV that is not cut keeps the text of its text column, ...
LEMMA CsvText ==
  ASSUME NEW f \in Accepted, f.format = "csv", ~Truncated(f)
  PROVE  SumOf(TextLengths(Documents(f))) >= Text(f)
<1>. DEFINE n == Shorter(Len(f.rows), MaxRows)
            c == DetectedTextColumn(f)
            d == CsvDocuments(f)
            R == DOMAIN f.rows
            F == Filled(f, c)
            g == [i \in R |-> f.rows[i][c].chars]
            h == [i \in F |-> f.rows[i][c].chars]
            w == TextLengths(d)
<1>1. f.rows \in Seq([Entries(f.columns) -> [chars : Nat, word : STRING]])
  BY FilesAssumption DEF Accepted
<1>2. R = 1..Len(f.rows) /\ Len(f.rows) \in Nat
  BY <1>1, EntriesFacts
<1>3. n = Len(f.rows)
  BY <1>2, LimitsAssumption DEF Truncated, Shorter
<1>4. IsFiniteSet(R) /\ IsFiniteSet(F) /\ F \in SUBSET R /\ \A i \in R : f.rows[i][c].chars \in Nat
  <2>1. F \in SUBSET R
    BY DEF Filled
  <2>. QED
    BY <2>1, TextColumnDetected, ColumnFacts
<1>5. \A i \in R : g[i] \in Nat
  BY <1>4
<1>6. \A i \in R \ F : g[i] = 0
  BY DEF Filled, Blank, Cell
<1>7. \A i \in F : g[i] \in Nat /\ h[i] = g[i]
  BY <1>4
<1>8. DOMAIN w = R /\ \A i \in R : w[i] = g[i]
  BY <1>2, <1>3 DEF TextLengths, CsvDocuments, CsvRows
<1>9. Text(f) = SumOver(h, F) /\ SumOf(TextLengths(Documents(f))) = SumOver(w, DOMAIN w)
  BY DEF Text, Chars, SumOf, Documents
<1>. HIDE DEF g, h, w, F, R
<1>10. SumOver(h, F) = SumOver(g, F) /\ SumOver(g, R) = SumOver(g, F) /\ SumOver(w, R) = SumOver(g, R)
  BY <1>4, <1>5, <1>6, <1>7, <1>8, SumSame, SumSupport
<1>11. SumOver(g, R) \in Nat
  BY <1>4, <1>5, SumNat
<1>. QED
  BY <1>8, <1>9, <1>10, <1>11

\* ... a TXT that of its lines, ...
LEMMA TxtText ==
  ASSUME NEW f \in Accepted, f.format = "txt", ~Truncated(f)
  PROVE  SumOf(TextLengths(Documents(f))) >= Text(f)
<1>. DEFINE records == TxtRecords(f)
            I == {i \in DOMAIN f.lines : f.lines[i].chars > 0}
            n == Len(f.lines)
            g == [i \in DOMAIN f.lines |-> f.lines[i].chars]
            w == TextLengths(TxtDocuments(f))
<1>1. /\ f.lines \in Seq([chars : Nat, ends : BOOLEAN])
      /\ \A i \in DOMAIN f.lines : f.lines[i].chars \in Nat
  BY LinesFacts
<1>2. DOMAIN f.lines = 1..n /\ n \in Nat
  BY <1>1, EntriesFacts
<1>3. Text(f) = SumOver(g, 1..n) /\ \A i \in 1..n : g[i] \in Nat /\ g[i] = f.lines[i].chars
  BY <1>1, <1>2 DEF Text, SumOf
<1>4. w = records
  <2>1. records \in Seq(Nat)
    BY RecordsFacts
  <2>2. Shorter(Len(records), MaxRows) = Len(records)
    BY <2>1, LimitsAssumption DEF Truncated, Shorter
  <2>3. w = [i \in 1..Len(records) |-> records[i]]
    BY <2>2 DEF TextLengths, TxtDocuments, Document
  <2>. HIDE DEF w, records
  <2>. QED
    BY <2>1, <2>3
<1>5. CASE MultiRecord(f)
  <2>. DEFINE lines == Picked(f.lines, I)
              m == Cardinality(I)
  <2>1. NonBlankLines(f) = lines
    BY LinesFacts
  <2>2. I \in SUBSET (1..n) /\ \A i \in (1..n) \ I : g[i] = 0
    BY <1>1, <1>2, <1>3
  <2>3. DOMAIN lines = 1..m /\ \A k \in 1..m : lines[k] = f.lines[Nth(I, k)] /\ Nth(I, k) \in 1..n
    <3>. DEFINE S == [chars : Nat, ends : BOOLEAN]
    <3>. HIDE DEF I, S
    <3>1. f.lines \in Seq(S) /\ I \in SUBSET DOMAIN f.lines
      BY <1>1, <1>2, <2>2 DEF S
    <3>2. DOMAIN lines = 1..m
      BY <3>1, PickedRange
    <3>3. \A k \in 1..m : lines[k] = f.lines[Nth(I, k)] /\ Nth(I, k) \in I
      BY <3>1, PickedFacts
    <3>. QED
      BY <2>2, <3>2, <3>3
  <2>. HIDE DEF I
  <2>. HIDE DEF lines, g
  <2>4. LineLengths(lines) = [k \in 1..m |-> lines[k].chars]
    BY <2>3 DEF LineLengths
  <2>5. \A k \in 1..m : LineLengths(lines)[k] = g[Nth(I, k)]
    BY <1>3, <2>3, <2>4
  <2>6. SumOver(LineLengths(lines), 1..m) = SumOver(g, 1..n)
    BY <1>2, <1>3, <2>2, <2>5, SumPicked
  <2>7. SumOver(g, 1..n) \in Nat
    <3>. DEFINE S == 1..n
    <3>1. IsFiniteSet(S) /\ \A i \in S : g[i] \in Nat
      BY <1>2, <1>3, FS_Interval
    <3>. HIDE DEF S
    <3>2. SumOver(g, S) \in Nat
      BY <3>1, SumNat
    <3>. QED
      BY <3>2 DEF S
  <2>8. DOMAIN LineLengths(lines) = 1..m
    BY <2>4
  <2>9. records = LineLengths(lines)
    BY <1>5, <2>1 DEF TxtRecords
  <2>10. SumOf(TextLengths(Documents(f))) = SumOver(w, DOMAIN w)
    BY DEF Documents, SumOf
  <2>. HIDE DEF w, records
  <2>. QED
    BY <1>3, <1>4, <2>6, <2>7, <2>8, <2>9, <2>10
<1>6. CASE ~MultiRecord(f)
  <2>. DEFINE s == LineLengths(Stripped(f))
              a == Min(I)
              b == Max(I)
              m == b - a + 1
  <2>1. /\ a \in I /\ b \in I /\ \A i \in I : i \in a..b
        /\ s \in Seq(Nat) /\ s # <<>> /\ DOMAIN s = 1..m
        /\ \A k \in 1..m : s[k] = f.lines[a + k - 1].chars
    BY LinesFacts, StrippedFacts
  <2>. HIDE DEF s, a, b
  <2>2. /\ a \in 1..n /\ b \in 1..n /\ a <= b /\ m \in Nat /\ a + m - 1 = b
        /\ \A i \in 1..n : i \notin a..b => g[i] = 0
    <3>1. a \in 1..n /\ b \in 1..n
      BY <1>2, <2>1
    <3>2. a <= b
      BY <1>2, <2>1, <3>1
    <3>3. \A i \in 1..n : i \notin I => g[i] = 0
      <4>. SUFFICES ASSUME NEW i \in 1..n, i \notin I PROVE g[i] = 0
        OBVIOUS
      <4>1. ~(f.lines[i].chars > 0)
        BY <1>2
      <4>2. g[i] = f.lines[i].chars /\ g[i] \in Nat
        BY <1>3
      <4>. QED
        BY <4>1, <4>2
    <3>4. m \in Nat /\ a + m - 1 = b
      BY <1>2, <3>1, <3>2
    <3>. QED
      BY <2>1, <3>1, <3>2, <3>3, <3>4
  <2>3. \A k \in 1..m : a + k - 1 \in 1..n
    BY <2>2
  <2>4. \A k \in 1..m : s[k] = g[a + k - 1]
    BY <1>2, <2>1, <2>3
  <2>. HIDE DEF g, m
  <2>5. SumOver(s, 1..m) = SumOver(g, 1..n)
    <3>1. a + m - 1 <= n /\ \A i \in 1..n : i \notin a..(a + m - 1) => g[i] = 0
      BY <1>2, <2>2
    <3>2. \A i \in 1..n : g[i] \in Nat
      BY <1>3
    <3>3. n \in Nat /\ a \in 1..n /\ m \in Nat
      BY <1>2, <2>2
    <3>4. Shifted(s, m, g, a)
      BY <2>4 DEF Shifted
    <3>. HIDE DEF n
    <3>. QED
      BY <3>1, <3>2, <3>3, <3>4, SumShifted
  <2>6. SumOf(s) = SumOver(s, 1..m)
    BY <2>1 DEF SumOf
  <2>7. Joined(s, 1) >= SumOf(s) /\ Joined(s, 1) \in Nat
    <3>. DEFINE one == 1
    <3>1. one \in Nat
      OBVIOUS
    <3>. HIDE DEF one
    <3>2. Joined(s, one) \in Nat /\ SumOf(s) <= Joined(s, one) /\ SumOf(s) \in Nat
      BY <2>1, <3>1, JoinedFacts
    <3>. QED
      BY <3>2 DEF one
  <2>8. records = <<Joined(s, 1)>>
    BY <1>6 DEF TxtRecords, s
  <2>9. SumOf(TextLengths(Documents(f))) = SumOver(w, DOMAIN w)
    BY DEF Documents, SumOf
  <2>10. SumOf(<<Joined(s, 1)>>) >= Joined(s, 1)
    <3>. DEFINE t == <<Joined(s, 1)>>
    <3>1. t \in Seq(Nat) /\ t # <<>> /\ 1 \in DOMAIN t /\ t[1] = Joined(s, 1)
      BY <2>7
    <3>2. 0 \in Nat
      OBVIOUS
    <3>. HIDE DEF t
    <3>3. t[1] <= SumOf(t) /\ SumOf(t) \in Nat
      BY <3>1, <3>2, JoinedFacts
    <3>. QED
      BY <2>7, <3>1, <3>3 DEF t
  <2>11. SumOf(TextLengths(Documents(f))) = SumOf(<<Joined(s, 1)>>)
    BY <1>4, <2>8, <2>9 DEF SumOf
  <2>12. SumOf(<<Joined(s, 1)>>) \in Nat
    <3>. DEFINE t == <<Joined(s, 1)>>
    <3>1. t \in Seq(Nat) /\ t # <<>>
      BY <2>7
    <3>2. 0 \in Nat
      OBVIOUS
    <3>. HIDE DEF t
    <3>. QED
      BY <3>1, <3>2, JoinedFacts DEF t
  <2>13. SumOf(s) \in Nat
    BY <2>1, 0 \in Nat, JoinedFacts
  <2>. HIDE DEF w, records
  <2>. QED
    BY <1>3, <2>5, <2>6, <2>7, <2>10, <2>11, <2>12, <2>13
<1>. QED
  BY <1>5, <1>6

\* ... and a PDF that of its pages.
LEMMA PdfText ==
  ASSUME NEW f \in Accepted, f.format = "pdf", ~Truncated(f)
  PROVE  SumOf(TextLengths(Documents(f))) >= Text(f)
<1>. DEFINE pages == PdfPages(f)
            I == {i \in DOMAIN pages : pages[i] > 0}
            m == Cardinality(I)
            n == Len(pages)
            all == [i \in DOMAIN pages |-> Document(i - 1, pages[i])]
            texts == Texts(pages)
<1>1. /\ pages \in Seq(Nat) /\ texts = Picked(pages, I) /\ m \in Nat \ {0}
      /\ texts \in Seq(Nat) /\ texts # <<>>
  BY PagesFacts
<1>2. pages = f.pages
  <2>1. f.pages \in Seq(Nat)
    BY FilesAssumption DEF Accepted
  <2>2. Shorter(Len(f.pages), MaxPdfPages) = Len(f.pages)
    BY <2>1, LimitsAssumption DEF Truncated, Shorter
  <2>3. SubSeq(f.pages, 1, Len(f.pages)) = f.pages
    BY <2>1
  <2>. QED
    BY <2>2, <2>3 DEF PdfPages
<1>3. /\ DOMAIN pages = 1..n /\ n \in Nat /\ \A i \in 1..n : pages[i] \in Nat
  BY <1>1, EntriesFacts
<1>4. Text(f) = SumOver(pages, 1..n)
  BY <1>2, <1>3 DEF Text, SumOf
<1>5. I \in SUBSET (1..n) /\ \A i \in (1..n) \ I : pages[i] = 0
  <2>1. \A i \in (1..n) \ I : pages[i] \in Nat /\ ~(pages[i] > 0)
    BY <1>3
  <2>. QED
    BY <1>3, <2>1
<1>6. SumOver(pages, 1..n) \in Nat
  <2>. DEFINE S == 1..n
  <2>1. IsFiniteSet(S) /\ \A i \in S : pages[i] \in Nat
    BY <1>3, FS_Interval
  <2>. HIDE DEF S, pages
  <2>2. SumOver(pages, S) \in Nat
    BY <2>1, SumNat
  <2>. QED
    BY <2>2 DEF S
<1>7. CASE SumOf(pages) <= SingleDocMaxChars
  <2>. HIDE DEF I, pages, texts
  <2>1. DOMAIN texts = 1..m /\ Len(texts) = m /\ \A k \in 1..m : texts[k] = pages[Nth(I, k)]
    <3>. DEFINE S == Nat
    <3>. HIDE DEF S
    <3>1. pages \in Seq(S) /\ I \in SUBSET DOMAIN pages
      BY <1>1, <1>3, <1>5 DEF S
    <3>2. DOMAIN texts = 1..m
      BY <1>1, <3>1, PickedRange
    <3>3. Len(texts) = m /\ \A k \in 1..m : texts[k] = pages[Nth(I, k)]
      BY <1>1, <3>1, PickedFacts
    <3>. QED
      BY <3>2, <3>3
  <2>2. SumOver(texts, 1..m) = SumOver(pages, 1..n)
    BY <1>3, <1>5, <2>1, SumPicked
  <2>. DEFINE k == 2
  <2>3. k \in Nat
    OBVIOUS
  <2>. HIDE DEF k
  <2>4. Joined(texts, k) \in Nat /\ SumOf(texts) <= Joined(texts, k) /\ SumOf(texts) \in Nat
    BY <1>1, <2>3, JoinedFacts
  <2>. DEFINE t == <<Joined(texts, k)>>
  <2>5. t \in Seq(Nat) /\ t # <<>> /\ 1 \in DOMAIN t /\ t[1] = Joined(texts, k)
    BY <2>4
  <2>6. TextLengths(Documents(f)) = t
    <3>1. Documents(f) = <<Document(0, Joined(texts, k))>>
      BY <1>7 DEF Documents, PdfDocuments, pages, texts, k
    <3>2. TextLengths(<<Document(0, Joined(texts, k))>>) = <<Joined(texts, k)>>
      BY DEF TextLengths, Document
    <3>. QED
      BY <3>1, <3>2
  <2>. HIDE DEF t
  <2>7. t[1] <= SumOf(t) /\ SumOf(t) \in Nat
    BY <2>3, <2>5, JoinedFacts
  <2>8. SumOf(texts) = SumOver(texts, 1..m)
    BY <2>1 DEF SumOf
  <2>. QED
    BY <1>4, <1>6, <2>2, <2>4, <2>5, <2>6, <2>7, <2>8
<1>8. CASE ~(SumOf(pages) <= SingleDocMaxChars)
  <2>. DEFINE d == Picked(all, I)
              w == TextLengths(d)
  <2>1. Documents(f) = d
    BY <1>8 DEF Documents, PdfDocuments
  <2>2. \A i \in 1..n : all[i].text = pages[i]
    BY <1>3 DEF Document
  <2>. HIDE DEF I, pages, all
  <2>3. \A k \in 1..m : Nth(I, k) \in I
    BY <1>3, <1>5, RankFacts DEF Nth
  <2>4. w = [k \in 1..m |-> all[Nth(I, k)].text]
    BY DEF TextLengths, Picked
  <2>. HIDE DEF w
  <2>5. \A k \in 1..m : w[k] = pages[Nth(I, k)]
    BY <1>5, <2>2, <2>3, <2>4
  <2>6. SumOver(w, 1..m) = SumOver(pages, 1..n)
    BY <1>3, <1>5, <2>5, SumPicked
  <2>7. SumOf(w) = SumOver(w, 1..m)
    BY <2>4 DEF SumOf
  <2>. QED
    BY <1>4, <1>6, <2>1, <2>6, <2>7 DEF w
<1>. QED
  BY <1>7, <1>8

-----------------------------------------------------------------------------
(* Quantiles, chunks and scores                                            *)

\* The numbers of entries below and up to a value.
LEMMA CountFacts ==
  ASSUME NEW s \in Seq(Nat), s # <<>>
  PROVE  LET Under(v) == {i \in DOMAIN s : s[i] < v}
             UpTo(v)  == {i \in DOMAIN s : s[i] <= v}
         IN  \A k \in 1..Len(s) : \E v \in Entries(s) : Cardinality(Under(v)) < k /\ Cardinality(UpTo(v)) >= k
<1>. DEFINE Under(v) == {i \in DOMAIN s : s[i] < v}
            UpTo(v)  == {i \in DOMAIN s : s[i] <= v}
            n == Len(s)
<1>0. DOMAIN s = 1..n /\ n \in Nat \ {0} /\ \A i \in DOMAIN s : s[i] \in Nat
  OBVIOUS
<1>1. \A v : Cardinality(Under(v)) \in Nat /\ Cardinality(UpTo(v)) \in Nat
  <2>. SUFFICES ASSUME NEW v PROVE Cardinality(Under(v)) \in Nat /\ Cardinality(UpTo(v)) \in Nat
    OBVIOUS
  <2>1. n \in Nat /\ Under(v) \in SUBSET (1..n) /\ UpTo(v) \in SUBSET (1..n)
    BY <1>0
  <2>. HIDE DEF n, Under, UpTo
  <2>. QED
    BY <2>1, PositionsFinite
<1>. SUFFICES ASSUME NEW k \in 1..n
              PROVE  \E v \in Entries(s) : Cardinality(Under(v)) < k /\ Cardinality(UpTo(v)) >= k
  OBVIOUS
<1>. DEFINE A == {v \in Nat : Cardinality(UpTo(v)) >= k}
<1>2. SumOf(s) \in A
  <2>1. SumOf(s) \in Nat /\ \A i \in DOMAIN s : s[i] <= SumOf(s)
    <3>1. 0 \in Nat
      OBVIOUS
    <3>. QED
      BY <3>1, JoinedFacts
  <2>2. UpTo(SumOf(s)) = 1..n
    BY <1>0, <2>1
  <2>3. Cardinality(1..n) = n
    BY <1>0, FS_Interval
  <2>. HIDE DEF UpTo
  <2>. QED
    BY <1>0, <2>1, <2>2, <2>3
<1>3. PICK v \in A : \A u \in A : v <= u
  <2>1. A \in SUBSET Nat /\ A # {}
    BY <1>2
  <2>. HIDE DEF A
  <2>. QED
    BY <2>1, MinFacts
<1>4. v \in Nat /\ Cardinality(UpTo(v)) >= k
  BY <1>3
<1>5. Cardinality(Under(v)) < k
  <2>1. CASE v = 0
    <3>1. Under(v) = {}
      BY <1>0, <2>1
    <3>. HIDE DEF Under
    <3>. QED
      BY <1>0, <3>1, FS_EmptySet
  <2>2. CASE v # 0
    <3>1. v - 1 \in Nat /\ v - 1 \notin A
      BY <1>3, <1>4, <2>2
    <3>2. Under(v) = UpTo(v - 1)
      BY <1>0, <1>4
    <3>3. ~(Cardinality(UpTo(v - 1)) >= k)
      BY <3>1
    <3>. HIDE DEF Under, UpTo
    <3>. QED
      BY <1>0, <1>1, <3>2, <3>3
  <2>. QED
    BY <2>1, <2>2
<1>6. v \in Entries(s)
  <2>1. Under(v) # UpTo(v)
    <3>. HIDE DEF Under, UpTo
    <3>. QED
      BY <1>0, <1>1, <1>4, <1>5
  <2>2. \E i \in DOMAIN s : s[i] <= v /\ ~(s[i] < v)
    BY <2>1
  <2>. QED
    BY <1>0, <1>4, <2>2 DEF Entries
<1>. QED
  BY <1>4, <1>5, <1>6

\* Sorted values are values, in order.
LEMMA SortedFacts ==
  ASSUME NEW s \in Seq(Nat), s # <<>>
  PROVE  /\ DOMAIN Sorted(s) = 1..Len(s) /\ Len(Sorted(s)) = Len(s)
         /\ \A k \in 1..Len(s) : Sorted(s)[k] \in Nat
         /\ \A j, k \in 1..Len(s) : j <= k => Sorted(s)[j] <= Sorted(s)[k]
<1>. DEFINE Under(v) == {i \in DOMAIN s : s[i] < v}
            UpTo(v)  == {i \in DOMAIN s : s[i] <= v}
            n == Len(s)
            t == Sorted(s)
<1>0. DOMAIN s = 1..n /\ n \in Nat \ {0} /\ \A i \in DOMAIN s : s[i] \in Nat
  OBVIOUS
<1>1. \A v : Under(v) \in SUBSET (1..n) /\ UpTo(v) \in SUBSET (1..n)
  BY <1>0
<1>2. DOMAIN t = 1..n
  BY <1>0 DEF Sorted
<1>3. ASSUME NEW k \in 1..n
      PROVE  t[k] \in Entries(s) /\ Cardinality(Under(t[k])) < k /\ Cardinality(UpTo(t[k])) >= k
  <2>1. \E v \in Entries(s) : Cardinality(Under(v)) < k /\ Cardinality(UpTo(v)) >= k
    BY CountFacts
  <2>2. t[k] = CHOOSE v \in Entries(s) : Cardinality(Under(v)) < k /\ Cardinality(UpTo(v)) >= k
    BY <1>0 DEF Sorted
  <2>. HIDE DEF Under, UpTo, t
  <2>. QED
    BY <2>1, <2>2
<1>4. \A k \in 1..n : t[k] \in Nat
  BY <1>0, <1>3 DEF Entries
<1>5. ASSUME NEW j \in 1..n, NEW k \in 1..n, j <= k
      PROVE  t[j] <= t[k]
  <2>. SUFFICES ASSUME t[k] < t[j] PROVE FALSE
    BY <1>4
  <2>1. UpTo(t[k]) \in SUBSET Under(t[j])
    BY <1>0, <1>4
  <2>2. Cardinality(UpTo(t[k])) <= Cardinality(Under(t[j])) /\ Cardinality(UpTo(t[k])) \in Nat
        /\ Cardinality(Under(t[j])) \in Nat
    <3>1. IsFiniteSet(Under(t[j])) /\ IsFiniteSet(UpTo(t[k]))
      <4>. HIDE DEF Under, UpTo, t
      <4>. QED
        BY <1>0, <1>1, PositionsFinite
    <3>. HIDE DEF Under, UpTo, t
    <3>. QED
      BY <2>1, <3>1, FS_Subset, FS_CardinalityType
  <2>3. Cardinality(Under(t[j])) < j /\ Cardinality(UpTo(t[k])) >= k
    BY <1>3
  <2>. HIDE DEF Under, UpTo, t
  <2>. QED
    BY <1>5, <2>2, <2>3
<1>6. Len(t) = n
  BY <1>0, <1>2
<1>. QED
  BY <1>2, <1>4, <1>5, <1>6

\* The positions that the quartiles are interpolated between.
LEMMA QuartilePosition ==
  ASSUME NEW n \in Nat, n >= 2, NEW i \in {1, 3}
  PROVE  LET m == i * (n + 1)
             j == Max({1, Min({m \div 4, n - 1})})
             delta == m - 4 * j
         IN  /\ j \in 1..(n - 1)
             /\ n = 2 => j = 1 /\ delta = (IF i = 1 THEN -1 ELSE 5)
             /\ n > 2 => /\ delta \in 0..4
                         /\ i = 1 => j + 1 <= (n + 1) \div 2
                         /\ i = 3 => n \div 2 + 1 <= j
<1>. DEFINE m == i * (n + 1)
            q == m \div 4
            low == Min({q, n - 1})
            j == Max({1, low})
<1>1. /\ m \in Nat /\ q \in Nat /\ 4 * q <= m /\ m < 4 * q + 4
      /\ i = 1 => m = n + 1
      /\ i = 3 => m = 3 * (n + 1)
  <2>1. CASE i = 1
    BY <2>1
  <2>2. CASE i = 3
    BY <2>2
  <2>. QED
    BY <2>1, <2>2
<1>. HIDE DEF m, q
<1>2. low = (IF q <= n - 1 THEN q ELSE n - 1) /\ low \in Nat
  <2>1. {q, n - 1} \in SUBSET Nat /\ {q, n - 1} # {}
    BY <1>1
  <2>2. low \in {q, n - 1} /\ \A y \in {q, n - 1} : low <= y
    BY <2>1, MinFacts
  <2>. HIDE DEF low
  <2>. QED
    BY <1>1, <2>2
<1>. HIDE DEF low
<1>3. j = IF low <= 1 THEN 1 ELSE low
  <2>1. {1, low} \in SUBSET (0..n) /\ {1, low} # {}
    BY <1>1, <1>2
  <2>2. j \in {1, low} /\ \A y \in {1, low} : y <= j
    BY <2>1, MaxFacts
  <2>. HIDE DEF j
  <2>. QED
    BY <1>2, <2>2
<1>. HIDE DEF j
<1>4. j \in 1..(n - 1)
  BY <1>1, <1>2, <1>3
<1>5. n = 2 => j = 1 /\ m - 4 * j = (IF i = 1 THEN -1 ELSE 5)
  BY <1>1, <1>2, <1>3
<1>6. n > 2 => /\ m - 4 * j \in 0..4
               /\ i = 1 => j + 1 <= (n + 1) \div 2
               /\ i = 3 => n \div 2 + 1 <= j
  <2>. SUFFICES ASSUME n > 2
                PROVE  /\ m - 4 * j \in 0..4
                       /\ i = 1 => j + 1 <= (n + 1) \div 2
                       /\ i = 3 => n \div 2 + 1 <= j
    OBVIOUS
  <2>1. CASE i = 1
    BY <1>1, <1>2, <1>3, <2>1
  <2>2. CASE i = 3
    BY <1>1, <1>2, <1>3, <2>2
  <2>. QED
    BY <2>1, <2>2
<1>. QED
  BY <1>4, <1>5, <1>6 DEF m, q, low, j

\* The quartiles and the median of sorted values.
LEMMA QuartilesFacts ==
  ASSUME NEW s, NEW n \in Nat \ {0}, Len(s) = n, \A k \in 1..n : s[k] \in Nat,
         \A j, k \in 1..n : j <= k => s[j] <= s[k]
  PROVE  /\ 4 * s[1] <= Median(s) /\ Median(s) <= 4 * s[n]
         /\ n >= 2 => Quartile(s, 1) <= Median(s) /\ Median(s) <= Quartile(s, 3)
         /\ n = 2 => Quartile(s, 1) <= 4 * s[1] /\ 4 * s[n] <= Quartile(s, 3)
         /\ n > 2 => 4 * s[1] <= Quartile(s, 1) /\ Quartile(s, 3) <= 4 * s[n]
<1>. DEFINE a == (n + 1) \div 2
            b == n \div 2 + 1
<1>1. a \in 1..n /\ b \in 1..n /\ a <= b /\ (n = 2 => a = 1 /\ b = 2)
  OBVIOUS
<1>2. Median(s) = 2 * (s[a] + s[b])
  BY DEF Median
<1>. HIDE DEF a, b
<1>3. /\ s[1] \in Nat /\ s[a] \in Nat /\ s[b] \in Nat /\ s[n] \in Nat
      /\ s[1] <= s[a] /\ s[a] <= s[b] /\ s[b] <= s[n]
  BY <1>1
<1>4. /\ Median(s) \in Nat /\ 4 * s[1] <= Median(s) /\ 4 * s[a] <= Median(s)
      /\ Median(s) <= 4 * s[b] /\ Median(s) <= 4 * s[n]
  BY <1>2, <1>3
<1>5. ASSUME n >= 2, NEW i \in {1, 3}
      PROVE  \E j \in 1..(n - 1), delta \in Int :
               /\ Quartile(s, i) = s[j] * (4 - delta) + s[j + 1] * delta
               /\ n = 2 => j = 1 /\ delta = (IF i = 1 THEN -1 ELSE 5)
               /\ n > 2 => /\ delta \in 0..4
                           /\ i = 1 => j + 1 <= a
                           /\ i = 3 => b <= j
  <2>. DEFINE m == i * (n + 1)
              j == Max({1, Min({m \div 4, n - 1})})
              delta == m - 4 * j
  <2>1. /\ j \in 1..(n - 1)
        /\ n = 2 => j = 1 /\ delta = (IF i = 1 THEN -1 ELSE 5)
        /\ n > 2 => /\ delta \in 0..4
                    /\ i = 1 => j + 1 <= a
                    /\ i = 3 => b <= j
    BY <1>5, QuartilePosition DEF a, b
  <2>2. Quartile(s, i) = s[j] * (4 - delta) + s[j + 1] * delta
    BY DEF Quartile
  <2>3. delta \in Int
    <3>1. m \in Int
      OBVIOUS
    <3>. HIDE DEF j, m
    <3>. QED
      BY <2>1, <3>1
  <2>. HIDE DEF j, delta
  <2>. QED
    BY <2>1, <2>2, <2>3
\* Interpolation stays between the two values that it interpolates.
<1>6. ASSUME NEW x \in Nat, NEW y \in Nat, x <= y, NEW delta \in 0..4
      PROVE  4 * x <= x * (4 - delta) + y * delta /\ x * (4 - delta) + y * delta <= 4 * y
  <2>1. delta = 0 \/ delta = 1 \/ delta = 2 \/ delta = 3 \/ delta = 4
    OBVIOUS
  <2>. QED
    BY <1>6, <2>1
<1>7. CASE n = 2
  <2>1. Quartile(s, 1) = s[1] * (4 - (-1)) + s[1 + 1] * (-1)
    <3>1. PICK j \in 1..(n - 1), delta \in Int :
            Quartile(s, 1) = s[j] * (4 - delta) + s[j + 1] * delta /\ j = 1 /\ delta = -1
      BY <1>5, <1>7
    <3>. QED
      BY <3>1
  <2>2. Quartile(s, 3) = s[1] * (4 - 5) + s[1 + 1] * 5
    <3>1. PICK j \in 1..(n - 1), delta \in Int :
            Quartile(s, 3) = s[j] * (4 - delta) + s[j + 1] * delta /\ j = 1 /\ delta = 5
      BY <1>5, <1>7
    <3>. QED
      BY <3>1
  <2>3. s[1] \in Nat /\ s[2] \in Nat /\ s[1] <= s[2] /\ n = 2 /\ s[n] = s[2]
    BY <1>7
  <2>4. Quartile(s, 1) = 5 * s[1] - s[2] /\ Quartile(s, 3) = 5 * s[2] - s[1]
    BY <2>1, <2>2, <2>3
  <2>5. Median(s) = 2 * (s[1] + s[2])
    BY <1>1, <1>2, <1>7
  <2>. QED
    BY <1>4, <2>3, <2>4, <2>5
<1>8. CASE n > 2
  <2>1. 4 * s[1] <= Quartile(s, 1) /\ Quartile(s, 1) <= Median(s)
    <3>1. PICK j \in 1..(n - 1), delta \in Int :
            /\ Quartile(s, 1) = s[j] * (4 - delta) + s[j + 1] * delta
            /\ delta \in 0..4 /\ j + 1 <= a
      BY <1>5, <1>8
    <3>0. j \in 1..n /\ j + 1 \in 1..n /\ 1 \in 1..n /\ j <= j + 1 /\ 1 <= j
      BY <3>1
    <3>2. s[j] \in Nat /\ s[j + 1] \in Nat /\ s[1] <= s[j] /\ s[j] <= s[j + 1] /\ s[j + 1] <= s[a]
      BY <1>1, <3>0, <3>1
    <3>3. 4 * s[j] <= Quartile(s, 1) /\ Quartile(s, 1) <= 4 * s[j + 1]
      BY <1>6, <3>1, <3>2
    <3>4. Quartile(s, 1) \in Int
      BY <3>1, <3>2
    <3>. DEFINE x == s[j]
                y == s[j + 1]
                q == Quartile(s, 1)
                median == Median(s)
    <3>5. /\ x \in Nat /\ y \in Nat /\ s[1] \in Nat /\ s[a] \in Nat /\ q \in Int /\ median \in Nat
          /\ s[1] <= x /\ y <= s[a] /\ 4 * x <= q /\ q <= 4 * y /\ 4 * s[a] <= median
      BY <1>3, <1>4, <3>2, <3>3, <3>4
    <3>. HIDE DEF x, y, q, median
    <3>6. 4 * s[1] <= q /\ q <= median
      BY <3>5
    <3>. QED
      BY <3>6 DEF q, median
  <2>2. Median(s) <= Quartile(s, 3) /\ Quartile(s, 3) <= 4 * s[n]
    <3>1. PICK j \in 1..(n - 1), delta \in Int :
            /\ Quartile(s, 3) = s[j] * (4 - delta) + s[j + 1] * delta
            /\ delta \in 0..4 /\ b <= j
      BY <1>5, <1>8
    <3>0. j \in 1..n /\ j + 1 \in 1..n /\ n \in 1..n /\ j <= j + 1 /\ j + 1 <= n
      BY <3>1
    <3>2. s[j] \in Nat /\ s[j + 1] \in Nat /\ s[b] <= s[j] /\ s[j] <= s[j + 1] /\ s[j + 1] <= s[n]
      BY <1>1, <3>0, <3>1
    <3>3. 4 * s[j] <= Quartile(s, 3) /\ Quartile(s, 3) <= 4 * s[j + 1]
      BY <1>6, <3>1, <3>2
    <3>4. Quartile(s, 3) \in Int
      BY <3>1, <3>2
    <3>. DEFINE x == s[j]
                y == s[j + 1]
                q == Quartile(s, 3)
                median == Median(s)
    <3>5. /\ x \in Nat /\ y \in Nat /\ s[b] \in Nat /\ s[n] \in Nat /\ q \in Int /\ median \in Nat
          /\ s[b] <= x /\ y <= s[n] /\ 4 * x <= q /\ q <= 4 * y /\ median <= 4 * s[b]
      BY <1>3, <1>4, <3>2, <3>3, <3>4
    <3>. HIDE DEF x, y, q, median
    <3>6. median <= q /\ q <= 4 * s[n]
      BY <3>5
    <3>. QED
      BY <3>6 DEF q, median
  <2>. QED
    BY <1>4, <1>8, <2>1, <2>2
<1>. QED
  BY <1>4, <1>7, <1>8

\* How many chunks a text is cut into.
LEMMA CeilDivFacts ==
  ASSUME NEW n \in Nat \ {0}, NEW k \in Nat \ {0}
  PROVE  /\ CeilDiv(n, k) \in Nat \ {0}
         /\ n <= CeilDiv(n, k) * k /\ (CeilDiv(n, k) - 1) * k < n
<1>. DEFINE c == (n + k - 1) \div k
            r == (n + k - 1) % k
<1>1. c \in Int /\ r \in 0..(k - 1) /\ n + k - 1 = k * c + r
  OBVIOUS
<1>. HIDE DEF c, r
<1>2. c * k = k * c /\ (c - 1) * k = k * c - k
  BY <1>1
<1>3. n <= c * k /\ (c - 1) * k < n
  BY <1>1, <1>2
<1>4. c > 0
  <2>. SUFFICES ASSUME c <= 0 PROVE FALSE
    BY <1>1
  <2>1. c * k \in Int /\ c * k <= 0
    BY <1>1
  <2>. QED
    BY <1>3, <2>1
<1>. QED
  BY <1>1, <1>3, <1>4 DEF CeilDiv, c

\* The chunks of a text are of the size the model takes, and together the text.
LEMMA ChunksFacts ==
  ASSUME NEW n \in Nat \ {0}
  PROVE  /\ Chunks(n) \in Seq(Nat \ {0}) /\ Len(Chunks(n)) \in Nat \ {0}
         /\ DOMAIN Chunks(n) = 1..Len(Chunks(n))
         /\ \A k \in DOMAIN Chunks(n) : Chunks(n)[k] \in 1..MaxChunkChars
         /\ SumOf(Chunks(n)) = n
<1>. DEFINE M == MaxChunkChars
            c == CeilDiv(n, M)
            s == Chunks(n)
            p == [k \in 0..c |-> Shorter(n, k * M)]
<1>0. M \in Nat \ {0}
  BY ThresholdsAssumption
<1>1. c \in Nat \ {0} /\ n <= c * M /\ (c - 1) * M < n
  <2>. HIDE DEF M
  <2>. QED
    BY <1>0, CeilDivFacts
<1>2. /\ s = [k \in 1..c |-> s[k]] /\ DOMAIN s = 1..c
      /\ \A k \in 1..c : s[k] = Shorter(M, n - (k - 1) * M)
  BY DEF Chunks
<1>. HIDE DEF M, c, s
<1>3. ASSUME NEW k \in 1..c
      PROVE  (k - 1) * M \in Nat /\ (k - 1) * M < n
  <2>. DEFINE d == c - k
  <2>1. d \in Nat /\ d * M \in Nat /\ k - 1 \in Nat /\ (k - 1) * M \in Nat
    BY <1>0, <1>1
  <2>2. (c - 1) * M = (k - 1) * M + d * M
    BY <1>0, <1>1, <2>1
  <2>. HIDE DEF d
  <2>3. \A x, y, z \in Int : z \in Nat /\ x = y + z /\ x < n => y < n
    OBVIOUS
  <2>. QED
    BY <1>1, <2>1, <2>2
<1>4. \A k \in 1..c : s[k] \in 1..M
  BY <1>0, <1>2, <1>3 DEF Shorter
<1>5. \A k \in 0..c : k * M \in Nat /\ p[k] = Shorter(n, k * M) /\ p[k] \in Nat
  BY <1>0 DEF Shorter
<1>6. ASSUME NEW k \in 1..c
      PROVE  p[k] = p[k - 1] + s[k]
  <2>. DEFINE before == (k - 1) * M
  <2>1. k * M = before + M
    BY <1>0
  <2>2. p[k] = Shorter(n, k * M) /\ p[k - 1] = Shorter(n, before)
    <3>1. k \in 0..c /\ k - 1 \in 0..c
      BY <1>1
    <3>. HIDE DEF p
    <3>. QED
      BY <1>5, <3>1
  <2>3. before \in Nat /\ before < n /\ s[k] = Shorter(M, n - before)
    BY <1>2, <1>3
  <2>. HIDE DEF before, p
  <2>. QED
    BY <1>0, <2>1, <2>2, <2>3 DEF Shorter
<1>7. p[0] = 0 /\ p[c] = n
  <2>1. 0 * M = 0
    BY <1>0
  <2>. QED
    BY <1>0, <1>1, <1>5, <2>1 DEF Shorter
<1>. HIDE DEF p
<1>8. SumOver(s, 1..c) = n
  <2>1. SumOver(s, 1..c) = p[c] - p[0]
    <3>1. c \in Nat /\ \A k \in 1..c : s[k] \in Nat
      BY <1>0, <1>1, <1>4
    <3>. QED
      BY <1>5, <1>6, <3>1, SumTelescopes
  <2>. QED
    BY <1>7, <2>1
<1>9. s \in Seq(Nat \ {0}) /\ Len(s) = c
  <2>1. \A k \in 1..c : s[k] \in Nat \ {0}
    BY <1>0, <1>4
  <2>. QED
    BY <1>1, <1>2, <2>1
<1>. QED
  BY <1>1, <1>2, <1>4, <1>8, <1>9 DEF SumOf, s, M

\* A request asks for a length between its bounds.
LEMMA RequestFacts ==
  ASSUME NEW chars, NEW words \in Nat \ {0}
  PROVE  LET q == SummaryRequest(chars, words)
         IN  /\ q.chars = chars /\ q.words = words
             /\ 5 <= q.min_length /\ 2 * q.min_length <= q.max_length
             /\ q.max_length \in 10..130
             /\ q.min_length > q.words => q.words < 5
<1>. DEFINE half == IF words \div 2 = 0 THEN 10 ELSE words \div 2
            top == Shorter(130, half)
            high == MaxLength(words)
            low == MinLength(words)
<1>1. half \in Nat /\ top \in 0..130 /\ (top > 10 => words >= 2 * top)
  BY DEF Shorter
<1>2. high = IF top <= 10 THEN 10 ELSE top
  <2>. HIDE DEF top
  <2>1. {10, top} \in SUBSET (0..130) /\ {10, top} # {}
    BY <1>1
  <2>2. Max({10, top}) \in {10, top} /\ \A y \in {10, top} : y <= Max({10, top})
    BY <2>1, MaxFacts
  <2>3. high = Max({10, top})
    BY DEF MaxLength, top
  <2>. QED
    BY <1>1, <2>2, <2>3
<1>. HIDE DEF top, half
<1>. DEFINE middle == Shorter(30, high \div 2)
<1>3. high \in 10..130 /\ middle \in 5..30 /\ 2 * middle <= high
  BY <1>1, <1>2 DEF Shorter
<1>4. low = middle
  <2>. HIDE DEF high, middle
  <2>1. {5, middle} \in SUBSET (0..30) /\ {5, middle} # {}
    BY <1>3
  <2>2. Max({5, middle}) \in {5, middle} /\ \A y \in {5, middle} : y <= Max({5, middle})
    BY <2>1, MaxFacts
  <2>3. low = Max({5, middle})
    BY DEF MinLength, high, middle
  <2>. QED
    BY <1>3, <2>2, <2>3
<1>5. low > words => words < 5
  <2>. HIDE DEF low, high, middle
  <2>1. high = 10 \/ words >= 2 * high
    BY <1>1, <1>2
  <2>. QED
    BY <1>3, <1>4, <2>1
<1>. DEFINE q == SummaryRequest(chars, words)
<1>6. q.chars = chars /\ q.words = words /\ q.max_length = high /\ q.min_length = low
  BY DEF SummaryRequest
<1>. HIDE DEF high, low, middle, q
<1>. QED
  BY <1>3, <1>4, <1>5, <1>6 DEF q

\* Labels, finitely many.
LEMMA EntriesFinite ==
  ASSUME NEW n \in Nat, NEW s, DOMAIN s = 1..n
  PROVE  IsFiniteSet(Entries(s))
<1>. DEFINE D == 1..n
            E == Entries(s)
            h == [i \in D |-> s[i]]
<1>1. IsFiniteSet(D)
  BY FS_Interval
<1>2. h \in Surjection(D, E)
  <2>1. h \in [D -> E] /\ \A e \in E : \E i \in D : h[i] = e
    BY DEF Entries
  <2>. QED
    BY <2>1 DEF Surjection
<1>. HIDE DEF h, D, E
<1>3. IsFiniteSet(E)
  BY <1>1, <1>2, FS_Surjection
<1>. QED
  BY <1>3 DEF E

\* What precision and recall are computed from.
LEMMA CountsFacts ==
  ASSUME NEW n \in Nat, NEW truth, NEW predicted, DOMAIN truth = 1..n, DOMAIN predicted = 1..n, NEW l
  PROVE  LET tp == TruePositives(truth, predicted, l)
             t  == Occurrences(truth, l)
             p  == Occurrences(predicted, l)
         IN  /\ tp \in Nat /\ t \in Nat /\ p \in Nat /\ tp <= t /\ tp <= p /\ t <= n /\ p <= n
             /\ l \in LabelsOf(truth, predicted) => t + p > 0
             /\ (\A i \in 1..n : truth[i] = predicted[i]) => tp = t /\ tp = p
             /\ (\A i \in 1..n : truth[i] # predicted[i]) => tp = 0
<1>. DEFINE T == {i \in 1..n : truth[i] = l}
            P == {i \in 1..n : predicted[i] = l}
            B == {i \in 1..n : truth[i] = l /\ predicted[i] = l}
            tp == Cardinality(B)
            t == Cardinality(T)
            p == Cardinality(P)
<1>1. /\ TruePositives(truth, predicted, l) = tp
      /\ Occurrences(truth, l) = t /\ Occurrences(predicted, l) = p
  BY DEF TruePositives, Occurrences
<1>2. T \in SUBSET (1..n) /\ P \in SUBSET (1..n) /\ B \in SUBSET T /\ B \in SUBSET P
  OBVIOUS
<1>3. l \in LabelsOf(truth, predicted) => T # {} \/ P # {}
  BY DEF LabelsOf, Entries
<1>4. (\A i \in 1..n : truth[i] = predicted[i]) => B = T /\ B = P
  OBVIOUS
<1>5. (\A i \in 1..n : truth[i] # predicted[i]) => B = {}
  OBVIOUS
<1>. HIDE DEF T, P, B
<1>6. /\ IsFiniteSet(T) /\ IsFiniteSet(P) /\ IsFiniteSet(B)
      /\ t \in Nat /\ p \in Nat /\ t <= n /\ p <= n
  <2>1. IsFiniteSet(T) /\ t \in Nat /\ t <= n
    BY <1>2, PositionsFinite
  <2>2. IsFiniteSet(P) /\ p \in Nat /\ p <= n
    BY <1>2, PositionsFinite
  <2>3. IsFiniteSet(B)
    BY <1>2, <2>1, FS_Subset
  <2>. QED
    BY <2>1, <2>2, <2>3
<1>7. tp \in Nat /\ tp <= t /\ tp <= p
  BY <1>2, <1>6, FS_Subset, FS_CardinalityType
<1>8. (t = 0 <=> T = {}) /\ (p = 0 <=> P = {}) /\ (tp = 0 <=> B = {})
  BY <1>6, FS_EmptySet
<1>. HIDE DEF tp, t, p
<1>9. l \in LabelsOf(truth, predicted) => t + p > 0
  BY <1>3, <1>6, <1>8
<1>10. (\A i \in 1..n : truth[i] = predicted[i]) => tp = t /\ tp = p
  BY <1>4 DEF tp, t, p
<1>. QED
  BY <1>1, <1>5, <1>6, <1>7, <1>8, <1>9, <1>10

\* What no true positive, or nothing but true positives, says of one prediction.
LEMMA PredictionFacts ==
  ASSUME NEW n \in Nat, NEW truth, NEW predicted, DOMAIN truth = 1..n, NEW i \in 1..n
  PROVE  LET l == truth[i]
         IN  /\ TruePositives(truth, predicted, l) = Occurrences(truth, l) => predicted[i] = l
             /\ TruePositives(truth, predicted, l) = 0 => predicted[i] # l
<1>. DEFINE l == truth[i]
            T == {k \in 1..n : truth[k] = l}
            B == {k \in 1..n : truth[k] = l /\ predicted[k] = l}
<1>1. TruePositives(truth, predicted, l) = Cardinality(B) /\ Occurrences(truth, l) = Cardinality(T)
  BY DEF TruePositives, Occurrences
<1>2. T \in SUBSET (1..n) /\ B \in SUBSET T /\ (B = T => predicted[i] = l) /\ (B = {} => predicted[i] # l)
  OBVIOUS
<1>. HIDE DEF T, B, l
<1>3. IsFiniteSet(T) /\ IsFiniteSet(B)
  BY <1>2, PositionsFinite, FS_Subset
<1>4. (Cardinality(B) = Cardinality(T) => B = T) /\ (Cardinality(B) = 0 => B = {})
  BY <1>2, <1>3, FS_Subset, FS_EmptySet
<1>. QED
  BY <1>1, <1>2, <1>4 DEF l

\* An F1 score of tp true positives among d labels, true or predicted.
Score(tp, d) == (2 * tp * FScale) \div d

\* FScale is fine enough for it to be 0 or 1 only when it is meant to be.
LEMMA ScoreFacts ==
  ASSUME NEW tp \in Nat, NEW d \in Nat \ {0}, 2 * tp <= d, d <= 2 * SampleSize
  PROVE  /\ Score(tp, d) \in 0..FScale
         /\ Score(tp, d) = FScale <=> 2 * tp = d
         /\ Score(tp, d) = 0 <=> tp = 0
<1>. DEFINE F == FScale
            x == 2 * tp * F
            f1 == x \div d
            r == x % d
<1>0. F \in Nat \ {0} /\ F >= d
  <2>1. SampleSize \in Nat \ {0} /\ F \in Nat \ {0} /\ \A k \in 1..(2 * SampleSize) : F % k = 0
    BY ThresholdsAssumption, FScaleAssumption
  <2>. DEFINE k == 2 * SampleSize
  <2>2. k \in Nat \ {0} /\ F % k = 0
    BY <2>1
  <2>. HIDE DEF k, F
  <2>3. F >= k
    <3>. SUFFICES ASSUME F < k PROVE FALSE
      BY <2>1, <2>2
    <3>1. F % k = F
      BY <2>1, <2>2
    <3>. QED
      BY <2>1, <2>2, <3>1
  <2>. QED
    BY <2>1, <2>3 DEF k
<1>1. x \in Nat /\ f1 \in Int /\ r \in 0..(d - 1) /\ x = d * f1 + r
  <2>1. x \in Nat
    BY <1>0
  <2>. HIDE DEF x
  <2>. QED
    BY <2>1
<1>2. 2 * tp = d => x = d * F
  BY <1>0
<1>3. 2 * tp < d => x < d * F
  <2>. SUFFICES ASSUME 2 * tp < d PROVE x < d * F
    OBVIOUS
  <2>. DEFINE e == d - 2 * tp
  <2>1. e \in Nat \ {0} /\ d = 2 * tp + e
    OBVIOUS
  <2>2. d * F = x + e * F /\ e * F \in Nat /\ e * F > 0
    <3>. HIDE DEF F, e
    <3>1. (2 * tp + e) * F = 2 * tp * F + e * F
      BY <1>0, <2>1
    <3>2. e * F > 0 /\ e * F \in Nat
      BY <1>0, <2>1
    <3>. QED
      BY <2>1, <3>1, <3>2
  <2>. HIDE DEF e, F, x
  <2>. QED
    BY <1>1, <2>2
<1>4. tp = 0 => x = 0
  BY <1>0
<1>5. tp > 0 => x >= d
  <2>. SUFFICES ASSUME tp > 0 PROVE x >= d
    OBVIOUS
  <2>1. x = F + (2 * tp - 1) * F /\ (2 * tp - 1) * F \in Nat
    BY <1>0
  <2>. HIDE DEF x, F
  <2>. QED
    BY <1>0, <2>1
<1>. HIDE DEF F, x, f1, r
<1>6. f1 >= 0
  <2>. SUFFICES ASSUME f1 <= -1 PROVE FALSE
    BY <1>1
  <2>1. d * f1 <= -d /\ d * f1 \in Int
    <3>1. d * f1 = d * (f1 + 1) - d /\ d * (f1 + 1) <= 0 /\ d * (f1 + 1) \in Int
      BY <1>1
    <3>. QED
      BY <3>1
  <2>. QED
    BY <1>1, <2>1
<1>7. f1 <= F
  <2>. SUFFICES ASSUME f1 >= F + 1 PROVE FALSE
    BY <1>0, <1>1
  <2>1. d * f1 >= d * F + d /\ d * f1 \in Int /\ d * F \in Int
    <3>. DEFINE z == f1 - F - 1
    <3>1. z \in Nat /\ f1 = F + 1 + z
      BY <1>0, <1>1
    <3>. HIDE DEF z
    <3>2. d * f1 = d * F + d + d * z /\ d * z \in Nat /\ d * F \in Int
      BY <1>0, <3>1
    <3>. QED
      BY <3>2
  <2>. QED
    BY <1>1, <1>2, <1>3, <2>1
<1>8. f1 = F <=> 2 * tp = d
  <2>1. ASSUME f1 = F PROVE 2 * tp = d
    <3>1. d * F \in Int /\ x >= d * F
      BY <1>0, <1>1, <2>1
    <3>. QED
      BY <1>1, <1>3, <3>1
  <2>2. ASSUME 2 * tp = d PROVE f1 = F
    <3>. SUFFICES ASSUME f1 < F PROVE FALSE
      BY <1>0, <1>1, <1>7
    <3>. DEFINE z == F - f1 - 1
    <3>1. z \in Nat /\ F = f1 + 1 + z
      BY <1>0, <1>1
    <3>. HIDE DEF z
    <3>2. d * F = d * f1 + d + d * z /\ d * z \in Nat /\ d * f1 \in Int
      BY <1>0, <1>1, <3>1
    <3>. QED
      BY <1>1, <1>2, <2>2, <3>2
  <2>. QED
    BY <2>1, <2>2
<1>9. f1 = 0 <=> tp = 0
  <2>1. ASSUME f1 = 0 PROVE tp = 0
    <3>1. x < d
      BY <1>1, <2>1
    <3>. QED
      BY <1>1, <1>5, <3>1
  <2>2. ASSUME tp = 0 PROVE f1 = 0
    <3>. SUFFICES ASSUME f1 > 0 PROVE FALSE
      BY <1>1, <1>6
    <3>1. d * f1 = d + d * (f1 - 1) /\ d * (f1 - 1) \in Nat
      BY <1>1
    <3>. QED
      BY <1>1, <1>4, <2>2, <3>1
  <2>. QED
    BY <2>1, <2>2
<1>. QED
  BY <1>0, <1>1, <1>6, <1>7, <1>8, <1>9 DEF F, x, f1, Score

\* The two scores of one candidate.
LEMMA MetricsFacts ==
  ASSUME NEW n \in Nat, n <= SampleSize, NEW truth, NEW predicted,
         DOMAIN truth = 1..n, DOMAIN predicted = 1..n
  PROVE  LET m == Metrics(truth, predicted)
         IN  /\ m.n_examples = n /\ m.hits \in 0..n
             /\ m.f1_sum \in 0..(m.labels * FScale)
             /\ m.hits = m.n_examples <=> m.f1_sum = m.labels * FScale
             /\ m.hits = 0 <=> m.f1_sum = 0
<1>. DEFINE L == LabelsOf(truth, predicted)
            g == [l \in L |-> F1(truth, predicted, l)]
            h == [l \in L |-> FScale]
            tp(l) == TruePositives(truth, predicted, l)
            t(l) == Occurrences(truth, l)
            p(l) == Occurrences(predicted, l)
            hits == Hits(truth, predicted)
            All == \A i \in 1..n : truth[i] = predicted[i]
            None == \A i \in 1..n : truth[i] # predicted[i]
            sum == SumOver(g, L)
            count == Cardinality(L)
<1>0. FScale \in Nat \ {0} /\ SampleSize \in Nat \ {0}
  BY ThresholdsAssumption, FScaleAssumption
<1>1. IsFiniteSet(L) /\ count \in Nat
  <2>1. IsFiniteSet(Entries(truth)) /\ IsFiniteSet(Entries(predicted))
    BY EntriesFinite
  <2>2. IsFiniteSet(L)
    BY <2>1, FS_Union DEF LabelsOf
  <2>. QED
    BY <2>2, FS_CardinalityType
<1>2. Metrics(truth, predicted) = [n_examples |-> Len(truth), hits |-> hits, labels |-> count, f1_sum |-> sum]
  BY DEF Metrics
<1>3. Len(truth) = n
  OBVIOUS
<1>4. hits \in 0..n /\ (hits = n <=> All) /\ (hits = 0 <=> None)
  <2>. DEFINE I == {i \in 1..n : truth[i] = predicted[i]}
  <2>1. hits = Cardinality(I)
    BY DEF Hits
  <2>2. I \in SUBSET (1..n) /\ (I = 1..n <=> All) /\ (I = {} <=> None)
    OBVIOUS
  <2>. HIDE DEF I, All, None, hits
  <2>3. IsFiniteSet(I) /\ Cardinality(I) \in Nat /\ Cardinality(I) <= n /\ (Cardinality(I) = n => I = 1..n)
    BY <2>2, PositionsFinite
  <2>4. Cardinality(1..n) = n
    BY FS_Interval
  <2>5. Cardinality(I) = 0 <=> I = {}
    BY <2>3, FS_EmptySet
  <2>. QED
    BY <2>1, <2>2, <2>3, <2>4, <2>5
<1>5. ASSUME NEW l \in L
      PROVE  /\ g[l] \in 0..FScale /\ h[l] = FScale
             /\ g[l] = FScale <=> tp(l) = t(l) /\ tp(l) = p(l)
             /\ g[l] = 0 <=> tp(l) = 0
  <2>. DEFINE d == t(l) + p(l)
  <2>1. /\ tp(l) \in Nat /\ t(l) \in Nat /\ p(l) \in Nat /\ tp(l) <= t(l) /\ tp(l) <= p(l)
        /\ t(l) <= n /\ p(l) <= n /\ t(l) + p(l) > 0
    BY CountsFacts
  <2>2. g[l] = Score(tp(l), d)
    BY DEF F1, Score
  <2>. HIDE DEF tp, t, p, g, L
  <2>3. d \in Nat \ {0} /\ 2 * tp(l) <= d /\ d <= 2 * SampleSize
    BY <1>0, <2>1
  <2>4. 2 * tp(l) = d <=> tp(l) = t(l) /\ tp(l) = p(l)
    BY <2>1
  <2>. HIDE DEF d
  <2>5. /\ g[l] \in 0..FScale
        /\ g[l] = FScale <=> 2 * tp(l) = d
        /\ g[l] = 0 <=> tp(l) = 0
    BY <2>1, <2>2, <2>3, ScoreFacts
  <2>. QED
    BY <2>4, <2>5 DEF L
<1>6. All <=> \A l \in L : tp(l) = t(l) /\ tp(l) = p(l)
  <2>1. ASSUME All, NEW l \in L PROVE tp(l) = t(l) /\ tp(l) = p(l)
    BY <2>1, CountsFacts
  <2>2. ASSUME \A l \in L : tp(l) = t(l), NEW i \in 1..n PROVE truth[i] = predicted[i]
    <3>. DEFINE l == truth[i]
    <3>1. l \in L
      BY DEF LabelsOf, Entries
    <3>2. tp(l) = t(l)
      BY <2>2, <3>1
    <3>. QED
      BY <3>2, PredictionFacts
  <2>. QED
    BY <2>1, <2>2
<1>7. None <=> \A l \in L : tp(l) = 0
  <2>1. ASSUME None, NEW l \in L PROVE tp(l) = 0
    BY <2>1, CountsFacts
  <2>2. ASSUME \A l \in L : tp(l) = 0, NEW i \in 1..n PROVE truth[i] # predicted[i]
    <3>. DEFINE l == truth[i]
    <3>1. l \in L
      BY DEF LabelsOf, Entries
    <3>2. tp(l) = 0
      BY <2>2, <3>1
    <3>. QED
      BY <3>2, PredictionFacts
  <2>. QED
    BY <2>1, <2>2
<1>. HIDE DEF L, g, h, tp, t, p, All, None, hits
<1>8. \A l \in L : g[l] \in Nat /\ h[l] \in Nat /\ g[l] <= h[l] /\ h[l] = FScale
  BY <1>0, <1>5
<1>9. /\ sum <= SumOver(h, L) /\ SumOver(h, L) = count * FScale
      /\ sum = SumOver(h, L) <=> \A l \in L : g[l] = h[l]
      /\ sum \in Nat /\ (sum = 0 <=> \A l \in L : g[l] = 0)
  <2>1. FScale \in Nat
    BY <1>0
  <2>2. SumOver(h, L) = count * FScale
    BY <1>1, <1>8, <2>1, SumConstant
  <2>3. /\ sum <= SumOver(h, L)
        /\ sum = SumOver(h, L) <=> \A l \in L : g[l] = h[l]
    BY <1>1, <1>8, SumCompare
  <2>4. sum \in Nat /\ (sum = 0 <=> \A l \in L : g[l] = 0)
    BY <1>1, <1>8, SumZero
  <2>. QED
    BY <2>2, <2>3, <2>4
<1>. HIDE DEF sum, count
<1>10. sum \in 0..(count * FScale)
  BY <1>0, <1>1, <1>9
<1>11. (\A l \in L : g[l] = h[l]) <=> All
  BY <1>5, <1>6
<1>12. (\A l \in L : g[l] = 0) <=> None
  BY <1>5, <1>7
<1>13. /\ hits = n <=> sum = count * FScale
       /\ hits = 0 <=> sum = 0
  BY <1>4, <1>9, <1>11, <1>12
<1>. QED
  BY <1>2, <1>3, <1>4, <1>10, <1>13

\* No summary, evaluation or recommendation yet.
LEMMA ComputedInit == Init => ComputedInv
<1>1. Init => ~Ran("summarize_text") /\ ~Ran("evaluate_candidates") /\ ~Ran("model_recommendation")
  BY DEF Init, Ran, Agent!Tools
<1>2. ~Ran("evaluate_candidates") => Measured = <<>> /\ DOMAIN Measured = {}
  BY DEF Measured
<1>. QED
  BY <1>1, <1>2 DEF ComputedInv, ScoresAgree

\* A tool that none of it is about.
LEMMA ComputedStays ==
  ASSUME ComputedInv,
         \A t \in {"summarize_text", "evaluate_candidates", "model_recommendation"} : results'[t] = results[t]
  PROVE  ComputedInv'
<1>1. /\ results'["summarize_text"] = results["summarize_text"]
      /\ results'["evaluate_candidates"] = results["evaluate_candidates"]
      /\ results'["model_recommendation"] = results["model_recommendation"]
  OBVIOUS
<1>2. Measured' = Measured
  BY <1>1 DEF Measured, Ran
<1>3. (ScoresAgree)' <=> ScoresAgree
  BY <1>1, <1>2 DEF ScoresAgree, Ran
<1>. QED
  BY <1>1, <1>2, <1>3 DEF ComputedInv, Ran

\* What summarize_text returns ...
LEMMA SummaryComputed ==
  ASSUME TypeOK, SummarizeText
  PROVE  LET r == results'["summarize_text"]
             chunks == Chunks(r.chars)
         IN  /\ r.chars \in Nat \ {0}
             /\ \/ DOMAIN r.requests = DOMAIN chunks
                \/ /\ Len(chunks) > 1 /\ DOMAIN r.requests = 1..(Len(chunks) + 1)
                   /\ r.requests[Len(chunks) + 1].chars > MaxChunkChars
             /\ \A k \in DOMAIN chunks : r.requests[k].chars = chunks[k]
             /\ \A k \in DOMAIN r.requests :
                  LET q == r.requests[k]
                  IN  q.chars \in Nat /\ q.words \in Nat \ {0} /\ q = SummaryRequest(q.chars, q.words)
<1>. DEFINE texts == WithText(Selection)
            lengths == TextLengths(texts)
            chars == Joined(lengths, 2)
            chunks == Chunks(chars)
            combined(summaries) == Joined(summaries, 1)
            inputs(n) == ModelInputs(chunks, n)
            requests(size, n) ==
              [k \in DOMAIN inputs(n) |-> SummaryRequest(inputs(n)[k], CeilDiv(inputs(n)[k], size))]
            r(size, n) == [kind |-> "summary", sources |-> Ids(texts), chars |-> chars,
                           requests |-> requests(size, n)]
<1>1. /\ Calls("summarize_text")
      /\ \E size \in WordLengths, summaries \in [DOMAIN chunks -> SummaryLengths] :
           Returns("summarize_text", r(size, combined(summaries)))
  BY DEF SummarizeText
<1>2. texts # <<>>
  <2>1. ~Agent!CorpusMissing("summarize_text") /\ ~Refuses("summarize_text")
    BY <1>1 DEF Calls
  <2>2. ~lost
    BY <2>1, RefusesFacts DEF Agent!ReadsCorpus, Agent!Tools
  <2>. QED
    BY <2>1, <2>2 DEF Refuses, Misfit
<1>3. From(documents, Selection) /\ IsCorpus(documents) /\ From(documents, texts)
  BY SelectionFacts DEF TypeOK
<1>4. \A k \in DOMAIN texts : texts[k].text \in Nat \ {0}
  <2>1. \A k \in DOMAIN texts : texts[k].text \in Nat
    <3>1. \A k \in DOMAIN texts : \E i \in DOMAIN documents : texts[k] = documents[i]
      BY <1>3, FromFacts
    <3>. QED
      BY <1>3, <3>1 DEF IsCorpus
  <2>2. \A k \in DOMAIN texts : texts[k].text > 0
    <3>. DEFINE I == {i \in DOMAIN Selection : Selection[i].text > 0}
    <3>1. texts = Picked(Selection, I) /\ I \in SUBSET DOMAIN Selection
      BY DEF WithText
    <3>2. Selection \in Seq(Entries(documents))
      BY <1>3 DEF From
    <3>. HIDE DEF I, texts
    <3>3. \A k \in DOMAIN texts : \E i \in I : texts[k] = Selection[i]
      BY <3>1, <3>2, PickedRange
    <3>. QED
      BY <3>3 DEF I
  <2>. HIDE DEF texts
  <2>. QED
    BY <2>1, <2>2
<1>5. lengths \in Seq(Nat) /\ lengths # <<>> /\ lengths[1] > 0 /\ 1 \in DOMAIN lengths
  <2>1. texts \in Seq(Entries(documents))
    BY <1>3 DEF From
  <2>. HIDE DEF texts
  <2>2. DOMAIN texts = 1..Len(texts) /\ Len(texts) \in Nat \ {0}
    <3>. DEFINE S == Entries(documents)
    <3>. HIDE DEF S
    <3>1. texts \in Seq(S)
      BY <2>1 DEF S
    <3>. QED
      BY <1>2, <3>1
  <2>3. lengths = [i \in 1..Len(texts) |-> texts[i].text]
    BY <2>2 DEF TextLengths
  <2>. HIDE DEF lengths
  <2>4. lengths \in Seq(Nat) /\ Len(lengths) = Len(texts) /\ lengths[1] > 0 /\ DOMAIN lengths = 1..Len(texts)
    BY <1>4, <2>2, <2>3
  <2>. QED
    BY <2>2, <2>4
<1>6. chars \in Nat \ {0}
  <2>. DEFINE k == 2
  <2>1. k \in Nat
    OBVIOUS
  <2>. HIDE DEF k, lengths
  <2>2. Joined(lengths, k) \in Nat /\ SumOf(lengths) \in Nat /\ SumOf(lengths) <= Joined(lengths, k)
        /\ lengths[1] <= SumOf(lengths) /\ lengths[1] \in Nat
    <3>1. lengths[1] \in Nat
      BY <1>5
    <3>. QED
      BY <1>5, <2>1, <3>1, JoinedFacts
  <2>. QED
    BY <1>5, <2>2 DEF k
<1>. HIDE DEF chars
<1>7. chunks \in Seq(Nat \ {0}) /\ Len(chunks) \in Nat \ {0} /\ DOMAIN chunks = 1..Len(chunks)
  BY <1>6, ChunksFacts
<1>8. PICK size \in WordLengths, summaries \in [DOMAIN chunks -> SummaryLengths] :
        Returns("summarize_text", r(size, combined(summaries)))
  BY <1>1
<1>. DEFINE n == combined(summaries)
<1>9. n \in Nat
  <2>. HIDE DEF chunks
  <2>. DEFINE c == Len(chunks)
              k == 1
  <2>1. c \in Nat \ {0} /\ summaries \in [1..c -> Nat] /\ k \in Nat
    BY <1>7, SizesAssumption
  <2>. HIDE DEF c, k
  <2>2. summaries \in Seq(Nat) /\ summaries # <<>>
    BY <2>1
  <2>3. Joined(summaries, k) \in Nat
    BY <2>1, <2>2, JoinedFacts
  <2>. QED
    BY <2>3 DEF k
<1>10. results'["summarize_text"] = r(size, n)
  BY <1>8 DEF Returns, Stored, TypeOK, Agent!Tools
<1>. HIDE DEF n, combined
<1>. DEFINE given == inputs(n)
<1>11. /\ \/ DOMAIN given = DOMAIN chunks
          \/ /\ Len(chunks) > 1 /\ DOMAIN given = 1..(Len(chunks) + 1)
             /\ given[Len(chunks) + 1] > MaxChunkChars
       /\ \A k \in DOMAIN chunks : given[k] = chunks[k]
       /\ \A k \in DOMAIN given : given[k] \in Nat \ {0}
  <2>. HIDE DEF chunks
  <2>1. CASE Len(chunks) > 1 /\ n > MaxChunkChars
    <3>1. given = Append(chunks, n)
      BY <2>1 DEF ModelInputs
    <3>. HIDE DEF given
    <3>. DEFINE c == Len(chunks)
    <3>4. c \in Nat \ {0} /\ DOMAIN chunks = 1..c /\ \A k \in 1..c : chunks[k] \in Nat \ {0}
      BY <1>7
    <3>2. /\ DOMAIN given = 1..(c + 1) /\ given[c + 1] = n
          /\ \A k \in 1..c : given[k] = chunks[k]
      BY <1>7, <3>1
    <3>3. n \in Nat \ {0}
      BY <1>9, <2>1, ThresholdsAssumption
    <3>. HIDE DEF c
    <3>5. \A k \in 1..(c + 1) : k \in 1..c \/ k = c + 1
      BY <3>4
    <3>6. \A k \in DOMAIN given : given[k] \in Nat \ {0}
      BY <3>2, <3>3, <3>4, <3>5
    <3>. QED
      BY <2>1, <3>2, <3>4, <3>6 DEF c
  <2>2. CASE ~(Len(chunks) > 1 /\ n > MaxChunkChars)
    <3>1. given = chunks
      BY <2>2 DEF ModelInputs
    <3>. HIDE DEF given
    <3>. QED
      BY <1>7, <3>1
  <2>. QED
    BY <2>1, <2>2
<1>. HIDE DEF given
<1>12. /\ r(size, n).chars = chars /\ DOMAIN r(size, n).requests = DOMAIN given
       /\ \A k \in DOMAIN given :
            r(size, n).requests[k] = SummaryRequest(given[k], CeilDiv(given[k], size))
  BY DEF given
<1>. DEFINE s == r(size, n)
<1>. HIDE DEF r
<1>13. ASSUME NEW k \in DOMAIN given
       PROVE  LET q == s.requests[k]
              IN  /\ q.chars = given[k] /\ q.chars \in Nat /\ q.words \in Nat \ {0}
                  /\ q = SummaryRequest(q.chars, q.words)
  <2>. DEFINE words == CeilDiv(given[k], size)
              q == SummaryRequest(given[k], words)
  <2>1. words \in Nat \ {0}
    <3>1. size \in Nat \ {0} /\ given[k] \in Nat \ {0}
      BY <1>11, SizesAssumption
    <3>. QED
      BY <3>1, CeilDivFacts
  <2>2. s.requests[k] = q
    BY <1>12
  <2>. HIDE DEF words
  <2>3. q.chars = given[k] /\ q.words = words
    BY DEF SummaryRequest
  <2>. HIDE DEF s
  <2>. QED
    BY <1>11, <2>1, <2>2, <2>3
<1>14. /\ s.chars = chars /\ DOMAIN s.requests = DOMAIN given
       /\ results'["summarize_text"] = s
  BY <1>10, <1>12
<1>15. Len(chunks) \in Nat /\ DOMAIN chunks \subseteq DOMAIN given
       /\ (DOMAIN given = 1..(Len(chunks) + 1) => Len(chunks) + 1 \in DOMAIN given)
  <2>. HIDE DEF chunks
  <2>. QED
    BY <1>7, <1>11
<1>. HIDE DEF s
<1>16. chunks = Chunks(s.chars)
  BY <1>14
<1>. HIDE DEF chunks
<1>. QED
  BY <1>6, <1>11, <1>13, <1>14, <1>15, <1>16

\* ... what evaluate_candidates returns ...
LEMMA EvaluationComputed ==
  ASSUME TypeOK, EvaluateCandidates
  PROVE  LET m == results'["evaluate_candidates"].per_model
         IN  /\ m = <<>> \/ DOMAIN m = DOMAIN Shortlist
             /\ \A k \in DOMAIN m :
                  /\ m[k].f1_sum \in 0..(m[k].labels * FScale)
                  /\ m[k].hits = m[k].n_examples <=> m[k].f1_sum = m[k].labels * FScale
                  /\ m[k].hits = 0 <=> m[k].f1_sum = 0
<1>. DEFINE m == results'["evaluate_candidates"].per_model
            r(b, p) == [kind |-> "evaluation", skipped |-> b, per_model |-> p]
<1>1. ASSUME NEW b, NEW p, Returns("evaluate_candidates", r(b, p))
      PROVE  m = p
  BY <1>1 DEF Returns, Stored, TypeOK, Agent!Tools
<1>2. CASE ~Measures
  <2>1. Returns("evaluate_candidates", r(TRUE, <<>>))
    BY <1>2 DEF EvaluateCandidates
  <2>2. m = <<>> /\ DOMAIN <<>> = {}
    BY <1>1, <2>1
  <2>. HIDE DEF m
  <2>3. DOMAIN m = {}
    BY <2>2
  <2>. QED
    BY <2>2, <2>3 DEF m
<1>3. CASE Measures
  <2>. DEFINE sample == Sample(documents, profile.label_column)
              truth  == Truth(sample, profile.label_column)
              Good(s) == /\ s.f1_sum \in 0..(s.labels * FScale)
                         /\ s.hits = s.n_examples <=> s.f1_sum = s.labels * FScale
                         /\ s.hits = 0 <=> s.f1_sum = 0
  <2>1. PICK first \in [DOMAIN sample -> Shortlist[1]], second \in [DOMAIN sample -> Shortlist[2]] :
          Returns("evaluate_candidates", r(FALSE, <<Metrics(truth, first), Metrics(truth, second)>>))
    BY <1>3 DEF EvaluateCandidates
  <2>2. PICK n \in Nat : n <= SampleSize /\ DOMAIN sample = 1..n
    BY SampleLength DEF TypeOK
  <2>3. DOMAIN truth = 1..n /\ DOMAIN first = 1..n /\ DOMAIN second = 1..n
    BY <2>1, <2>2 DEF Truth
  <2>. HIDE DEF truth
  <2>4. Good(Metrics(truth, first)) /\ Good(Metrics(truth, second))
    BY <2>2, <2>3, MetricsFacts
  <2>5. m = <<Metrics(truth, first), Metrics(truth, second)>>
    BY <1>1, <2>1
  <2>. HIDE DEF m, Good
  <2>6. DOMAIN m = DOMAIN Shortlist /\ \A k \in DOMAIN m : Good(m[k])
    BY <2>4, <2>5 DEF Shortlist
  <2>. QED
    BY <2>6 DEF m, Good
<1>. QED
  BY <1>2, <1>3

\* The default recommendation is one that no measured candidate beats.
LEMMA DefaultIsBest ==
  ASSUME TypeOK, ComputedInv
  PROVE  \A k \in DOMAIN Measured : Measured[k].hits <= Measured[DefaultRecommendation].hits
<1>1. CASE Measured = <<>>
  BY <1>1
<1>2. CASE Measured # <<>>
  <2>. DEFINE hits == [k \in DOMAIN Measured |-> Measured[k].hits]
              best == {k \in DOMAIN Measured : \A j \in DOMAIN Measured : Measured[j].hits <= Measured[k].hits}
  <2>1. DOMAIN Measured = {1, 2}
    <3>1. DOMAIN Shortlist = {1, 2}
      BY DEF Shortlist
    <3>. QED
      BY <1>2, <3>1 DEF ComputedInv
  <2>2. \A k \in DOMAIN Measured : Measured[k].hits \in Int
    <3>1. Ran("evaluate_candidates") /\ Measured = results["evaluate_candidates"].per_model
      BY <1>2 DEF Measured
    <3>2. \A k \in DOMAIN Measured : Measured[k].hits \in 0..Measured[k].n_examples
      BY <3>1 DEF TypeOK, WellFormed, Agent!Tools
    <3>. QED
      BY <3>2
  <2>3. best # {} /\ best \in SUBSET Nat
    <3>1. Measured[1].hits \in Int /\ Measured[2].hits \in Int
      BY <2>1, <2>2
    <3>2. Measured[1].hits <= Measured[2].hits => 2 \in best
      BY <2>1, <3>1
    <3>3. ~(Measured[1].hits <= Measured[2].hits) => 1 \in best
      BY <2>1, <3>1
    <3>. QED
      BY <2>1, <3>2, <3>3
  <2>4. DefaultRecommendation = Min(best)
    BY <1>2 DEF DefaultRecommendation
  <2>5. Min(best) \in best
    <3>. HIDE DEF best
    <3>. QED
      BY <2>3, MinFacts
  <2>. QED
    BY <2>4, <2>5
<1>. QED
  BY <1>1, <1>2

\* ... and what model_recommendation returns are as computed.
LEMMA RecommendationComputed ==
  ASSUME TypeOK, ComputedInv, ModelRecommendation
  PROVE  LET r == results'["model_recommendation"]
         IN  r.degraded => \A k \in DOMAIN r.measured : r.measured[k].hits <= r.measured[r.recommendation].hits
<1>. DEFINE r(degraded, model) ==
              [kind |-> "recommendation", recommendation |-> model, degraded |-> degraded,
               measured |-> Measured, research_note |-> Agent!ResearchNote]
<1>1. PICK degraded \in BOOLEAN, model \in 0..Len(Shortlist) :
        /\ degraded => model = DefaultRecommendation
        /\ Returns("model_recommendation", r(degraded, model))
  BY DEF ModelRecommendation
<1>2. results'["model_recommendation"] = r(degraded, model)
  BY <1>1 DEF Returns, Stored, TypeOK, Agent!Tools
<1>3. /\ r(degraded, model).degraded = degraded /\ r(degraded, model).measured = Measured
      /\ r(degraded, model).recommendation = model
  OBVIOUS
<1>. HIDE DEF r
<1>. QED
  BY <1>1, <1>2, <1>3, DefaultIsBest

\* What was computed, over one step.
LEMMA ComputedStep ==
  ASSUME TypeOK, ComputedInv, [Next]_vars
  PROVE  ComputedInv'
<1>. DEFINE Same(t) == results'[t] = results[t]
<1>1. CASE SummarizeText
  <2>1. PICK r : Returns("summarize_text", r)
    BY <1>1 DEF SummarizeText
  <2>2. Same("evaluate_candidates") /\ Same("model_recommendation")
    BY <2>1 DEF Returns, Stored, TypeOK, Agent!Tools
  <2>3. Measured' = Measured
    BY <2>2 DEF Measured, Ran
  <2>4. ScoresAgree'
    BY <2>2, <2>3 DEF ComputedInv, ScoresAgree, Ran
  <2>. QED
    BY <1>1, <2>3, <2>4, SummaryComputed DEF ComputedInv
<1>2. CASE EvaluateCandidates
  <2>1. PICK r : Returns("evaluate_candidates", r)
    BY <1>2 DEF EvaluateCandidates
  <2>2. Same("summarize_text") /\ Same("model_recommendation")
    BY <2>1 DEF Returns, Stored, TypeOK, Agent!Tools
  <2>3. Measured' = <<>> \/ Measured' = results'["evaluate_candidates"].per_model
    BY DEF Measured
  <2>4. DOMAIN <<>> = {}
    OBVIOUS
  <2>5. /\ Measured' = <<>> \/ DOMAIN Measured' = DOMAIN Shortlist
        /\ \A k \in DOMAIN Measured' :
             /\ Measured'[k].f1_sum \in 0..(Measured'[k].labels * FScale)
             /\ Measured'[k].hits = Measured'[k].n_examples <=> Measured'[k].f1_sum = Measured'[k].labels * FScale
             /\ Measured'[k].hits = 0 <=> Measured'[k].f1_sum = 0
    BY <1>2, <2>3, <2>4, EvaluationComputed
  <2>. QED
    BY <2>2, <2>5 DEF ComputedInv, ScoresAgree, Ran
<1>3. CASE ModelRecommendation
  <2>1. PICK r : Returns("model_recommendation", r)
    BY <1>3 DEF ModelRecommendation
  <2>2. Same("summarize_text") /\ Same("evaluate_candidates")
    BY <2>1 DEF Returns, Stored, TypeOK, Agent!Tools
  <2>3. Measured' = Measured
    BY <2>2 DEF Measured, Ran
  <2>4. ScoresAgree'
    BY <1>3, <2>3, RecommendationComputed DEF ComputedInv, ScoresAgree
  <2>. QED
    BY <2>2, <2>3, <2>4 DEF ComputedInv, Ran
<1>4. CASE \/ ProfileDataset \/ SentimentAnalysis \/ TextClassification
           \/ GenerateEmbeddings \/ SemanticSearch \/ FilterDocuments \/ ResearchModels
  <2>1. PICK tool \in Agent!Tools \ {"summarize_text", "evaluate_candidates", "model_recommendation"} :
          \E r : Stored(tool, r)
    BY <1>4 DEF ProfileDataset, SentimentAnalysis, TextClassification, GenerateEmbeddings, SemanticSearch,
                FilterDocuments, ResearchModels, Returns, Agent!Tools
  <2>2. \A t \in {"summarize_text", "evaluate_candidates", "model_recommendation"} : Same(t)
    BY <2>1 DEF Stored, TypeOK, Agent!Tools
  <2>. QED
    BY <2>2, ComputedStays
<1>5. CASE ToolRaisesValueError \/ ToolFails \/ Control \/ UNCHANGED vars
  <2>1. \A t \in {"summarize_text", "evaluate_candidates", "model_recommendation"} : Same(t)
    BY <1>5, DataStays
  <2>. QED
    BY <2>1, ComputedStays
<1>. QED
  BY <1>1, <1>2, <1>3, <1>4, <1>5, StepCases

\* The invariant, of which each part is preserved with the help of the others.
LEMMA Inductive ==
  /\ Init => IInv
  /\ IInv /\ [Next]_vars => IInv'
BY TypeInit, PlanInit, AnalysedInit, ComputedInit, TypeStep, PlanStep, AnalysedStep, ComputedStep DEF IInv

-----------------------------------------------------------------------------
(* Theorems                                                                *)

\* TypeOK: results speak of documents of the corpus, by ids that are distinct unless the
\* file's own index repeats one.
THEOREM TypeCorrect == Spec => []TypeOK
<1>1. TypeOK /\ [Next]_vars => TypeOK'
  BY TypeStep
<1>. QED
  BY <1>1, TypeInit, PTL DEF Spec

\* ImplementsAgentTurn: over real data, a turn is one of AgentTurn.
THEOREM Implements == Spec => ImplementsAgentTurn
<1>1. Init => Agent!Init
  BY DEF Init
<1>2. TypeOK /\ [Next]_vars => [Agent!Next]_(Agent!vars)
  BY StepImplements
<1>. QED
  BY <1>1, <1>2, TypeCorrect, PTL DEF Spec, ImplementsAgentTurn

\* The inductive invariant.
THEOREM Invariance == Spec => []IInv
BY Inductive, PTL DEF Spec

\* SelectionsAreAnalysed: what is judged, found, kept and summarised loses no document.
THEOREM SelectionsAnalysed == Spec => SelectionsAreAnalysed
<1>. DEFINE judged  == results'["sentiment_analysis"]
            found   == results'["semantic_search"]
            kept    == results'["filter_documents"]
            summary == results'["summarize_text"]
            JudgedAll ==
              judged # results["sentiment_analysis"] =>
                /\ Len(judged.per_document) + judged.skipped = Len(Selection)
                /\ OwnTexts => \A i \in DOMAIN Selection :
                      Selection[i].text >= MinTextChars => Selection[i].id \in Ids(judged.per_document)
            Found == found # results["semantic_search"] => found.ids \subseteq Ids(WithText(documents))
            Kept ==
              kept # results["filter_documents"] /\ ~RepeatsIds(file) =>
                /\ Len(Selection') = kept.count
                /\ Ran("sentiment_analysis") => Ids(Selection') = Ids(Negative(results["sentiment_analysis"]))
            Summarised ==
              summary # results["summarize_text"] /\ Ran("filter_documents") =>
                /\ summary.sources \subseteq results["filter_documents"].ids
                /\ OwnTexts => summary.sources = results["filter_documents"].ids
            Same(t) == results'[t] = results[t]
            Others == {"sentiment_analysis", "semantic_search", "filter_documents", "summarize_text"}
<1>0. ASSUME IInv, NEW tool \in Agent!Tools, NEW r, Stored(tool, r)
      PROVE  results'[tool] = r /\ \A t \in Others \ {tool} : Same(t)
  BY <1>0 DEF Stored, IInv, TypeOK, Agent!Tools
<1>1. ASSUME IInv, SentimentAnalysis
      PROVE  JudgedAll /\ \A t \in Others \ {"sentiment_analysis"} : Same(t)
  <2>1. PICK r : Returns("sentiment_analysis", r) /\ IsJudgement(r)
    BY <1>1, JudgementFacts
  <2>2. judged = r /\ \A t \in Others \ {"sentiment_analysis"} : Same(t)
    BY <1>0, <1>1, <2>1 DEF Returns, Agent!Tools
  <2>3. /\ Len(r.per_document) = Len(Judged) /\ Ids(r.per_document) = Ids(Judged)
        /\ r.skipped = Cardinality(Unjudged(Selection, profile.text_column))
    BY <1>1, <2>1, JudgementType DEF IInv, TypeOK, IsJudgement
  <2>4. Len(Judged) + Cardinality(Unjudged(Selection, profile.text_column)) = Len(Selection)
    BY <1>1, JudgedOrNot DEF IInv
  <2>5. ASSUME OwnTexts, NEW i \in DOMAIN Selection, Selection[i].text >= MinTextChars
        PROVE  Selection[i].id \in Ids(Judged)
    <3>1. JudgedText(Selection[i], profile.text_column) >= MinTextChars
      BY <1>1, <2>5, JudgedOwnText DEF IInv
    <3>. QED
      BY <1>1, <3>1, AnalysedIds DEF IInv
  <2>6. Len(judged.per_document) + judged.skipped = Len(Selection)
    BY <2>2, <2>3, <2>4
  <2>. HIDE DEF judged, Same
  <2>. QED
    BY <2>2, <2>3, <2>5, <2>6
<1>2. ASSUME IInv, SemanticSearch
      PROVE  Found /\ \A t \in Others \ {"semantic_search"} : Same(t)
  <2>1. PICK r : Returns("semantic_search", r) /\ IsSearch(r)
    BY <1>2, SearchFacts DEF IInv, TypeOK
  <2>2. found = r /\ \A t \in Others \ {"semantic_search"} : Same(t)
    BY <1>0, <1>2, <2>1 DEF Returns, Agent!Tools
  <2>. HIDE DEF found, Same
  <2>. QED
    BY <2>1, <2>2 DEF IsSearch
<1>3. ASSUME IInv, FilterDocuments
      PROVE  Kept /\ \A t \in Others \ {"filter_documents"} : Same(t)
  <2>1. PICK r : Returns("filter_documents", r) /\ r.kind = "filter" /\ KeepsOf(r)
    BY <1>3, FilterFacts
  <2>2. kept = r /\ file' = file /\ \A t \in Others \ {"filter_documents"} : Same(t)
    BY <1>0, <1>3, <2>1 DEF Returns, Stored, Agent!Tools
  <2>3. Selection' = Picked(documents, {i \in DOMAIN documents : documents[i].id \in r.ids})
    <3>1. documents' = documents
      BY <2>2 DEF documents, corpus
    <3>2. Ran("filter_documents")'
      BY <2>1, <2>2 DEF Ran, NoResult
    <3>. QED
      BY <2>2, <3>1, <3>2 DEF Selection
  <2>4. ASSUME ~RepeatsIds(file)
        PROVE  /\ Len(Selection') = r.count
               /\ Ran("sentiment_analysis") => Ids(Selection') = Ids(Negative(results["sentiment_analysis"]))
    <3>1. r.ids \subseteq Ids(documents) /\ r.count = Cardinality(r.ids)
      <4>1. CASE Ran("sentiment_analysis")
        <5>1. Distinct(results["sentiment_analysis"].per_document)
          BY <1>3, <2>4, <4>1 DEF IInv, AnalysedInv, Distinct
        <5>. QED
          BY <1>3, <2>1, <4>1, <5>1, NegativeFacts DEF IInv, KeepsOf
      <4>2. CASE ~Ran("sentiment_analysis")
        <5>1. Ran("semantic_search") => results["semantic_search"].ids \subseteq Ids(documents)
          BY <1>3 DEF IInv, TypeOK, WellFormed, Agent!Tools
        <5>. QED
          BY <1>3, <2>1, <2>4, <4>2, <5>1 DEF IInv, AnalysedInv, KeepsOf
      <4>. QED
        BY <4>1, <4>2
    <3>2. Ids(Selection') = r.ids /\ Len(Selection') = Cardinality(r.ids)
      BY <1>3, <2>3, <2>4, <3>1, FilteredSelection DEF IInv
    <3>. QED
      BY <2>1, <3>1, <3>2 DEF KeepsOf
  <2>. HIDE DEF kept, Same
  <2>. QED
    BY <2>2, <2>4
<1>4. ASSUME IInv, SummarizeText
      PROVE  Summarised /\ \A t \in Others \ {"summarize_text"} : Same(t)
  <2>1. PICK r : Returns("summarize_text", r) /\ r.sources = Ids(WithText(Selection))
    BY <1>4 DEF SummarizeText
  <2>2. summary = r /\ \A t \in Others \ {"summarize_text"} : Same(t)
    BY <1>0, <1>4, <2>1 DEF Returns, Agent!Tools
  <2>3. ASSUME Ran("filter_documents")
        PROVE  /\ Ids(WithText(Selection)) \subseteq results["filter_documents"].ids
               /\ OwnTexts => results["filter_documents"].ids \subseteq Ids(WithText(Selection))
    BY <1>4, <2>3, SummarisedSelection DEF IInv
  <2>. HIDE DEF summary, Same
  <2>. QED
    BY <2>1, <2>2, <2>3
\* Every other step leaves these results as they are.
<1>5. ASSUME IInv, [Next]_vars, ~SentimentAnalysis, ~SemanticSearch, ~FilterDocuments, ~SummarizeText
      PROVE  \A t \in Others : Same(t)
  <2>1. CASE \/ ProfileDataset \/ TextClassification \/ GenerateEmbeddings
             \/ EvaluateCandidates \/ ResearchModels \/ ModelRecommendation
    <3>1. PICK tool \in Agent!Tools \ Others : \E r : Stored(tool, r)
      BY <2>1 DEF ProfileDataset, TextClassification, GenerateEmbeddings,
                  EvaluateCandidates, ResearchModels, ModelRecommendation, Returns, Agent!Tools
    <3>. HIDE DEF Same
    <3>. QED
      BY <1>0, <1>5, <3>1
  <2>2. CASE ToolRaisesValueError \/ ToolFails \/ Control \/ UNCHANGED vars
    BY <1>5, <2>2, DataStays DEF IInv
  <2>. QED
    BY <1>5, <2>1, <2>2, StepCases
<1>6. IInv /\ [Next]_vars => [JudgedAll /\ Found /\ Kept /\ Summarised]_vars
  <2>1. /\ Same("sentiment_analysis") => JudgedAll
        /\ Same("semantic_search") => Found
        /\ Same("filter_documents") => Kept
        /\ Same("summarize_text") => Summarised
    <3>. HIDE DEF judged, found, kept, summary
    <3>. QED
      BY DEF judged, found, kept, summary
  <2>. HIDE DEF JudgedAll, Found, Kept, Summarised, Same
  <2>. QED
    BY <1>1, <1>2, <1>3, <1>4, <1>5, <2>1
<1>. QED
  BY <1>6, Invariance, PTL DEF Spec, SelectionsAreAnalysed

\* CorpusIsUsable: a file that is accepted can be worked on.
THEOREM CorpusUsable == Spec => []CorpusIsUsable
<1>1. TypeOK => CorpusIsUsable
  <2>. SUFFICES ASSUME TypeOK PROVE CorpusIsUsable
    OBVIOUS
  <2>1. IsCorpus(documents) /\ file \in Accepted
    BY SelectionFacts DEF TypeOK
  <2>2. WithText(documents) # <<>> /\ Len(WithText(documents)) <= Len(documents)
    <3>. DEFINE I == {i \in DOMAIN documents : documents[i].text > 0}
    <3>1. documents \in Seq(Entries(documents)) /\ I \in SUBSET DOMAIN documents /\ I # {}
      BY <2>1 DEF IsCorpus
    <3>2. WithText(documents) = Picked(documents, I)
      BY DEF WithText
    <3>. HIDE DEF I
    <3>3. IsFiniteSet(I)
      BY <3>1, EntriesFacts, FS_Subset
    <3>4. /\ Cardinality(I) \in Nat /\ Cardinality(I) <= Len(documents) /\ Cardinality(I) # 0
          /\ Len(Picked(documents, I)) = Cardinality(I)
      BY <3>1, <3>3, PickedFacts, FS_EmptySet
    <3>. QED
      BY <3>2, <3>4
  <2>3. ~corpus.truncated => SumOf(TextLengths(documents)) >= TextOf[file]
    <3>1. file.format \in {"csv", "txt", "pdf"}
      BY <2>1, FilesAssumption DEF Accepted
    <3>2. corpus.truncated = Truncated(file) /\ documents = Documents(file) /\ TextOf[file] = Text(file)
      BY <2>1 DEF corpus, documents, Corpora, Loaded, TextOf
    <3>. QED
      BY <2>1, <3>1, <3>2, CsvText, TxtText, PdfText
  <2>4. ASSUME Refuses("summarize_text"), ~Ran("filter_documents") PROVE FALSE
    <3>1. Selection = documents
      BY <2>4 DEF Selection
    <3>2. Misfit(WithText(documents))
      BY <2>4, <3>1 DEF Refuses
    <3>3. WithText(documents) \in Seq(Entries(documents)) /\ documents \in Seq(Entries(documents))
      BY <2>1, SelectionFacts DEF From
    <3>4. Len(WithText(documents)) \in Nat \ {0}
      <4>. DEFINE w == WithText(documents)
                  S == Entries(documents)
      <4>. HIDE DEF w, S
      <4>1. w \in Seq(S) /\ w # <<>>
        BY <2>2, <3>3 DEF w, S
      <4>2. Len(w) \in Nat \ {0}
        BY <4>1
      <4>. QED
        BY <4>2 DEF w
    <3>5. Len(documents) = 1 /\ Len(WithText(documents)) # 1
      BY <2>2, <3>2 DEF Misfit, Single
    <3>. QED
      BY <2>2, <3>4, <3>5
  <2>. QED
    BY <2>2, <2>3, <2>4 DEF CorpusIsUsable
<1>. QED
  BY <1>1, TypeCorrect, PTL

\* QuantilesOrdered: the profile's quartiles lie in order, outside the range for two texts.
THEOREM Quantiles == Spec => []QuantilesOrdered
<1>1. TypeOK => QuantilesOrdered
  <2>. SUFFICES ASSUME TypeOK, profile.known PROVE QuantilesOrdered
    BY DEF QuantilesOrdered
  <2>1. PICK f \in Accepted : profile = Profiles[f]
    BY DEF TypeOK, NoProfile
  <2>. DEFINE d == Corpora[f].documents
              lengths == TextLengths(d)
              s == Sorted(lengths)
              n == Len(lengths)
  <2>2. IsCorpus(d)
    BY AcceptedCorpus
  <2>3. lengths \in Seq(Nat) /\ lengths # <<>> /\ n = Len(d) /\ n \in Nat \ {0}
    <3>1. DOMAIN d = 1..Len(d) /\ Len(d) \in Nat \ {0} /\ \A i \in DOMAIN d : d[i].text \in Nat
      <4>. DEFINE S == Entries(d)
      <4>. HIDE DEF S, d
      <4>1. d \in Seq(S) /\ d # <<>>
        BY <2>2 DEF IsCorpus, S
      <4>2. DOMAIN d = 1..Len(d) /\ Len(d) \in Nat \ {0}
        BY <4>1
      <4>. QED
        BY <2>2, <4>2 DEF IsCorpus
    <3>2. lengths = [i \in 1..Len(d) |-> d[i].text]
      BY <3>1 DEF TextLengths
    <3>. HIDE DEF lengths, d
    <3>3. lengths \in Seq(Nat) /\ Len(lengths) = Len(d) /\ 1 \in DOMAIN lengths
      BY <3>1, <3>2
    <3>. QED
      BY <3>1, <3>3
  <2>4. /\ profile.n_documents = n
        /\ profile.lengths = LengthDistribution(d)
    BY <2>1, <2>3 DEF Profiles, Profile
  <2>. HIDE DEF lengths, d
  <2>5. /\ Len(s) = n /\ \A k \in 1..n : s[k] \in Nat
        /\ \A j, k \in 1..n : j <= k => s[j] <= s[k]
    BY <2>3, SortedFacts
  <2>6. LengthDistribution(d) =
          [min |-> 4 * s[1], median |-> Median(s), max |-> 4 * s[n],
           p25 |-> IF n >= 2 THEN Quartile(s, 1) ELSE 4 * s[1],
           p75 |-> IF n >= 2 THEN Quartile(s, 3) ELSE 4 * s[n]]
    BY <2>5 DEF LengthDistribution, lengths
  <2>. HIDE DEF n, s
  <2>7. /\ 4 * s[1] <= Median(s) /\ Median(s) <= 4 * s[n]
        /\ n >= 2 => Quartile(s, 1) <= Median(s) /\ Median(s) <= Quartile(s, 3)
        /\ n = 2 => Quartile(s, 1) <= 4 * s[1] /\ 4 * s[n] <= Quartile(s, 3)
        /\ n > 2 => 4 * s[1] <= Quartile(s, 1) /\ Quartile(s, 3) <= 4 * s[n]
    BY <2>3, <2>5, QuartilesFacts
  <2>8. n = 1 => s[1] = s[n]
    OBVIOUS
  <2>9. s[1] \in Nat /\ s[n] \in Nat
    BY <2>3, <2>5
  <2>10. /\ profile.lengths.min = 4 * s[1] /\ profile.lengths.max = 4 * s[n]
         /\ profile.lengths.median = Median(s)
         /\ profile.lengths.p25 = IF n >= 2 THEN Quartile(s, 1) ELSE 4 * s[1]
         /\ profile.lengths.p75 = IF n >= 2 THEN Quartile(s, 3) ELSE 4 * s[n]
    BY <2>4, <2>6
  <2>11. CASE n = 1
    BY <2>4, <2>7, <2>8, <2>9, <2>10, <2>11 DEF QuantilesOrdered
  <2>12. CASE n >= 2
    <3>1. n = 2 \/ n > 2
      BY <2>3, <2>12
    <3>. QED
      BY <2>4, <2>7, <2>10, <2>12, <3>1 DEF QuantilesOrdered
  <2>. QED
    BY <2>3, <2>11, <2>12
<1>. QED
  BY <1>1, TypeCorrect, PTL

\* ChunkLengthsFit: the requests that fit the model are the whole text, and all can be satisfied.
THEOREM ChunksFit == Spec => []ChunkLengthsFit
<1>1. IInv => ChunkLengthsFit
  <2>. SUFFICES ASSUME IInv, Ran("summarize_text") PROVE ChunkLengthsFit
    BY DEF ChunkLengthsFit
  <2>. DEFINE r == results["summarize_text"]
              s == r.requests
              chunks == Chunks(r.chars)
              fitting == {k \in DOMAIN s : s[k].chars \in 1..MaxChunkChars}
  <2>1. /\ r.chars \in Nat \ {0}
        /\ \/ DOMAIN s = DOMAIN chunks
           \/ /\ Len(chunks) > 1 /\ DOMAIN s = 1..(Len(chunks) + 1)
              /\ s[Len(chunks) + 1].chars > MaxChunkChars
        /\ \A k \in DOMAIN chunks : s[k].chars = chunks[k]
        /\ \A k \in DOMAIN s : LET q == s[k]
                               IN  q.chars \in Nat /\ q.words \in Nat \ {0} /\ q = SummaryRequest(q.chars, q.words)
    BY DEF IInv, ComputedInv
  <2>2. /\ Len(chunks) \in Nat \ {0} /\ DOMAIN chunks = 1..Len(chunks)
        /\ \A k \in DOMAIN chunks : chunks[k] \in 1..MaxChunkChars
        /\ SumOf(chunks) = r.chars
    BY <2>1, ChunksFacts
  <2>3. SumOf(chunks) = SumOver(chunks, DOMAIN chunks)
    BY DEF SumOf
  <2>. HIDE DEF s, chunks
  <2>4. MaxChunkChars \in Nat
    BY ThresholdsAssumption
  <2>5. /\ fitting = DOMAIN chunks
        /\ \A k \in DOMAIN s \ fitting : k = Len(s) /\ k > 2 /\ s[k].chars > MaxChunkChars
    <3>1. CASE DOMAIN s = DOMAIN chunks
      BY <2>1, <2>2, <3>1
    <3>2. CASE /\ Len(chunks) > 1 /\ DOMAIN s = 1..(Len(chunks) + 1)
               /\ s[Len(chunks) + 1].chars > MaxChunkChars
      <4>. DEFINE n == Len(chunks)
      <4>1. n \in Nat \ {0} /\ n > 1 /\ DOMAIN s = 1..(n + 1) /\ DOMAIN chunks = 1..n
        BY <2>2, <3>2
      <4>5. n + 1 \in 1..(n + 1)
        BY <4>1
      <4>2. n + 1 \in DOMAIN s /\ s[n + 1].chars > MaxChunkChars /\ s[n + 1].chars \in Nat
        <5>1. n + 1 \in DOMAIN s
          BY <4>1, <4>5
        <5>2. s[n + 1].chars \in Nat
          BY <2>1, <5>1
        <5>. QED
          BY <3>2, <5>1, <5>2
      <4>. HIDE DEF n
      <4>3. \A k \in 1..n : s[k].chars \in 1..MaxChunkChars
        BY <2>1, <2>2, <4>1
      <4>4. Len(s) = n + 1
        BY <4>1
      <4>. QED
        BY <2>4, <4>1, <4>2, <4>3, <4>4
    <3>. QED
      BY <2>1, <3>1, <3>2
  <2>6. SumOver([k \in fitting |-> s[k].chars], fitting) = r.chars
    <3>. DEFINE g == [k \in fitting |-> s[k].chars]
    <3>1. IsFiniteSet(DOMAIN chunks)
      BY <2>2, FS_Interval
    <3>2. \A k \in DOMAIN chunks : chunks[k] \in Nat /\ g[k] = chunks[k]
      BY <2>1, <2>2, <2>5
    <3>. HIDE DEF g
    <3>3. SumOver(g, DOMAIN chunks) = SumOver(chunks, DOMAIN chunks)
      BY <3>1, <3>2, SumSame
    <3>. QED
      BY <2>2, <2>3, <2>5, <3>3 DEF g
  <2>7. ASSUME NEW k \in DOMAIN s
        PROVE  LET q == s[k]
               IN  /\ 5 <= q.min_length /\ 2 * q.min_length <= q.max_length
                   /\ q.max_length \in 10..130
                   /\ q.min_length > q.words => q.words < 5
    <3>. DEFINE chars == s[k].chars
                words == s[k].words
    <3>1. words \in Nat \ {0} /\ s[k] = SummaryRequest(chars, words)
      BY <2>1
    <3>2. s[k].words = words
      OBVIOUS
    <3>. HIDE DEF chars, words
    <3>. QED
      BY <3>1, <3>2, RequestFacts
  <2>. QED
    BY <2>5, <2>6, <2>7 DEF ChunkLengthsFit, s
<1>. QED
  BY <1>1, Invariance, PTL

\* ScoresAgree: accuracy and macro-F1 agree at both ends, and the rule recommends the most accurate.
THEOREM Scores == Spec => []ScoresAgree
<1>1. IInv => ScoresAgree
  BY DEF IInv, ComputedInv
<1>. QED
  BY <1>1, Invariance, PTL
=============================================================================
