------------------------------- MODULE ToolData -------------------------------
(***************************************************************************)
(* What the tools of tools/ compute from a corpus, as operators: profile,  *)
(* choice of text, chunks and summary lengths, metrics.  A corpus is a     *)
(* record of its documents (see Ingestion), the columns of its file and    *)
(* the truncated flag; fractions are kept exact by a scale.                *)
(***************************************************************************)
EXTENDS Ingestion

CONSTANTS
  LabelColumns,         \* _LABEL_COLUMN_CANDIDATES
  MaxLabelCardinality,  \* _MAX_LABEL_CARDINALITY
  MinTextChars,         \* _MIN_TEXT_CHARS of sentiment_analysis
  MaxChunkChars,        \* _MAX_CHUNK_CHARS of summarize_text
  MinLabeledExamples,   \* _MIN_LABELED_EXAMPLES of evaluate_candidates
  SampleSize,           \* _DEFAULT_SAMPLE_SIZE
  FScale                \* the denominator of the F1 scores

ASSUME ThresholdsAssumption ==
  /\ MaxLabelCardinality \in Nat /\ MinTextChars \in Nat \ {0}
  /\ MaxChunkChars \in Nat \ {0}
  /\ MinLabeledExamples \in Nat \ {0} /\ SampleSize \in Nat \ {0}

\* Exact for the samples of an instance: every 2 * tp / (predicted + true) is a multiple of 1 / FScale.
ASSUME FScaleAssumption == FScale \in Nat \ {0} /\ \A k \in 1..(2 * SampleSize) : FScale % k = 0

Ids(documents) == {documents[i].id : i \in DOMAIN documents}
WithText(documents) == Picked(documents, {i \in DOMAIN documents : documents[i].text > 0})
TextLengths(documents) == [i \in DOMAIN documents |-> documents[i].text]

-----------------------------------------------------------------------------
(* profile_dataset                                                         *)

\* Mutant of Sorted: the lengths in the order of the documents.
InDocumentOrder(s) == s

\* sorted(s): the k-th entry has fewer than k entries below it and at least k up to it.
Sorted(s) ==
  [k \in DOMAIN s |->
     CHOOSE v \in Entries(s) :
       /\ Cardinality({i \in DOMAIN s : s[i] < v}) < k
       /\ Cardinality({i \in DOMAIN s : s[i] <= v}) >= k]

\* statistics.quantiles(s, n=4)[i - 1] times 4, by its default "exclusive" method.
Quartile(s, i) ==
  LET m == i * (Len(s) + 1)
      j == Max({1, Min({m \div 4, Len(s) - 1})})
      delta == m - 4 * j
  IN  s[j] * (4 - delta) + s[j + 1] * delta

\* statistics.median(s) times 4.
Median(s) == 2 * (s[(Len(s) + 1) \div 2] + s[Len(s) \div 2 + 1])

LengthDistribution(documents) ==
  LET s == Sorted(TextLengths(documents))
      first == 4 * s[1]
      last  == 4 * s[Len(s)]
  IN  [min |-> first, median |-> Median(s), max |-> last,
       p25 |-> IF Len(s) >= 2 THEN Quartile(s, 1) ELSE first,
       p75 |-> IF Len(s) >= 2 THEN Quartile(s, 3) ELSE last]

\* doc.metadata.get(column)
Value(d, column) == IF column \in DOMAIN d.metadata THEN d.metadata[column] ELSE Blank
Labelled(documents, column) ==
  Picked(documents, {i \in DOMAIN documents : Value(documents[i], column) # Blank})

\* _detect_labels looks at one column only, the first that is named like labels ...
NamedLikeLabels(c) ==
  {k \in DOMAIN c.columns : c.columns[k] \in LabelColumns \cap DOMAIN c.documents[1].metadata}

\* ... and its values must repeat.
LooksCategorical(documents, column) ==
  LET labelled == Labelled(documents, column)
      unique == {Value(labelled[i], column) : i \in DOMAIN labelled}
  IN  Cardinality(unique) <= MaxLabelCardinality /\ Cardinality(unique) < Len(labelled)

LabelColumn(c) ==
  IF NamedLikeLabels(c) = {} THEN NoColumn
  ELSE LET column == c.columns[Min(NamedLikeLabels(c))]
       IN  IF LooksCategorical(c.documents, column) THEN column ELSE NoColumn

\* The profile's text_column must be a string or None, and a column of that name holds numbers.
Unprofilable(f) ==
  /\ f.format = "csv" /\ "text_column" \in Entries(f.columns) \cap f.numeric
  /\ f.rows[1]["text_column"] # Blank

NoProfile == [known |-> FALSE, text_column |-> NoColumn, label_column |-> NoColumn]

\* profile_dataset(corpus_ref): the agent never gives a column_hint.
Profile(c) ==
  [known |-> TRUE, text_column |-> c.documents[1].text_column, label_column |-> LabelColumn(c),
   n_documents |-> Len(c.documents), lengths |-> LengthDistribution(c.documents)]

-----------------------------------------------------------------------------
(* sentiment_analysis                                                      *)

\* Mutant of JudgedText: the profile's column is always looked up in the metadata.
FromMetadata(d, column) ==
  IF column \in {NoColumn, "text"} THEN d.text ELSE Value(d, column).chars

\* _resolve_text: the document's own text, or another column's, where None reads "None".
JudgedText(d, column) ==
  CASE column \in {NoColumn, "text", d.text_column} -> d.text
    [] column \notin {NoColumn, "text", d.text_column} ->
         IF column \in DOMAIN d.metadata /\ Value(d, column) = Blank THEN 4
         ELSE Value(d, column).chars

Usable(documents, column) ==
  Picked(documents, {i \in DOMAIN documents : JudgedText(documents[i], column) >= MinTextChars})

\* skipped_count counts the documents with less text than that.
Unjudged(documents, column) ==
  {i \in DOMAIN documents : JudgedText(documents[i], column) < MinTextChars}

-----------------------------------------------------------------------------
(* summarize_text                                                          *)

CeilDiv(n, k) == (n + k - 1) \div k

\* _chunk_text: the length of each chunk.
Chunks(n) ==
  [k \in 1..CeilDiv(n, MaxChunkChars) |-> Shorter(MaxChunkChars, n - (k - 1) * MaxChunkChars)]

\* The texts the model is given: every chunk and then, when there are several and their
\* summaries joined are too long, those in one piece.
ModelInputs(chunks, combined) ==
  IF Len(chunks) > 1 /\ combined > MaxChunkChars THEN Append(chunks, combined) ELSE chunks

\* Mutant of MaxLength: the lower clamp forgotten.
MaxLengthUnclamped(words) == Shorter(130, words \div 2)

\* max(10, min(130, words // 2 or 10)) and max(5, min(30, max_length // 2)).
MaxLength(words) == Max({10, Shorter(130, IF words \div 2 = 0 THEN 10 ELSE words \div 2)})
MinLength(words) == Max({5, Shorter(30, MaxLength(words) \div 2)})

\* _summarize_chunk: the whole text is handed over, however long (truncation=True).
SummaryRequest(chars, words) ==
  [chars |-> chars, words |-> words, max_length |-> MaxLength(words), min_length |-> MinLength(words)]

-----------------------------------------------------------------------------
(* evaluate_candidates                                                     *)

LabelSynonyms ==
  [positive |-> "positive", pos |-> "positive", negative |-> "negative", neg |-> "negative",
   neutral |-> "neutral", neu |-> "neutral"]

Normalized(word) == IF word \in DOMAIN LabelSynonyms THEN LabelSynonyms[word] ELSE word

\* The first SampleSize documents that have text and a label.
Sample(documents, column) ==
  LET labelled == Labelled(WithText(documents), column)
  IN  SubSeq(labelled, 1, Shorter(Len(labelled), SampleSize))

Truth(sample, column) == [i \in DOMAIN sample |-> Normalized(Value(sample[i], column).word)]

Hits(truth, predicted) == Cardinality({i \in DOMAIN truth : truth[i] = predicted[i]})

Occurrences(labels, l) == Cardinality({i \in DOMAIN labels : labels[i] = l})
TruePositives(truth, predicted, l) ==
  Cardinality({i \in DOMAIN truth : truth[i] = l /\ predicted[i] = l})

\* Mutant of F1: 2 * precision * recall / precision + recall, without the parentheses.
F1Unparenthesized(truth, predicted, l) ==
  IF Occurrences(predicted, l) = 0 \/ Occurrences(truth, l) = 0 THEN 0
  ELSE (3 * TruePositives(truth, predicted, l) * FScale) \div Occurrences(truth, l)

\* The harmonic mean of precision tp / predicted and recall tp / true.
F1(truth, predicted, l) ==
  (2 * TruePositives(truth, predicted, l) * FScale)
    \div (Occurrences(truth, l) + Occurrences(predicted, l))

LabelsOf(truth, predicted) == Entries(truth) \cup Entries(predicted)

\* Accuracy as hits of n_examples, macro-F1 as a sum over the number of labels.
Metrics(truth, predicted) ==
  LET labels == LabelsOf(truth, predicted)
  IN  [n_examples |-> Len(truth), hits |-> Hits(truth, predicted), labels |-> Cardinality(labels),
       f1_sum |-> SumOver([l \in labels |-> F1(truth, predicted, l)], labels)]
=============================================================================
