------------------------------ MODULE Ingestion ------------------------------
(***************************************************************************)
(* The loaders of ingestion/: what documents an uploaded CSV, TXT or PDF   *)
(* file becomes, and which files are rejected.                             *)
(*                                                                         *)
(* A text is abstracted to the number of its characters, 0 when there is   *)
(* nothing but white space in it; a cell of a CSV also keeps the word it   *)
(* holds when that may be a label or a column's name.  Columns of numbers  *)
(* only matter to the search for the text column, which skips them.        *)
(***************************************************************************)
EXTENDS ListComprehension

CONSTANTS
  MaxRows,            \* settings.max_rows
  MaxPdfPages,        \* settings.max_pdf_pages
  SingleDocMaxChars,  \* _SINGLE_DOC_MAX_CHARS of pdf_loader
  RecordPercent       \* _RECORD_LINE_FRACTION_THRESHOLD of txt_loader, in percent

ASSUME LimitsAssumption ==
  /\ MaxRows \in Nat \ {0} /\ MaxPdfPages \in Nat \ {0}
  /\ SingleDocMaxChars \in Nat /\ RecordPercent \in 1..100

NoColumn == "no_column"
NoWord   == "no_word"
Cell(n)      == [chars |-> n, word |-> NoWord]
LabelCell(w) == [chars |-> 8, word |-> w]      \* "positive", "negative"
Blank        == Cell(0)                        \* NaN

NoNumber == -1  \* a label of a row that int() cannot convert; other labels are numbers

Shorter(m, n) == IF m < n THEN m ELSE n
SumOf(s) == SumOver(s, DOMAIN s)
Texts(s) == Picked(s, {i \in DOMAIN s : s[i] > 0})

\* "sep".join(texts), with a separator of k characters.
Joined(s, k) == SumOf(s) + k * (Len(s) - 1)

-----------------------------------------------------------------------------
(* CSV                                                                     *)

Candidates(f) == {k \in DOMAIN f.columns : f.columns[k] \notin f.numeric}

Filled(f, c) == {i \in DOMAIN f.rows : f.rows[i][c] # Blank}
Chars(f, c)  == SumOver([i \in Filled(f, c) |-> f.rows[i][c].chars], Filled(f, c))

LongerOnAverage(f, c, d) ==
  Chars(f, c) * Cardinality(Filled(f, d)) > Chars(f, d) * Cardinality(Filled(f, c))

\* The first of the columns whose values are longest on average; an empty column has average 0.
DetectedTextColumn(f) ==
  f.columns[Min({k \in Candidates(f) :
     /\ Filled(f, f.columns[k]) = {} =>
          \A j \in Candidates(f) : Filled(f, f.columns[j]) = {}
     /\ ~ \E j \in Candidates(f) : LongerOnAverage(f, f.columns[j], f.columns[k])})]

OtherColumns(f) == {f.columns[k] : k \in DOMAIN f.columns} \ {DetectedTextColumn(f)}

\* A column of this name replaces the metadata key that names the text column.
KeyReplaced(f) == f.format = "csv" /\ "text_column" \in OtherColumns(f)
NamedIn(cell) == IF cell = Blank THEN NoColumn ELSE cell.word

CsvRows(f) == 1..Shorter(Len(f.rows), MaxRows)

\* A document is named after its row's label in the index: its position, or what the file
\* has as an unnamed first column when its rows are one field longer than the header.
CsvDocuments(f) ==
  [i \in CsvRows(f) |->
     [id |-> f.index[i], text |-> f.rows[i][DetectedTextColumn(f)].chars,
      text_column |-> IF KeyReplaced(f) THEN NamedIn(f.rows[i]["text_column"])
                      ELSE DetectedTextColumn(f),
      metadata |-> [c \in OtherColumns(f) |-> f.rows[i][c]]]]

\* int(idx) of a label that is no number: an exception that is not an IngestionError.
Unnumbered(f) == f.format = "csv" /\ \E i \in CsvRows(f) : f.index[i] = NoNumber

-----------------------------------------------------------------------------
(* TXT and PDF: documents without a text column and without other columns. *)

Document(id, text) ==
  [id |-> id, text |-> text, text_column |-> NoColumn, metadata |-> [c \in {} |-> Blank]]

NonBlankLines(f) == Picked(f.lines, {i \in DOMAIN f.lines : f.lines[i].chars > 0})

\* Nearly every line ends like a sentence: one record per line.
MultiRecord(f) ==
  LET lines == NonBlankLines(f)
      record_like == {i \in DOMAIN lines : lines[i].ends}
  IN  Len(lines) > 1 /\ 100 * Cardinality(record_like) >= RecordPercent * Len(lines)

LineLengths(lines) == [i \in DOMAIN lines |-> lines[i].chars]

\* text.strip(): from the first line that is not blank to the last one.
Stripped(f) ==
  LET non_blank == {i \in DOMAIN f.lines : f.lines[i].chars > 0}
  IN  SubSeq(f.lines, Min(non_blank), Max(non_blank))

TxtRecords(f) ==
  IF MultiRecord(f) THEN LineLengths(NonBlankLines(f)) ELSE <<Joined(LineLengths(Stripped(f)), 1)>>

TxtDocuments(f) ==
  [i \in 1..Shorter(Len(TxtRecords(f)), MaxRows) |-> Document(i - 1, TxtRecords(f)[i])]

PdfPages(f) == SubSeq(f.pages, 1, Shorter(Len(f.pages), MaxPdfPages))

\* One document, or one per page with text once they are long together; blank pages keep
\* their number.
PdfDocuments(f) ==
  LET pages == PdfPages(f)
      documents == [i \in DOMAIN pages |-> Document(i - 1, pages[i])]
  IN  IF SumOf(pages) <= SingleDocMaxChars THEN <<Document(0, Joined(Texts(pages), 2))>>
      ELSE Picked(documents, {i \in DOMAIN pages : pages[i] > 0})

-----------------------------------------------------------------------------

\* sniff_and_validate, and what the parser cannot read: an IngestionError before any document.
Unreadable(f) == f.content # "well_formed"

\* Mutant of Textless: a CSV is checked for text before it is cut to the row limit.
TextlessFile(f) ==
  CASE f.format = "csv" -> f.rows = <<>> \/ Candidates(f) = {} \/ Chars(f, DetectedTextColumn(f)) = 0
    [] f.format = "txt" -> NonBlankLines(f) = <<>>
    [] f.format = "pdf" -> Texts(PdfPages(f)) = <<>>

\* The loader's own IngestionErrors.
Textless(f) ==
  CASE f.format = "csv" -> \/ f.rows = <<>> \/ Candidates(f) = {}
                           \/ \A i \in CsvRows(f) : CsvDocuments(f)[i].text = 0
    [] f.format = "txt" -> NonBlankLines(f) = <<>>
    [] f.format = "pdf" -> Texts(PdfPages(f)) = <<>>

Rejected(f) == Unreadable(f) \/ Textless(f)

\* Corpus.documents of a file that is not rejected, and its truncated flag.
Documents(f) ==
  CASE f.format = "csv" -> CsvDocuments(f)
    [] f.format = "txt" -> TxtDocuments(f)
    [] f.format = "pdf" -> PdfDocuments(f)

Truncated(f) ==
  CASE f.format = "csv" -> Len(f.rows) > MaxRows
    [] f.format = "txt" -> Len(TxtRecords(f)) > MaxRows
    [] f.format = "pdf" -> Len(f.pages) > MaxPdfPages
=============================================================================
