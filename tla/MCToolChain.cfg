\* The character limits are the code's; rows, pages and examples are scaled down so that
\* files on both sides of each limit have a handful of documents.
CONSTANTS
  MaxRows = 4
  MaxPdfPages = 3
  SingleDocMaxChars = 5000
  RecordPercent = 80
  LabelColumns = {"label", "rating", "category"}
  MaxLabelCardinality = 20
  MinTextChars = 3
  MaxChunkChars = 3000
  MinLabeledExamples = 2
  SampleSize = 3
  FScale = 60
  Files <- MCFiles
  EarlierFiles <- MCEarlierFiles
  WordLengths = {1, 6, 3000}
  SummaryLengths = {40, 600}
  TopK = 2
  Plans <- MCPlans
  MaxToolIterations = 6
  RecursionLimit = 9
SPECIFICATION Spec
INVARIANTS TypeOK CorpusIsUsable QuantilesOrdered ChunkLengthsFit ScoresAgree
PROPERTIES ImplementsAgentTurn SelectionsAreAnalysed
