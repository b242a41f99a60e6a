------------------------------ MODULE ToolChain ------------------------------
(***************************************************************************)
(* The tools of tools/ at work on an ingested file, inside a turn of the   *)
(* agent: AgentTurn with the data it abstracts from.  The documents come   *)
(* from the loaders (Ingestion), the results hold what the tools compute   *)
(* from them (ToolData), and each tool is an action of its own.  Planning, *)
(* routing and answering are AgentTurn's actions; the models, the LLM and  *)
(* the web search are external: their verdicts are choices.                *)
(***************************************************************************)
EXTENDS ToolData

CONSTANTS
  Files,              \* the files a user uploads
  EarlierFiles,       \* files the session had before: the profile may be one of theirs
  WordLengths,        \* characters per word of a text, to count the words of a chunk
  SummaryLengths,     \* characters of the summaries that the model writes
  TopK,               \* top_k of semantic_search
  Plans, MaxToolIterations, RecursionLimit   \* see AgentTurn

\* The files whose upload succeeds: they are loaded, and profiled.
Accepted == {f \in Files : ~Rejected(f) /\ ~Unnumbered(f) /\ ~Unprofilable(f)}

\* What the parsers return: rows, lines or pages.
ASSUME FilesAssumption ==
  /\ EarlierFiles \subseteq Accepted
  /\ \A f \in Files :
       /\ f.format \in {"csv", "txt", "pdf"}
       /\ f.format = "csv" => /\ f.columns \in Seq(STRING)
                              /\ f.rows \in Seq([Entries(f.columns) -> [chars : Nat, word : STRING]])
                              /\ f.index \in [DOMAIN f.rows -> Nat \cup {NoNumber}]
       /\ f.format = "txt" => f.lines \in Seq([chars : Nat, ends : BOOLEAN])
       /\ f.format = "pdf" => f.pages \in Seq(Nat)
ASSUME SizesAssumption ==
  WordLengths \subseteq Nat \ {0} /\ SummaryLengths \subseteq Nat /\ TopK \in Nat \ {0}

VARIABLES
  file,      \* the uploaded file behind corpus_ref
  lost,      \* corpus_store no longer holds its corpus: the process was restarted
  profile,   \* AgentState.profile
  results,   \* AgentState.tool_results
  node, query, indexed, plan, step_index, error, final_answer, steps, requested  \* see AgentTurn

vars == <<file, lost, profile, results, node, query, indexed, plan, step_index, error,
          final_answer, steps, requested>>

NoResult == [kind |-> "not_run"]

-----------------------------------------------------------------------------
(* The data, and what AgentTurn sees of it                                 *)

\* load_csv, load_txt, load_pdf: the corpus of a file they accept.
Loaded(f) ==
  [documents |-> Documents(f), truncated |-> Truncated(f),
   columns |-> IF f.format = "csv" THEN f.columns ELSE <<>>]

Corpora  == [f \in Accepted |-> Loaded(f)]
Profiles == [f \in Accepted |-> Profile(Corpora[f])]

corpus    == Corpora[file]
documents == corpus.documents

HasLabels(p) == p.label_column # NoColumn

KindOf(p) == IF ~p.known THEN "none" ELSE IF HasLabels(p) THEN "labelled" ELSE "unlabelled"

CorpusKind == IF lost THEN "missing" ELSE KindOf(Profiles[file])

Outcome(r) ==
  CASE r.kind = "filter"         -> IF r.ids = {} THEN "kept_none" ELSE "kept_some"
    [] r.kind = "research"       -> IF r.found THEN "found" ELSE "not_found"
    [] r.kind = "evaluation"     -> IF r.skipped THEN "skipped" ELSE "measured"
    [] r.kind = "recommendation" -> r.research_note
    [] r.kind = "not_run"        -> "not_run"
    [] OTHER                     -> "done"

Agent == INSTANCE AgentTurn WITH
           corpus <- CorpusKind, profile <- KindOf(profile),
           tool_results <- [t \in DOMAIN results |-> Outcome(results[t])]

ASSUME PlansAssumption == Plans \subseteq Seq(Agent!Tools)

-----------------------------------------------------------------------------

Init ==
  /\ file \in Accepted /\ lost \in BOOLEAN
  /\ profile \in {NoProfile, Profiles[file]} \cup {Profiles[f] : f \in EarlierFiles}
  /\ results = [t \in Agent!Tools |-> NoResult]
  /\ Agent!Init

Ran(tool) == results[tool] # NoResult

\* Mutant of Selection: an empty list of ids taken for no selection at all.
FalsySelection ==
  IF ~Ran("filter_documents") \/ results["filter_documents"].ids = {} THEN documents
  ELSE Picked(documents, {i \in DOMAIN documents : documents[i].id \in results["filter_documents"].ids})

\* _select_documents with the ids of filter_documents, or without ids.
Selection ==
  IF ~Ran("filter_documents") THEN documents
  ELSE Picked(documents, {i \in DOMAIN documents : documents[i].id \in results["filter_documents"].ids})

\* The text_column that _build_kwargs takes from the profile.
Judged == Usable(Selection, profile.text_column)

\* mode="single" for a corpus of one document, "batch_digest" otherwise or after a filter.
Single == ~Ran("filter_documents") /\ Len(documents) = 1
Misfit(texts) == texts = <<>> \/ (Single /\ Len(texts) # 1)

\* The labelled documents of which evaluate_candidates takes its sample.
TooFewLabelled ==
  Len(Labelled(WithText(documents), profile.label_column)) < MinLabeledExamples
Measures == HasLabels(profile) /\ ~TooFewLabelled

\* The ValueErrors of _build_kwargs, and those of the tools' own checks.
Refuses(tool) ==
  \/ tool = "named_entity_recognition"
  \/ tool = "text_classification" /\ query # "names_labels" /\ ~HasLabels(profile)
  \/ tool = "filter_documents" /\ ~Ran("sentiment_analysis") /\ ~Ran("semantic_search")
  \/ tool = "semantic_search" /\ ~lost /\ ~indexed
  \/ tool = "generate_embeddings" /\ ~lost /\ ~indexed /\ WithText(documents) = <<>>
  \/ tool = "summarize_text" /\ ~lost /\ Misfit(WithText(Selection))

\* The tools that get as far as calling a model or reading an index, which may raise anything.
Infers(tool) ==
  /\ ~lost /\ ~Refuses(tool)
  /\ \/ tool = "sentiment_analysis" /\ Judged # <<>>
     \/ tool = "text_classification" /\ WithText(Selection) # <<>>
     \/ tool \in {"summarize_text", "generate_embeddings", "semantic_search"}
     \/ tool = "evaluate_candidates" /\ Measures

-----------------------------------------------------------------------------
(* execute_tool                                                            *)

Runs(tool) == Agent!Superstep("execute_tool") /\ step_index < Len(plan) /\ Agent!NextTool = tool

\* The tool is called: its arguments can be built, and it finds the corpus if it reads one.
Calls(tool) == Runs(tool) /\ ~Refuses(tool) /\ ~Agent!CorpusMissing(tool)

Stored(tool, result) ==
  /\ results' = [results EXCEPT ![tool] = result]
  /\ step_index' = step_index + 1
  /\ node' = Agent!RouteNext(error, step_index + 1, plan)
  /\ UNCHANGED <<file, lost, query, plan, error, final_answer, requested>>

Returns(tool, result) == Stored(tool, result) /\ UNCHANGED <<profile, indexed>>

ProfileDataset ==
  /\ Calls("profile_dataset") /\ Stored("profile_dataset", [kind |-> "profile"])
  /\ profile' = Profiles[file] /\ UNCHANGED indexed

\* Every text judged gets one of the model's two labels; nothing is judged without a text.
SentimentAnalysis ==
  /\ Calls("sentiment_analysis")
  /\ \E labels \in [DOMAIN Judged -> {"positive", "negative"}] :
       Returns("sentiment_analysis",
               [kind |-> "sentiment",
                per_document |-> [k \in DOMAIN Judged |-> [id |-> Judged[k].id, label |-> labels[k]]],
                skipped |-> Cardinality(Unjudged(Selection, profile.text_column))])

TextClassification ==
  /\ Calls("text_classification")
  /\ Returns("text_classification", [kind |-> "classification", ids |-> Ids(WithText(Selection))])

\* The texts, joined by a blank line and cut into chunks; the summaries of several chunks
\* are joined and, when they are too long together, summarised once more.
SummarizeText ==
  /\ Calls("summarize_text")
  /\ LET texts  == WithText(Selection)
         chars  == Joined(TextLengths(texts), 2)
         chunks == Chunks(chars)
     IN  \E size \in WordLengths, summaries \in [DOMAIN chunks -> SummaryLengths] :
           LET inputs == ModelInputs(chunks, Joined(summaries, 1))
           IN  Returns("summarize_text",
                 [kind |-> "summary", sources |-> Ids(texts), chars |-> chars,
                  requests |-> [k \in DOMAIN inputs |->
                                  SummaryRequest(inputs[k], CeilDiv(inputs[k], size))]])

GenerateEmbeddings ==
  /\ Calls("generate_embeddings")
  /\ Stored("generate_embeddings", [kind |-> "embeddings", cached |-> indexed])
  /\ indexed' = TRUE /\ UNCHANGED profile

\* Mutant of IndexIds: positions in the index instead of the ids of its documents.
IndexPositions == [k \in DOMAIN WithText(documents) |-> k - 1]

\* ids.json: the documents that were embedded, those with text.
IndexIds == [k \in DOMAIN WithText(documents) |-> WithText(documents)[k].id]

\* The best top_k positions of the index, whichever they are.
SemanticSearch ==
  /\ Calls("semantic_search")
  /\ \E hits \in SUBSET DOMAIN IndexIds :
       /\ Cardinality(hits) = Shorter(TopK, Len(IndexIds))
       /\ Returns("semantic_search",
                  [kind |-> "search", ids |-> {IndexIds[k] : k \in hits}, count |-> Cardinality(hits)])

\* The items of per_document with criteria {"field": "label", "equals": "negative"}.
Negative(judged) ==
  LET items == judged.per_document
  IN  Picked(items, {k \in DOMAIN items : items[k].label = "negative"})

\* The documents judged negative, or the hits of a search when nothing was judged.
FilterDocuments ==
  /\ Calls("filter_documents")
  /\ LET kept  == Negative(results["sentiment_analysis"])
         found == results["semantic_search"]
     IN  Returns("filter_documents",
           IF Ran("sentiment_analysis")
           THEN [kind |-> "filter", ids |-> Ids(kept), count |-> Len(kept)]
           ELSE [kind |-> "filter", ids |-> found.ids, count |-> found.count])

\* _TASK_CANDIDATES["sentiment"]: the labels of the default model and of its alternative.
Shortlist == <<{"positive", "negative"}, {"positive", "negative", "neutral"}>>

\* The sample of the corpus against the predictions of every candidate.
EvaluateCandidates ==
  /\ Calls("evaluate_candidates")
  /\ IF ~Measures
     THEN Returns("evaluate_candidates", [kind |-> "evaluation", skipped |-> TRUE, per_model |-> <<>>])
     ELSE LET sample == Sample(documents, profile.label_column)
              truth  == Truth(sample, profile.label_column)
          IN  \E first \in [DOMAIN sample -> Shortlist[1]], second \in [DOMAIN sample -> Shortlist[2]] :
                Returns("evaluate_candidates",
                        [kind |-> "evaluation", skipped |-> FALSE,
                         per_model |-> <<Metrics(truth, first), Metrics(truth, second)>>])

\* A search that fails and one without results look the same.
ResearchModels ==
  /\ Calls("research_models")
  /\ \E found \in BOOLEAN : Returns("research_models", [kind |-> "research", found |-> found])

\* measured_on_user_data
Measured ==
  IF Ran("evaluate_candidates") THEN results["evaluate_candidates"].per_model ELSE <<>>

\* default_recommendation: the first of the most accurate candidates, or the default model.
DefaultRecommendation ==
  IF Measured = <<>> THEN 1
  ELSE Min({k \in DOMAIN Measured : \A j \in DOMAIN Measured : Measured[j].hits <= Measured[k].hits})

\* The LLM recommends what it likes (0: no model of the shortlist); without it, or when its
\* answer is malformed, the rule does.
ModelRecommendation ==
  /\ Calls("model_recommendation")
  /\ \E degraded \in BOOLEAN, model \in 0..Len(Shortlist) :
       /\ degraded => model = DefaultRecommendation
       /\ Returns("model_recommendation",
                  [kind |-> "recommendation", recommendation |-> model, degraded |-> degraded,
                   measured |-> Measured, research_note |-> Agent!ResearchNote])

\* A ValueError of the tool or of its model, or a ValidationError (see AgentTurn!Unvalidated).
ToolRaisesValueError ==
  /\ \E tool \in Agent!Tools : /\ Runs(tool)
                               /\ Refuses(tool) \/ Infers(tool) \/ tool \in Agent!Unvalidated
                               /\ error' = Agent!Replan(tool)
  /\ node' = Agent!RouteNext(error', step_index, plan)
  /\ UNCHANGED <<file, lost, profile, results, query, indexed, plan, step_index,
                 final_answer, requested>>

\* Any other exception.
ToolFails ==
  /\ \E tool \in Agent!Tools : /\ Runs(tool)
                               /\ \/ Agent!CorpusMissing(tool) /\ ~Refuses(tool)
                                  \/ Infers(tool)
                                  \/ tool = "research_models"
  /\ error' = Agent!TurnError /\ node' = Agent!RouteNext(error', step_index, plan)
  /\ UNCHANGED <<file, lost, profile, results, query, indexed, plan, step_index,
                 final_answer, requested>>

ExecuteTool ==
  \/ ProfileDataset \/ SentimentAnalysis \/ TextClassification \/ SummarizeText
  \/ GenerateEmbeddings \/ SemanticSearch \/ FilterDocuments
  \/ EvaluateCandidates \/ ResearchModels \/ ModelRecommendation
  \/ ToolRaisesValueError \/ ToolFails

\* Planning, routing and answering touch no data.
Control ==
  /\ UNCHANGED <<file, lost, profile, results>>
  /\ \/ Agent!UnderstandIntent \/ Agent!FailToUnderstand
     \/ Agent!RefinePlan \/ Agent!RepairPlan \/ Agent!NothingLeft
     \/ Agent!Synthesize \/ Agent!HandleError
     \/ Agent!GiveUp \/ Agent!Returned

Next == ExecuteTool \/ Control

Spec == Init /\ [][Next]_vars

-----------------------------------------------------------------------------
(* Properties                                                              *)

WellFormed(tool, r) ==
  CASE tool = "profile_dataset"      -> r.kind = "profile"
    [] tool = "sentiment_analysis"   -> /\ r.kind = "sentiment" /\ r.skipped \in Nat
                                        /\ r.per_document \in Seq([id : Ids(documents),
                                                                    label : {"positive", "negative"}])
    [] tool = "text_classification"  -> r.kind = "classification" /\ r.ids \subseteq Ids(documents)
    [] tool = "summarize_text"       -> /\ r.kind = "summary" /\ r.sources # {}
                                        /\ r.sources \subseteq Ids(documents)
    [] tool = "generate_embeddings"  -> r.kind = "embeddings"
    [] tool = "semantic_search"      -> r.kind = "search" /\ r.ids \subseteq Ids(documents) /\ r.count \in Nat
    [] tool = "filter_documents"     -> r.kind = "filter" /\ r.ids \subseteq Ids(documents) /\ r.count \in Nat
    [] tool = "evaluate_candidates"  -> /\ r.kind = "evaluation" /\ r.skipped \in BOOLEAN
                                        /\ \A k \in DOMAIN r.per_model :
                                             r.per_model[k].hits \in 0..r.per_model[k].n_examples
    [] tool = "research_models"      -> r.kind = "research" /\ r.found \in BOOLEAN
    [] tool = "model_recommendation" -> /\ r.kind = "recommendation"
                                        /\ r.recommendation \in 0..Len(Shortlist)
                                        /\ r.research_note \in Agent!Results
    [] OTHER                         -> FALSE

\* The file's own index gives two of its documents the same id.
RepeatsIds(f) ==
  f.format = "csv" /\ \E i, j \in CsvRows(f) : i # j /\ f.index[i] = f.index[j]

(* Every result speaks of documents of the corpus, by their ids, which are  *)
(* distinct unless a CSV brings an index of its own that repeats a label.   *)
TypeOK ==
  /\ file \in Accepted /\ lost \in BOOLEAN /\ indexed \in BOOLEAN
  /\ profile = NoProfile \/ \E f \in Accepted : profile = Profiles[f]
  /\ documents # <<>> /\ Ids(documents) \subseteq Nat
  /\ ~RepeatsIds(file) => Cardinality(Ids(documents)) = Len(documents)
  /\ DOMAIN results = Agent!Tools
  /\ \A tool \in Agent!Tools : Ran(tool) => WellFormed(tool, results[tool])

(* AgentTurn is an abstraction of the tools as they are: what it says of    *)
(* refusals, missing corpora, kept documents, skipped evaluations and       *)
(* research notes follows from the documents, so what is proved of it holds *)
(* of turns over real data.                                                 *)
ImplementsAgentTurn == Agent!Init /\ [][Agent!Next]_(Agent!vars)

\* The session's profile is the corpus's own; see SessionBackend!StaleOnlyByOverlap.
OwnProfile == profile \in {NoProfile, Profiles[file]}

\* ... and its text_column names the column that each document's text was read from.
OwnTexts == OwnProfile /\ ~KeyReplaced(file)

(* No document is lost between the tools.  A sentiment analysis accounts    *)
(* for every selected document; under the corpus's own profile it judges    *)
(* each one that has a text, and the summary of a filtered selection is     *)
(* made of all that the filter kept; a search finds documents with text     *)
(* only.  After a filter the tools work on as many documents as it counted, *)
(* and after a judgement on exactly those judged negative.  Two kinds of    *)
(* CSV are left out, since their tools do lose documents: a column named    *)
(* text_column makes the judgement look elsewhere for some texts, and an    *)
(* index that repeats a label makes the filter keep documents it did not    *)
(* count.                                                                   *)
SelectionsAreAnalysed ==
  [][LET judged  == results'["sentiment_analysis"]
         found   == results'["semantic_search"]
         kept    == results'["filter_documents"]
         summary == results'["summarize_text"]
     IN  /\ judged # results["sentiment_analysis"] =>
              /\ Len(judged.per_document) + judged.skipped = Len(Selection)
              /\ OwnTexts => \A i \in DOMAIN Selection :
                    Selection[i].text >= MinTextChars => Selection[i].id \in Ids(judged.per_document)
         /\ found # results["semantic_search"] => found.ids \subseteq Ids(WithText(documents))
         /\ kept # results["filter_documents"] /\ ~RepeatsIds(file) =>
              /\ Len(Selection') = kept.count
              /\ Ran("sentiment_analysis") => Ids(Selection') = Ids(Negative(results["sentiment_analysis"]))
         /\ summary # results["summarize_text"] /\ Ran("filter_documents") =>
              /\ summary.sources \subseteq results["filter_documents"].ids
              /\ OwnTexts => summary.sources = results["filter_documents"].ids]_vars

Text(f) ==
  CASE f.format = "csv" -> Chars(f, DetectedTextColumn(f))
    [] f.format = "txt" -> SumOf([i \in DOMAIN f.lines |-> f.lines[i].chars])
    [] f.format = "pdf" -> SumOf(f.pages)

TextOf == [f \in Accepted |-> Text(f)]

(* A file that is not rejected can be worked on: the limits may cut it, but *)
(* they leave a text, and no tool refuses the corpus as a whole; and a      *)
(* corpus that is not reported as truncated has all the text of its file.   *)
CorpusIsUsable ==
  /\ WithText(documents) # <<>>
  /\ ~corpus.truncated => SumOf(TextLengths(documents)) >= TextOf[file]
  /\ Refuses("summarize_text") => Ran("filter_documents")

(* The quartiles of the text lengths lie in order between the shortest and  *)
(* the longest, except those of two texts, which are extrapolated: p25 lies *)
(* below the minimum and p75 above the maximum.                             *)
QuantilesOrdered ==
  profile.known =>
    LET d == profile.lengths
    IN  /\ d.p25 <= d.median /\ d.median <= d.p75 /\ d.min <= d.median /\ d.median <= d.max
        /\ IF profile.n_documents = 2 THEN d.p25 <= d.min /\ d.max <= d.p75
           ELSE d.min <= d.p25 /\ d.p75 <= d.max

(* The text to summarise is cut into chunks that lose nothing and fit the   *)
(* model.  What need not fit is the last request: the summaries of several  *)
(* chunks are handed over in one piece just when that is longer than a      *)
(* chunk may be, and the model truncates it, although summarize_text.py:3   *)
(* promises that such input is chunked.  Each request is one the model can  *)
(* satisfy: the minimum stays below the maximum, and a summary is asked to  *)
(* be longer than its text only of texts below five words.                  *)
ChunkLengthsFit ==
  Ran("summarize_text") =>
    LET r == results["summarize_text"]
        fitting == {k \in DOMAIN r.requests : r.requests[k].chars \in 1..MaxChunkChars}
    IN  /\ SumOver([k \in fitting |-> r.requests[k].chars], fitting) = r.chars
        /\ \A k \in DOMAIN r.requests \ fitting :
             k = Len(r.requests) /\ k > 2 /\ r.requests[k].chars > MaxChunkChars
        /\ \A k \in DOMAIN r.requests :
             LET q == r.requests[k]
             IN  /\ 5 <= q.min_length /\ 2 * q.min_length <= q.max_length
                 /\ q.max_length \in 10..130
                 /\ q.min_length > q.words => q.words < 5

(* The two scores of a candidate agree where they must: accuracy 1 and      *)
(* macro-F1 1 mean the same, and so do accuracy 0 and macro-F1 0, although  *)
(* the average runs over labels that only the model or only the data has;   *)
(* and a recommendation made without the LLM is one that no measured        *)
(* candidate beats.                                                         *)
ScoresAgree ==
  /\ \A k \in DOMAIN Measured :
       /\ Measured[k].f1_sum \in 0..(Measured[k].labels * FScale)
       /\ Measured[k].hits = Measured[k].n_examples <=> Measured[k].f1_sum = Measured[k].labels * FScale
       /\ Measured[k].hits = 0 <=> Measured[k].f1_sum = 0
  /\ LET r == results["model_recommendation"]
     IN  Ran("model_recommendation") /\ r.degraded =>
           \A k \in DOMAIN r.measured : r.measured[k].hits <= r.measured[r.recommendation].hits

-----------------------------------------------------------------------------
(* The inductive invariant behind the refinement, SelectionsAreAnalysed,    *)
(* ChunkLengthsFit and ScoresAgree.                                         *)

\* Once planned, a turn with another file's profile does not profile again.
PlanInv ==
  /\ plan \in Seq(Agent!Tools) /\ step_index \in Nat
  /\ node = "understand_intent" => error = Agent!NoError
  /\ (node = "execute_tool" \/ (node = "plan_steps" /\ error.kind = "REPLAN")) /\ ~OwnProfile =>
        "profile_dataset" \notin Agent!PlannedTools(plan)

\* Only documents with text are found and, by their own texts, judged and kept; distinct
\* documents are counted once.
AnalysedInv ==
  LET with_text == Ids(WithText(documents))
      judged == results["sentiment_analysis"]
      found  == results["semantic_search"]
  IN  /\ Ran("semantic_search") =>
           /\ found.ids \subseteq with_text
           /\ ~RepeatsIds(file) => found.count = Cardinality(found.ids)
      /\ Ran("sentiment_analysis") /\ ~RepeatsIds(file) =>
           \A k, l \in DOMAIN judged.per_document :
             judged.per_document[k].id = judged.per_document[l].id => k = l
      /\ OwnTexts =>
           /\ Ran("sentiment_analysis") => Ids(judged.per_document) \subseteq with_text
           /\ Ran("filter_documents") => results["filter_documents"].ids \subseteq with_text

\* What was summarised had text and went to the model chunk by chunk, and once more; what
\* was measured, every candidate was measured on.
ComputedInv ==
  /\ Ran("summarize_text") =>
       LET r == results["summarize_text"]
           chunks == Chunks(r.chars)
       IN  /\ r.chars \in Nat \ {0}
           /\ \/ DOMAIN r.requests = DOMAIN chunks
              \/ /\ Len(chunks) > 1 /\ DOMAIN r.requests = 1..(Len(chunks) + 1)
                 /\ r.requests[Len(chunks) + 1].chars > MaxChunkChars
           /\ \A k \in DOMAIN chunks : r.requests[k].chars = chunks[k]
           /\ \A k \in DOMAIN r.requests :
                LET q == r.requests[k]
                IN  q.chars \in Nat /\ q.words \in Nat \ {0} /\ q = SummaryRequest(q.chars, q.words)
  /\ Measured = <<>> \/ DOMAIN Measured = DOMAIN Shortlist
  /\ ScoresAgree

IInv == TypeOK /\ PlanInv /\ AnalysedInv /\ ComputedInv
=============================================================================
