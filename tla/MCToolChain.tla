----------------------------- MODULE MCToolChain -----------------------------
(* An instance of ToolChain for TLC: one file per branch of the loaders.   *)
EXTENDS ToolChain

Indexed(columns, numeric, rows, index) ==
  [format |-> "csv", content |-> "well_formed", columns |-> columns, numeric |-> numeric,
   rows |-> rows, index |-> index]
Csv(columns, numeric, rows) == Indexed(columns, numeric, rows, [i \in DOMAIN rows |-> i - 1])
Txt(lines)  == [format |-> "txt", content |-> "well_formed", lines |-> lines]
Pdf(pages)  == [format |-> "pdf", content |-> "well_formed", pages |-> pages]
Line(n, e)  == [chars |-> n, ends |-> e]

Review(n, label) == [review |-> Cell(n), label |-> label]

\* A labelled dataset with a blank text, a very short one and a missing label.
Reviews ==
  Csv(<<"review", "label">>, {},
      <<Review(40, LabelCell("pos")), Review(2, LabelCell("neg")), Review(0, LabelCell("neg")),
        Review(60, Blank), Review(35, LabelCell("negative"))>>)

\* Its column "review" is not the text column; the labels are numbers; one row too many.
Answer(n, short, rating) ==
  [comment |-> Cell(n), review |-> Cell(short), rating |-> [chars |-> 1, word |-> rating]]
Survey ==
  Csv(<<"comment", "review", "rating">>, {"rating"},
      <<Answer(90, 12, "5"), Answer(80, 0, "1"), Answer(0, 9, "5"), Answer(70, 1, "1"), Answer(99, 8, "5")>>)

\* Two texts, and labels that do not repeat.
Tickets ==
  Csv(<<"body", "category">>, {},
      <<[body |-> Cell(30), category |-> LabelCell("billing")],
        [body |-> Cell(90), category |-> LabelCell("delivery")]>>)

\* The only text lies beyond the row limit.
LateText == Csv(<<"note">>, {}, [i \in 1..6 |-> [note |-> IF i = 6 THEN Cell(50) ELSE Blank]])

Numbers == Csv(<<"x">>, {"x"}, <<[x |-> LabelCell("1")]>>)

\* Rows one field longer than the header: their labels repeat, or one is no number.
Note(n) == [note |-> Cell(n)]
Repeated == Indexed(<<"note">>, {}, <<Note(30), Note(1), Note(40)>>, <<7, 7, 9>>)
Lettered == Indexed(<<"note">>, {}, <<Note(30), Note(40)>>, <<7, NoNumber>>)

\* A column of the name of the metadata key, of words and of numbers.
Keyed(n, w) == [note |-> Cell(n), text_column |-> w]
Keys      == Csv(<<"note", "text_column">>, {},
                 <<Keyed(30, LabelCell("note")), Keyed(40, LabelCell("title")), Keyed(20, Blank)>>)
KeyNumber == Csv(<<"note", "text_column">>, {"text_column"}, <<Keyed(30, LabelCell("1"))>>)

Records == Txt(<<Line(20, TRUE), Line(0, FALSE), Line(30, TRUE), Line(25, TRUE), Line(25, TRUE), Line(9, FALSE)>>)
Prose   == Txt(<<Line(0, FALSE), Line(45, FALSE), Line(0, FALSE), Line(25, TRUE)>>)

MCFiles ==
  {Reviews, Survey, Tickets, LateText, Numbers, Csv(<<"x">>, {}, <<>>),
   Repeated, Lettered, Keys, KeyNumber,
   Records, Prose, Txt(<<Line(0, FALSE)>>),
   Pdf(<<1200, 0, 1800>>), Pdf(<<9000, 0, 7000, 100>>), Pdf(<<0, 0>>),
   [Prose EXCEPT !.content = "not_utf8"]}

MCEarlierFiles == {Reviews, Prose}

\* The chains of the planning prompt, one with a second analysis after the filter, and the
\* tools that must refuse.
MCPlans ==
  {<<"profile_dataset", "sentiment_analysis", "filter_documents", "summarize_text">>,
   <<"sentiment_analysis", "filter_documents", "sentiment_analysis", "text_classification">>,
   <<"generate_embeddings", "semantic_search", "filter_documents", "summarize_text">>,
   <<"profile_dataset", "evaluate_candidates", "research_models", "model_recommendation">>,
   <<"summarize_text">>,
   <<"named_entity_recognition", "semantic_search", "filter_documents", "text_classification">>}
=============================================================================
