---------------------------- MODULE MCModelRegistry ----------------------------
(* Instances of ModelRegistry for TLC.                                     *)
EXTENDS ModelRegistry

\* Two of the three default pipelines.  The default sentiment model is a candidate too,
\* under the same key; the other candidates have keys of their own.
MCDefaultPipelines   == <<"sentiment", "summarization">>
MCCandidatePipelines == <<"roberta", "sentiment", "bart">>

\* Every pipeline that a tool can ask for is covered by the warm-up.
MCPipelineKeys == {MCDefaultPipelines[i] : i \in DOMAIN MCDefaultPipelines}
                    \cup {MCCandidatePipelines[i] : i \in DOMAIN MCCandidatePipelines}
=============================================================================
