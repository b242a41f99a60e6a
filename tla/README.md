# TextInsight: TLA+ models, checks and proofs

TextInsight lets a user upload a text dataset and ask questions about it. An
LLM plans a sequence of analysis tools, a LangGraph state machine runs them,
and the answer is recorded in a session. This directory holds TLA+ models of
the parts of the program that have state and can go wrong in an order nobody
tested, the TLC runs that check them, and TLAPS proofs of every safety
property, action property and refinement that the passing runs check.
Definitions are translated from the source and keep its names; `PROJECT.json`
maps each to its lines.

To check: `tlc -config <run>.cfg <module>` for the runs, `tlapm <module>.tla`
for `ListComprehensionLemmas` and the seven modules named `...Proofs`. Checked
from nothing, `ToolChainProofs` and `SessionBackendProofs` take the longest.

## 1. Inventory

| Component | State | Operations | Talks to | What makes it correct |
|---|---|---|---|---|
| Agent graph (`agent/`) | `AgentState`: plan, step_index, tool_results, profile, error, final_answer; LangGraph's superstep counter | the five nodes and the edge `route_next` | LLM client, tools | a turn ends with an answer, within its limits; plan repair only removes; what the answer says about the plan is true |
| Tools (`tools/`, `research/`) | none of their own | ten functions | corpus store, models, FAISS index, LLM, Tavily | preconditions are refused with ValueError, everything else is a hard failure; each works on the documents the one before selected; its numbers are in order |
| Backend (`backend/main.py`) | none between requests, besides limiter and counters | upload, query, history, metrics, the lifespan's warm-up | session store, corpus store, agent in the thread pool | no answered turn is lost; reads are current; every request is answered |
| Session store (`backend/session.py`) | Redis: session id to `SessionData` | create, get, exists, set_corpus, update_profile, append_turn | Redis | each operation takes effect at once |
| Corpus store (`ingestion/store.py`) | an in-process dict | put, get | upload, tools | a session's corpus resolves while the process lives |
| Ingestion (`ingestion/`) | none | CSV, TXT and PDF loaders | upload | a corpus the tools can work on, or a structured error |
| Model caches (`models/registry.py`, `faiss_index.py`) | two dicts, two locks | get_pipeline, _get_embedding_model | warm-up, tools | one instance per model, never two constructors at once |
| FAISS index (`models/faiss_index.py`) | two files per corpus | index_exists, build_index, index_stats, query_index | generate_embeddings, semantic_search | an index that exists can be trusted |
| Frontend (`frontend/app.py`) | `st.session_state`, the uploader's file | one script run per event | the backend by HTTP | the page agrees with the backend |
| LLM client (`llm/client.py`) | none | complete, with three attempts | Groq | bounded retries, one kind of error |
| Observability (`observability/`) | request and error counters, loggers | record_request, snapshot | middleware, `/metrics` | what was answered is counted, once and by its kind |
| Configuration (`config.py`), scripts | none that changes | | all | |

Hard behaviours, with the lines where they bite, are the "hazards" of
`PROJECT.json`. The ones that shaped the models:

* A query hands a snapshot of its session to the thread pool and writes back
  afterwards, while uploads and other queries of the session go on.
* Session operations are a GET and a SET of the whole session. What keeps them
  together is only that a coroutine keeps the event loop until it awaits.
* A restart keeps the sessions (Redis) and the indexes (disk) but not the
  corpora (memory) that both refer to.
* Replanning uses the exception type as its protocol: any ValueError, from
  wherever inside a tool, removes the tool from the plan.
* The index is two files written in place without a lock, and its existence is
  its validity.
* Two lazily filled caches with separate locks share an importer that is not
  thread-safe.
* The page learns of an upload only by its answer, and gives up on answers.
* The tools hand document ids and a profile to each other: an empty selection
  is not "no selection", and the profile may be an earlier file's.
* An LLM call retries inside a turn that a page waits for, several calls deep.

## 2. Modules

| Module | Models | Checked by | Proved in |
|---|---|---|---|
| `ListComprehension` | Python's list comprehensions and sums, as operators | by the modules that use it | `ListComprehensionLemmas` |
| `AgentTurn` | one turn of the agent graph | `MCAgentTurn` | `AgentTurnProofs` |
| `SessionStore` | what the session store promises (abstract) | refined by `SessionBackend` | refined in `SessionBackendProofs` |
| `SessionBackend` | handlers, event loop, Redis commands, corpus store, crashes | `MCSessionBackend` | `SessionBackendProofs` |
| `ModelRegistry` | both model caches and the warm-up | `MCModelRegistry` | `ModelRegistryProofs` |
| `FaissIndex` | the index files under overlapping calls | itself | `FaissIndexProofs` |
| `Frontend` | one browser tab against the abstract backend | `MCFrontend` | `FrontendProofs` |
| `Ingestion` | the loaders, as operators | `MCToolChain` | `ToolChainProofs` |
| `ToolData` | what the tools compute, as operators | `MCToolChain` | `ToolChainProofs` |
| `ToolChain` | the tools on an ingested file inside a turn; refines `AgentTurn` | `MCToolChain` | `ToolChainProofs` |
| `LLMClient` | the LLM calls of a turn in time | `MCLLMClient` | `LLMClientProofs` |

**AgentTurn.** `node` is the node that runs next; an action is one node and the
edge behind it, so `steps` counts LangGraph supersteps. `ToolSucceeds`,
`ToolRaisesValueError` and `ToolFails` are the three exits of `execute_tool`;
`CanSucceed`, `CanRaiseValueError` and `CanFail` say when each is possible, from
`_build_kwargs` and from the tools. A query is empty, plain or names labels; a
profile is absent, labelled or unlabelled; a result is the part that a later
tool reads. `requested` is a history variable. `Without` is the list
comprehension of `plan_steps`: the plan's entries at the positions `Kept`.

**ListComprehension.** `Picked(s, I)` are the entries of `s` at the positions
`I`, in their order, which is what `[x for x in s if ...]` computes. It stands
for `SelectSeq`, whose recursion nothing can be proved about. `SumOver` is
`sum(...)`, by the fold of the community modules.

**SessionBackend.** A request is a coroutine whose steps are the Redis commands
and the awaits of its handler. `loop[w]` is the request that holds worker `w`'s
event loop: `Continue` keeps it, `Yield` gives it up. `read` is the session as
fetched, `turn` the profile that comes back from the agent. A turn of the agent
is one step here (`TurnReturns`, `TurnRaises`); what profile it may return is
justified by `CachedProfileKept` of `AgentTurn`: a cached profile is returned
unchanged. `Crash` empties a worker's corpora and drops its requests;
`RedisFails` raises, with or without the SET having arrived. `Respond` is the
way out of every handler: the response, and the middleware's record in the same
step, since nothing is awaited between them; an exception that only
ServerErrorMiddleware turns into a 500 is not recorded.

**SessionStore** is the abstract store; `StoreIsAtomic` is the refinement, with
`redis` for `redis`. The mapping is the identity because the refinement is about
atomicity: between its GET and its SET an operation must have seen the last
value.

**ModelRegistry.** `pc` walks one caller through the double-checked lock;
`lock` has one entry per lock, `Guard` says which. The startup thread goes
through `WarmUp`; a failure in `Required` fails the startup, a later one is
skipped.

**FaissIndex.** Writing is two steps per file, opening (which truncates) and
finishing, so that another call, a crash or a failure can come in between. All
writers of a file write the same bytes, so its content is absent, partial or
whole; `by` remembers who truncated it last.

**Frontend.** The script is a small program counter (`sidebar`, `uploading`,
`settings`, `asking`); a POST is carried out by the abstract backend at any
later time, whether the page still waits or not. Sessions change by the
operators of `SessionStore`, which is what `SessionBackend` justifies. The
writes to `st.session_state` after an upload, and those of a reset, are one step
each (section 5).

**Ingestion** and **ToolData** have no state. A text is its number of
characters, 0 when there is only white space; a cell also keeps a word when it
may be a label or a column's name. `Documents`, `Truncated` and `Rejected` say
what a file becomes. A CSV has an `index`, the labels of its rows: their
positions, or, since `read_csv` is called without `index_col`, the first field
of each row when rows are one field longer than the header. The ids of the
documents are these labels, which may repeat; one that is no number
(`Unnumbered`) fails the upload past IngestionError. A column named
`text_column` replaces the metadata key of that name (`KeyReplaced`), and if it
holds numbers the upload's profile fails (`Unprofilable`). `Profile`,
`JudgedText`, `Chunks`, `ModelInputs`, `SummaryRequest` and `Metrics` are the
tools' arithmetic, with fractions kept exact: quartiles and median times 4, F1 in
units of 1 / `FScale`.

**ToolChain** has one action per tool, with the documents it selects, judges,
embeds or summarises. A result keeps what the model was given: a summary has all
its requests, the last of which may be for the summaries of the others. Planning,
routing and answering are `AgentTurn`'s own actions, taken from the instance
`Agent`, which sees of the data what
`CorpusKind`, `KindOf` and `Outcome` keep. `ImplementsAgentTurn` is the
refinement: what `AgentTurn` assumes of the tools (when a filter keeps nothing,
when a summary has no input, when an evaluation is skipped, who finds the
corpus) is there a choice and here follows from the documents. Labels, search
hits, predictions and the lengths of summaries are choices.

**LLMClient** has a clock. A call is an attempt (`InvokeReturns`,
`InvokeRaises`, `GivesUp`), a sleep, the next attempt; a turn is a list of
calls by their context, since what an LLMError does to the turn depends on the
caller: only `understand_intent` gives up. The provider fails during one
interval, with one exception.

How they compose: `Frontend` uses `SessionStore`; `SessionBackend` refines
`SessionStore`; `SessionBackend` abstracts a turn to the two facts `AgentTurn`
establishes; `FaissIndex` and `ModelRegistry` are what the tools of concurrent
turns share.

## 3. Runs

| Run | States (about) | Shows |
|---|---|---|
| `agent_turn` | 424,000 | the properties of a turn, for several hundred plans |
| `session` | 280,000 | the properties of the backend, that it refines `SessionStore`, and what `/metrics` misses |
| `model_registry` | 14,000 | one instance per model, one constructor at a time |
| `faiss_index` | 36,000 | how far an existing index can be trusted |
| `frontend` | 22,000 | the page agrees with the backend, as far as it does |
| `tool_chain` | 85,000 | the tools refine `AgentTurn`; which documents reach which of them; their numbers are in order |
| `llm_client` | 936,000 | how long a call and a turn may take, and which outages nobody notices |

Bounds and why they are enough:

* `agent_turn`: all plans of two tools, all plans of three over the tools that
  depend on each other, all of four over the longest chain, and six longer
  plans. The limits are 3 and 20 instead of 6 and 25 so that short plans reach
  both. What holds for every plan and every limit is proved.
* `session`: three requests are the upload that creates a session and two that
  overlap on it, which is what every race here needs; one crash, one Redis
  failure; one worker, as deployed (`backend/Dockerfile`). Requests arrive in
  the order of their numbers, which only names them.
* `model_registry`: three threads, two of the three default pipelines, three
  candidates of which one is also a default. Proved for any number.
* `faiss_index`: three calls, so that one may read while two build; one crash
  and one failed write.
* `frontend`: four POSTs, three files of which two have the same name and size.
  A run of the script starts only while two POSTs are left (`MayRun`).

* `tool_chain`: seventeen files, one per branch of the loaders: labels that
  repeat and labels that do not, blank and very short texts, a second text
  column, texts beyond the row limit, row labels that repeat and one that is no
  number, a column named `text_column` of words and one of numbers, blank pages,
  one document and several.
  Row, page, example and sample limits are 4, 3, 2 and 3 and `TopK` is 2, so that
  small files lie on both sides; the character limits are the code's, since a
  text costs nothing but its length. Two pages of 9,000 and 7,000 characters make
  six chunks, and summaries of 40 or 600 characters lie on both sides of what
  their joined length may be. The recursion limit of 9 is reached.
  The profile is the file's own, none, or that of an earlier file.
* `llm_client`: the configured policy (three attempts, sleeps of 1 and 2 s,
  30 s timeout), turns of two and of eight calls, and outages around the sleeps
  of a call (3 s), of a minute, around a call's bound (93 s) and without end.

The other runs each find a counterexample to a sentence of the repository's
docs or comments; "findings" in `PROJECT.json` quotes them.

| Run | The code does |
|---|---|
| `agent_plan_repair` | a plan with a repeated tool skips a planned tool silently |
| `agent_recommendation` | a malformed LLM answer drops the recommendation instead of degrading it |
| `session_stale_profile` | an upload during a query leaves the new corpus with the old profile |
| `faiss_index_torn` | an index that exists may be half written |
| `frontend_replacement` | a lost upload answer leaves the page naming the wrong dataset |

More sentences that the code contradicts are modelled but have no run of their
own. "Every request" is said to feed the `/metrics` counters
(`backend/main.py:95-96`), and line 128 holds a status of 500 ready; but an
exception that only ServerErrorMiddleware answers leaves `__call__` at line 125,
and such a request is in neither counter. `OnlyUnhandledAreUncounted` says that
these are missing for good, and that nothing else is. "Input exceeding the
model's practical context is chunked" (`tools/summarize_text.py:3`,
`docs/TOOLS_AND_MODELS.md:69`); the joined summaries of several chunks are not:
lines 81-82 hand them over in one piece, and line 41 has the model truncate it.
`ChunkLengthsFit` says that this request may be too long and no other. A
malformed search result (`research/client.py:48`, outside the try) makes
`research_models` be replanned away, and the recommendation then says that
research was not requested, which `tools/schemas.py:249-250` excludes. A
candidate model that fails its warm-up is constructed by the first request that
needs it, although "nothing is ever first at request time"
(`backend/main.py:43-44`).

For several of them a weaker property that holds says how far the problem goes:
`StaleOnlyByOverlap` (only a query that overlaps the upload),
`SettledIndexIsValid` and `TornReadsOverlap` (only while a build runs, or after
one failed), `MismatchNeedsLostUpload` (only a dataset whose upload the page
gave up on), `NoticeIsHonest` (exact when no tool is named twice).

One doc says more than the code does in the other direction.
`docs/SECURITY_AND_RELIABILITY.md` 13.1 describes two tabs on one session
losing a `chat_history` entry. With the one worker that is deployed this cannot
happen: `append_turn` runs on the event loop and does not await between its GET
and its SET, and `NoTurnLost` and `StoreIsAtomic` hold. They fail as soon as
`Workers` has two elements or a client that awaits each command is used
(the operator `Release`), so the section's remedy is needed before either.

### Fairness

* `AgentTurn`: weak fairness of the next step. `run_agent` is one synchronous
  loop, and each external call in it has a timeout or computes and returns.
* `SessionBackend`: weak fairness per handler. asyncio resumes what is ready,
  the thread pool runs what it was given; no fairness for clients, crashes or
  failures.
* `ModelRegistry`: weak fairness of each thread's steps, so that a constructor
  ends. A lock goes to some waiter; no waiter can be overtaken forever because
  each thread makes one call.
* `FaissIndex`, `Frontend`, `ToolChain`, `LLMClient`: none, since only safety is
  stated of them.

## 4. Proofs

Every safety property, action property and refinement of section 3's passing
runs is also a theorem, for every value of the constants that the named
assumptions allow. The proof modules are laid out alike: lemmas that say what a
step does to each variable, one `...Step` lemma per conjunct of the inductive
invariant `IInv` with a step per action, `Invariance`, and one theorem per
property. `IInv` stands at the end of the component's module, and TLC evaluated
it on the instances of section 3 before it was proved. No theorem needs the
bounds on crashes, failures, calls and requests to be small.

The session theorems about races assume `OneWorker`, which is what
`backend/Dockerfile` deploys. With two workers TLC refutes `NoTurnLost`
(section 3), and `OnlyUnhandledAreUncounted`, since each process has its own
counters; `ReadsAreCurrent` and `StaleOnlyByOverlap` it does not refute with
three requests, but their proofs rest on atomic operations. Nothing else is
assumed beyond the ASSUMEs of the modules, which say that names for "nothing"
are not values, that limits are natural or positive numbers, that a plan is a
sequence of tool names (what `_parse_plan` checks), and what a parser returns
of a file.

**Lists and sums** (`ListComprehensionLemmas`). What `Picked` keeps, in which
order, its length, when it is a prefix, that it introduces no repetition; what
`SumOver` of a set, of a split set, of equal and of ordered summands is. The
library's induction theorems take an operator as a parameter, which the provers
cannot instantiate, so induction is stated of a set of numbers (or of finite
sets) that contains 0 (the empty set) and is closed under successor (one more
element). From it follow the places `Rank` and `Nth`, and that the recursive
function behind the community fold exists, on which every fact about sums rests.

**AgentTurn.** `TypeOK`, `BudgetRespected`, `SuperstepsBounded`,
`ErrorsAnswered`, `NoticeIsHonest`, `PlanOnlyShrinks` and `CachedProfileKept`;
and `LargeLimitSuffices`, how large a recursion limit excludes
GraphRecursionError (with 6 tool iterations, any above 28; the one in
force is LangGraph's default, 25).

`ControlInv` says what each node may rely on; without it neither the error nor
the answer can be related to the node. `BudgetInv` strengthens the guard:
wherever a tool may run next, `step_index` is strictly below the limit.
`StepsInv` counts: each successful execution costs one superstep, each replan
two and a tool that never returns to the plan, so `steps` is bounded by
`step_index` and the number of tools that were replanned away. `OrderInv` holds
for plans without repetitions: the tools that ran are exactly the prefix before
`step_index`, which repair leaves alone because the removed tool lies behind it.
`ProfileInv` says that a turn which started with another corpus's profile has no
profile_dataset left in its plan.

**SessionBackend.** With any number of workers: `TypeOK` and `CorpusAvailable`.
With one: the refinement `StoreIsAtomic`, `NoTurnLost`, `ReadsAreCurrent`,
`StaleOnlyByOverlap` and `OnlyUnhandledAreUncounted`, for any number of requests,
crashes and Redis failures.

`ControlInv` ties a handler's place to the event loop it holds. `SessionsInv`
says when a session exists and when its id is known, `CorporaInv` that a corpus
reference, in Redis or in a handler's hands, is of a corpus loaded before.
These make up `IInv`, which knows nothing of races. `SoloInv` is what one event
loop adds. Its heart is `AtomicInv`: a handler between a GET and its SET holds
what Redis holds. It is inductive because such a handler holds the loop, hence
no other handler writes. The refinement follows at once: a SET is the abstract
operation on the current value, and every other step stutters, the failed ones
included. `TurnsInv` is stated of adjacent pairs in the history, since a turn is
appended as one write. `ProfilesInv` follows a profile through a query's
snapshot, its turn and its write-back: whatever profile it carries is the
current corpus's or was carried by a query that had arrived before the upload
was answered (`Explained`). `ExactCountersInv`, that the counters are the numbers of
responses and of failures without the unhandled ones, is what makes the bounds
of `/metrics` inductive.

**ModelRegistry.** `TypeOK`, `ConstructedOnce`, `LocksAreReleased` and
`NoConcurrentConstruction` for any threads, models and warm-up lists. `LockInv`
is mutual exclusion per lock; `CacheInv` that a constructor runs only for a
model that is not cached; `WarmUpInv` that the required models, the embedding
model among them, are cached before any request thread leaves `idle`. The last
is what mutual exclusion between the two locks needs.

**FaissIndex.** `TypeOK`, `SettledIndexIsValid`, `TornReadsOverlap` and
`BuiltOnceReturned` for any number of calls. `FilesInv` relates the files to
the place of the call that opened them last (`by`): files appear in order and
stay. `PartialInv` is what makes `SettledIndexIsValid` inductive: a partial file
has its last opener still at the write, however many calls build over each
other. `OrderInv` relates calls that do not overlap, and `TornInv` remembers,
for a call that tripped, that the file's last opener overlaps it.

**Frontend.** `TypeOK`, `SessionStateConsistent`, `ShownTurnsAreRecorded`,
`DatasetIsWidgetsFile` and `MismatchNeedsLostUpload` for any files, file keys
and requests. A POST that the page gave up on may be carried out at any later
time, so the invariant has to say what the page may not know: `DatasetInv`
allows the session's corpus to be the page's dataset or that of an upload given
up, or of the one that is waited for, and says which of these remain once the
answer is there. `OrderInv` places the turn that is waited for behind every turn
shown. `PostsInv` and `SessionsInv` tie what is in the backend to the requests
that are done.

**LLMClient.** `TypeOK`, `CallIsBounded` and `OutagesAreRiddenOut` for every
retry policy, set of answer and error times, turn and outage. `AttemptInv` says
that only retryable errors reach a second attempt. `CallInv` bounds the time a
call has taken from both sides, and `OutageInv` compares a turn with one that
only waited for its answers: it is late only if the outage began before that
turn would have ended, and then by no more than the outage's length, a timeout
and one call's sleeps. The sleeps double, so the proof needs that powers grow;
the provers know no powers, and `PowersDouble` takes 2^n as the number of
subsets of 1..n. That answer times have a longest one is a least-number
argument.

**ToolChain, ToolData and Ingestion.** `TypeOK`, `ImplementsAgentTurn`,
`SelectionsAreAnalysed`, `CorpusIsUsable`, `QuantilesOrdered`,
`ChunkLengthsFit` and `ScoresAgree`, for files with any number of rows, lines or
pages, any limits and any plan. By the refinement what is proved of `AgentTurn`
holds of turns over documents: every step of a tool is the step that `AgentTurn`
leaves open, because the documents decide which of its outcomes occurs
(`StepImplements`).

`PlanInv` is about the profile's origin: after planning, a turn that carries
another file's profile never runs profile_dataset, so its profile cannot become
its own in the middle. `AnalysedInv` rests on it: under the corpus's own profile
whatever was judged, found or kept has text. What needs distinct ids or the
profile's own text column is proved under the condition that grants it: rows
that the file does not label twice (`~RepeatsIds`), and no column in place of
the key `text_column` (`OwnTexts`). Without them a document may be kept that was
judged otherwise, or read from another column, which the statements of
`SelectionsAreAnalysed` and `TypeOK` leave open. `ComputedInv` keeps what a result
was computed from. The theorems on numbers are arguments about the operators.
The quartiles are values at positions of the sorted lengths (`SortedFacts`: the
k-th smallest value exists, by the least number that enough lengths do not
exceed), and the positions are in order. The chunks' lengths telescope to the
text's, so that the requests that fit are the whole text, and a request's
minimum is below its maximum for every number of words.
For the scores, F1 is counted exactly in units of 1 / `FScale`, which
`FScaleAssumption` makes divisible by every denominator of a sample, so that a
score is 1 or 0 only when it is so exactly; the mean is 1 or 0 only if every
class's is.

**Left to TLC.** The three liveness properties, `EveryTurnAnswers`,
`EveryRequestAnswered` and `CallsReturn`: liveness under fairness needs ENABLED,
which the provers do not handle. The runs that find a counterexample have
nothing to prove. That each operator of `Ingestion` and `ToolData` computes what
Python does is by translation; the theorems are about what it computes.

## 5. Not modelled

* The renderers of the page, log lines, timers and latencies, and the
  measurement scripts: no state that anything reads.
* Parsing by pandas and PyMuPDF, the LLM, Groq's SDK, Tavily, the NLP models,
  Redis and LangGraph are external and modelled by what the code relies on.
* The limiter's window is left open (`RateLimit` may refuse any query).
* Of the tools: the language votes and the average length of a profile,
  classification labels and scores, the advisory notes and the rationale of a
  recommendation, and arguments the agent never gives (`column_hint`, `topic`,
  `user_constraints`). Their values reach no later tool.
* Columns named `row_index`, `line_index`, `page_number` or `page_count`: they
  replace metadata that no tool reads, unless a stale profile's text column has
  that name. Those keys are left out of `metadata`, so such a profile finds
  nothing there.
* An interruption between the writes to `st.session_state` after an upload
  (`frontend/app.py:289-291`) or within `_reset_session`. A rerun that the user
  asks for while a POST blocks stops the run before the first write, which is
  modelled; one that arrives within those few statements would leave some of the
  entries written.
* Texts: white space around a text is not counted, and two cells are the same
  when their length and their word are.
* Which exceptions the HTTP layer raises. `_is_retryable` knows a status code or
  Python's own `TimeoutError` and `ConnectionError`; an SDK exception that is
  neither is not retried, and the runs have one of each. Whether Groq's timeouts
  are of the first kind, as the comment at `llm/client.py:115` says, cannot be
  decided from this repository.
* The web search has no retry, although section 7 of
  `docs/SECURITY_AND_RELIABILITY.md` names "LLM/search calls"; there is nothing
  to model but its absence (`ResearchModels`).

## 6. Plan

Done: all modules of section 2, and a proof of every property that TLC checks
but liveness.

Next, in this order:

1. The theorems of `AgentTurn` restated of `ToolChain` through the refinement
   (`BudgetRespected` and `NoticeIsHonest` of turns over documents), which needs
   `AgentTurnProofs` as an instance.
2. The safety half of the liveness properties: that the loop of `AgentTurn` has a
   decreasing measure, and that in `SessionBackend` and `ModelRegistry` some
   step is always possible while a request or a call is open.
3. `SessionBackend` with several workers: which weaker form of `NoTurnLost`
   survives, as a property and a theorem.
4. Shorter proofs: the case splits of `SessionBackendProofs` and
   `ToolChainProofs` repeat what one lemma per action could say once.
