---------------------------- MODULE SessionBackend ----------------------------
(***************************************************************************)
(* The FastAPI backend around an agent turn: the upload, query, history and *)
(* metrics handlers of backend/main.py behind its RequestLoggingMiddleware, *)
(* the SessionStore of backend/session.py on Redis, and the in-process     *)
(* CorpusStore of ingestion/store.py and MetricsRegistry of                *)
(* observability/metrics.py.                                               *)
(*                                                                         *)
(* A handler is a coroutine: it keeps its worker's event loop until it     *)
(* awaits, and it awaits only file.read() and run_in_threadpool.  Redis    *)
(* commands are synchronous and atomic one by one, so what keeps the GET   *)
(* and the SET of one SessionStore call together is the event loop, and    *)
(* nothing at all between two workers.  A worker may crash and Redis may   *)
(* fail between any two commands.                                          *)
(***************************************************************************)
EXTENDS Naturals, Sequences, FiniteSets

CONSTANTS
  Requests,          \* HTTP requests; see SessionStore for what they name
  Workers,           \* uvicorn worker processes
  Nothing,           \* Python's None
  UnknownId,         \* a session id that was never created
  Kinds,             \* the kinds of requests clients send
  MaxCrashes,        \* bound: how often a worker crashes and restarts
  MaxRedisFailures   \* bound: how many Redis commands raise

ASSUME NamesAssumption == Nothing \notin Requests /\ UnknownId \notin Requests \cup {Nothing}
ASSUME KindsAssumption == Kinds \subseteq {"upload", "query", "history", "metrics"}
ASSUME RequestsAssumption == IsFiniteSet(Requests)
ASSUME BoundsAssumption == MaxCrashes \in Nat /\ MaxRedisFailures \in Nat

VARIABLES
  redis,      \* Redis: session id -> SessionData
  corpora,    \* per worker: the refs in its corpus_store
  loop,       \* per worker: the request whose handler holds the event loop, if any
  pc,         \* per request: the step its handler is at, or its response
  call,       \* per request: its kind, its worker and its session_id
  metrics,    \* per worker: the counters of its metrics_registry
  read,       \* per request: what its latest store.get, or snapshot, returned
  turn,       \* per query: the profile that run_agent was given or returned
  before,     \* per request, history variable: what had a response when it arrived
  crashes, failures

vars == <<redis, corpora, loop, metrics, pc, call, read, turn, before, crashes, failures>>

Store == INSTANCE SessionStore

ASSUME NothingAssumption == Nothing \notin Store!SessionData

RedisSteps == {"get", "exists", "create", "set_corpus.get", "set_corpus.set",
               "update_profile.get", "update_profile.set", "append_turn.get", "append_turn.set"}
ClientErrors == {"400", "404", "429"}
Errors == ClientErrors \cup {"500"}   \* status >= 400
Responses == Errors \cup {"200", "connection_lost"}
Steps == RedisSteps \cup Responses
           \cup {"not_sent", "read_file", "in_threadpool", "resume", "snapshot"}

Kind(r)   == call[r].kind
Worker(r) == call[r].worker
Target(r) == call[r].session   \* the session_id of the request, an upload's own after create()
SentCalls == [kind : Kinds, worker : Workers, session : Requests \cup {UnknownId, Nothing}]
NoCall    == [kind |-> Nothing, worker |-> Nothing, session |-> Nothing]

Session(s) == IF s \in Requests THEN redis[s] ELSE Nothing

Responded == {r \in Requests : pc[r] \in Responses}
InFlight(r) == pc[r] \notin Responses \cup {"not_sent"}

\* MetricsRegistry: request_count and error_count; the latencies are left out.
Counters == [requests : 0..Cardinality(Requests), errors : 0..Cardinality(Requests)]
NoRequests == [requests |-> 0, errors |-> 0]

Init ==
  /\ redis = [s \in Requests |-> Nothing]
  /\ corpora = [w \in Workers |-> {}] /\ loop = [w \in Workers |-> Nothing]
  /\ metrics = [w \in Workers |-> NoRequests]
  /\ pc = [r \in Requests |-> "not_sent"] /\ call = [r \in Requests |-> NoCall]
  /\ read = [r \in Requests |-> Nothing] /\ turn = [r \in Requests |-> Nothing]
  /\ before = [r \in Requests |-> {}]
  /\ crashes = 0 /\ failures = 0

-----------------------------------------------------------------------------
(* The event loop                                                          *)

\* r's handler runs: it holds its worker's loop, or takes it when it is free.
At(r, step) == pc[r] = step /\ loop[Worker(r)] \in {Nothing, r}

\* Mutant of Continue: a client that awaits every Redis command.
Release(r, step) ==
  /\ pc' = [pc EXCEPT ![r] = step] /\ loop' = [loop EXCEPT ![Worker(r)] = Nothing]
  /\ UNCHANGED metrics

\* Straight on to the next step, without an await in between.
Continue(r, step) ==
  /\ pc' = [pc EXCEPT ![r] = step] /\ loop' = [loop EXCEPT ![Worker(r)] = r]
  /\ UNCHANGED metrics

\* The handler awaits.
Yield(r, step) ==
  /\ pc' = [pc EXCEPT ![r] = step] /\ loop' = [loop EXCEPT ![Worker(r)] = Nothing]
  /\ UNCHANGED metrics

\* record_request, and its mutant for a middleware that HTTPExceptions leave as well.
Recorded(m, status) ==
  [requests |-> m.requests + 1, errors |-> m.errors + (IF status \in Errors THEN 1 ELSE 0)]
CountIn(w, status) == metrics' = [metrics EXCEPT ![w] = Recorded(@, status)]
CountedSuccesses(w, status) ==
  IF status = "200" THEN CountIn(w, status) ELSE UNCHANGED metrics

\* What RequestLoggingMiddleware does when the application is done: an unhandled exception,
\* which ServerErrorMiddleware turns into the 500, leaves it before record_request.
Counted(w, status) == IF status = "500" THEN UNCHANGED metrics ELSE CountIn(w, status)

\* The handler returns or raises.  The middleware goes on in the same task without an
\* await, so nobody runs between the response and its record.
Respond(r, status) ==
  /\ pc' = [pc EXCEPT ![r] = status] /\ loop' = [loop EXCEPT ![Worker(r)] = Nothing]
  /\ Counted(Worker(r), status)

\* The ids that create() returned: clients have them, whatever became of the sessions.
KnownIds == {s \in Requests : Target(s) = s} \cup {UnknownId}

Arrive(r) ==
  /\ pc[r] = "not_sent"
  /\ \E k \in Kinds, w \in Workers, s \in KnownIds \cup {Nothing} :
       /\ k \in {"query", "history"} => s # Nothing
       /\ k = "metrics" => s = Nothing
       /\ call' = [call EXCEPT ![r] = [kind |-> k, worker |-> w, session |-> s]]
       /\ pc' = [pc EXCEPT ![r] = CASE k = "upload"  -> "read_file"
                                     [] k = "metrics" -> "snapshot"
                                     [] OTHER         -> "get"]
  /\ before' = [before EXCEPT ![r] = Responded]
  /\ UNCHANGED <<redis, corpora, loop, metrics, read, turn, crashes, failures>>

-----------------------------------------------------------------------------
(* Redis commands                                                          *)

\* Mutants of Written: set_corpus that keeps the first profile or the first corpus.
WrittenWith(r, ref, prof) ==
  CASE pc[r] = "create"             -> [redis EXCEPT ![r] = Store!NewSession]
    [] pc[r] = "set_corpus.set"     -> [redis EXCEPT ![Target(r)] = Store!WithCorpus(read[r], ref, prof)]
    [] pc[r] = "update_profile.set" -> [redis EXCEPT ![Target(r)] = Store!WithProfile(read[r], turn[r])]
    [] pc[r] = "append_turn.set"    -> [redis EXCEPT ![Target(r)] = Store!WithTurn(read[r], r)]
    [] OTHER                        -> redis
First(old, new) == IF old = Nothing THEN new ELSE old
WrittenKeepingProfile(r) == WrittenWith(r, r, First(read[r].profile, r))
WrittenKeepingCorpus(r)  == WrittenWith(r, First(read[r].corpus_ref, r), r)

\* What the SET that r is about to send makes of Redis.
Written(r) ==
  CASE pc[r] = "create"             -> [redis EXCEPT ![r] = Store!NewSession]
    [] pc[r] = "set_corpus.set"     -> [redis EXCEPT ![Target(r)] = Store!WithCorpus(read[r], r, r)]
    [] pc[r] = "update_profile.set" -> [redis EXCEPT ![Target(r)] = Store!WithProfile(read[r], turn[r])]
    [] pc[r] = "append_turn.set"    -> [redis EXCEPT ![Target(r)] = Store!WithTurn(read[r], r)]
    [] OTHER                        -> redis

\* SessionStore.get inside a mutator: no session is ever deleted, so it finds one.
Fetch(r, step, next) ==
  /\ At(r, step) /\ Continue(r, next)
  /\ read' = [read EXCEPT ![r] = redis[Target(r)]]
  /\ UNCHANGED <<redis, corpora, call, turn, before, crashes, failures>>

\* SessionStore._save: SET of the session as it was fetched, with the mutation.
Save(r, step) ==
  /\ At(r, step) /\ redis' = Written(r)
  /\ UNCHANGED <<corpora, read, turn, before, crashes, failures>>

\* The command raises; a SET may have reached Redis all the same.  Nothing catches it.
RedisFails(r) ==
  /\ pc[r] \in RedisSteps /\ At(r, pc[r]) /\ failures < MaxRedisFailures
  /\ failures' = failures + 1
  /\ redis' \in {redis, Written(r)}
  /\ Respond(r, "500")
  /\ UNCHANGED <<corpora, call, read, turn, before, crashes>>

-----------------------------------------------------------------------------
(* POST /upload                                                            *)

\* Ingestion rejects the file, a structured 400, or fails on it (the pages of an encrypted PDF,
\* or a CSV whose rows are labelled by something else than numbers, see Ingestion!Unnumbered).
RejectFile(r) ==
  /\ At(r, "read_file") /\ \E status \in {"400", "500"} : Respond(r, status)
  /\ UNCHANGED <<redis, corpora, call, read, turn, before, crashes, failures>>

\* Mutants of LoadFile: the corpus stored under the session's id, and the session's
\* previous corpus evicted as soon as the new file is loaded.
LoadUnderSessionId(r) ==
  /\ At(r, "read_file")
  /\ corpora' = [corpora EXCEPT ![Worker(r)] = @ \cup {Target(r)}]
  /\ Continue(r, IF Target(r) = Nothing THEN "create" ELSE "exists")
  /\ UNCHANGED <<redis, call, read, turn, before, crashes, failures>>
LoadAndEvict(r) ==
  /\ At(r, "read_file")
  /\ corpora' = [corpora EXCEPT ![Worker(r)] =
                   {r} \cup {c \in @ : Session(Target(r)) # Nothing => c # Session(Target(r)).corpus_ref}]
  /\ Continue(r, IF Target(r) = Nothing THEN "create" ELSE "exists")
  /\ UNCHANGED <<redis, call, read, turn, before, crashes, failures>>

LoadFile(r) ==
  /\ At(r, "read_file")
  /\ corpora' = [corpora EXCEPT ![Worker(r)] = @ \cup {r}]
  /\ Continue(r, IF Target(r) = Nothing THEN "create" ELSE "exists")
  /\ UNCHANGED <<redis, call, read, turn, before, crashes, failures>>

CheckSession(r) ==
  /\ At(r, "exists")
  /\ Continue(r, IF Session(Target(r)) = Nothing THEN "create" ELSE "set_corpus.get")
  /\ UNCHANGED <<redis, corpora, call, read, turn, before, crashes, failures>>

CreateSession(r) ==
  /\ Save(r, "create") /\ Continue(r, "set_corpus.get")
  /\ call' = [call EXCEPT ![r].session = r]

\* profile_dataset(corpus_ref) and then set_corpus.
FetchForCorpus(r) == Fetch(r, "set_corpus.get", "set_corpus.set")
SaveCorpus(r) == Save(r, "set_corpus.set") /\ Respond(r, "200") /\ UNCHANGED call

-----------------------------------------------------------------------------
(* POST /query                                                             *)

\* The limiter answers before the handler runs; how full its window is, is left open.
RateLimit(r) ==
  /\ At(r, "get") /\ Kind(r) = "query" /\ Respond(r, "429")
  /\ UNCHANGED <<redis, corpora, call, read, turn, before, crashes, failures>>

\* The handler reads the session and hands a snapshot of it to the thread pool.
StartTurn(r) ==
  /\ At(r, "get") /\ Kind(r) = "query"
  /\ read' = [read EXCEPT ![r] = Session(Target(r))]
  /\ \/ read'[r] = Nothing /\ Respond(r, "404")
     \/ read'[r] # Nothing /\ read'[r].corpus_ref = Nothing /\ Respond(r, "400")
     \/ read'[r] # Nothing /\ read'[r].corpus_ref # Nothing /\ Yield(r, "in_threadpool")
  /\ UNCHANGED <<redis, corpora, call, turn, before, crashes, failures>>

\* result["profile"]: a cached profile is kept, and profile_dataset may supply a missing one.
TurnProfiles(r) ==
  IF read[r].profile # Nothing THEN {read[r].profile}
  ELSE {Nothing} \cup ({read[r].corpus_ref} \cap corpora[Worker(r)])

\* run_agent returns on its thread, and the handler waits for the loop.
TurnReturns(r) ==
  /\ pc[r] = "in_threadpool"
  /\ \E p \in TurnProfiles(r) : turn' = [turn EXCEPT ![r] = p]
  /\ pc' = [pc EXCEPT ![r] = "resume"]
  /\ UNCHANGED <<redis, corpora, loop, metrics, call, read, before, crashes, failures>>

\* Mutant of TurnRaises: the handler starts over when the turn raises.
RetryTurn(r) ==
  /\ pc[r] = "in_threadpool" /\ pc' = [pc EXCEPT ![r] = "get"]
  /\ UNCHANGED <<redis, corpora, loop, metrics, call, read, turn, before, crashes, failures>>

\* run_agent raises (GraphRecursionError, see AgentTurn): a 500, and no turn is recorded.
TurnRaises(r) ==
  /\ pc[r] = "in_threadpool" /\ pc' = [pc EXCEPT ![r] = "500"]
  /\ UNCHANGED <<redis, corpora, loop, metrics, call, read, turn, before, crashes, failures>>

ResumeQuery(r) ==
  /\ At(r, "resume")
  /\ Continue(r, IF turn[r] # Nothing THEN "update_profile.get" ELSE "append_turn.get")
  /\ UNCHANGED <<redis, corpora, call, read, turn, before, crashes, failures>>

FetchForProfile(r) == Fetch(r, "update_profile.get", "update_profile.set")
SaveProfile(r) ==
  Save(r, "update_profile.set") /\ Continue(r, "append_turn.get") /\ UNCHANGED call

FetchForTurn(r) == Fetch(r, "append_turn.get", "append_turn.set")
SaveTurn(r) == Save(r, "append_turn.set") /\ Respond(r, "200") /\ UNCHANGED call

-----------------------------------------------------------------------------
(* GET /session/{session_id}/history                                       *)

ReadHistory(r) ==
  /\ At(r, "get") /\ Kind(r) = "history"
  /\ read' = [read EXCEPT ![r] = Session(Target(r))]
  /\ Respond(r, IF read'[r] = Nothing THEN "404" ELSE "200")
  /\ UNCHANGED <<redis, corpora, call, turn, before, crashes, failures>>

-----------------------------------------------------------------------------
(* GET /metrics                                                            *)

\* snapshot(): the request's own record comes after it.
ReadMetrics(r) ==
  /\ At(r, "snapshot")
  /\ read' = [read EXCEPT ![r] = metrics[Worker(r)]]
  /\ Respond(r, "200")
  /\ UNCHANGED <<redis, corpora, call, turn, before, crashes, failures>>

-----------------------------------------------------------------------------

\* A worker dies and is started again: its corpora, its counters and its requests are gone,
\* Redis is not.
Crash(w) ==
  /\ crashes < MaxCrashes /\ crashes' = crashes + 1
  /\ corpora' = [corpora EXCEPT ![w] = {}] /\ loop' = [loop EXCEPT ![w] = Nothing]
  /\ metrics' = [metrics EXCEPT ![w] = NoRequests]
  /\ pc' = [r \in Requests |-> IF InFlight(r) /\ Worker(r) = w THEN "connection_lost" ELSE pc[r]]
  /\ UNCHANGED <<redis, call, read, turn, before, failures>>

Upload(r)  == RejectFile(r) \/ LoadFile(r) \/ CheckSession(r) \/ CreateSession(r)
                \/ FetchForCorpus(r) \/ SaveCorpus(r)
Query(r)   == RateLimit(r) \/ StartTurn(r) \/ TurnReturns(r) \/ TurnRaises(r) \/ ResumeQuery(r)
                \/ FetchForProfile(r) \/ SaveProfile(r) \/ FetchForTurn(r) \/ SaveTurn(r)
Handler(r) == Upload(r) \/ Query(r) \/ ReadHistory(r) \/ ReadMetrics(r)

AllAnswered == (\A r \in Requests : pc[r] \in Responses) /\ UNCHANGED vars

Next == \/ \E r \in Requests : Arrive(r) \/ Handler(r) \/ RedisFails(r)
        \/ \E w \in Workers : Crash(w)
        \/ AllAnswered

\* A ready coroutine gets the loop, and the thread pool runs what it is given.
Fairness == \A r \in Requests : WF_vars(Handler(r))

Spec == Init /\ [][Next]_vars /\ Fairness

-----------------------------------------------------------------------------
(* Properties                                                              *)

TypeOK ==
  /\ redis \in [Requests -> Store!SessionData \cup {Nothing}]
  /\ corpora \in [Workers -> SUBSET Requests] /\ loop \in [Workers -> Requests \cup {Nothing}]
  /\ pc \in [Requests -> Steps]
  /\ call \in [Requests -> SentCalls \cup {NoCall}]
  /\ metrics \in [Workers -> Counters]
  /\ read \in [Requests -> Store!SessionData \cup Counters \cup {Nothing}]
  /\ turn \in [Requests -> Requests \cup {Nothing}] /\ before \in [Requests -> SUBSET Requests]
  /\ crashes \in 0..MaxCrashes /\ failures \in 0..MaxRedisFailures

(* Every SessionStore call takes effect at once although it is a GET and a  *)
(* SET of the whole session: the refinement of SessionStore.                *)
StoreIsAtomic == Store!Spec

PairsOf(history, r) ==
  {i \in 1..(Len(history) - 1) : /\ history[i] = [role |-> "user", turn |-> r]
                                 /\ history[i + 1] = [role |-> "assistant", turn |-> r]}
EntriesOf(history, r) == {i \in DOMAIN history : history[i].turn = r}

(* A query that was answered has its question and its answer in its         *)
(* session's history, next to each other and once, whatever other requests  *)
(* of the session, crashes and Redis failures came between.  This is the    *)
(* race of docs/SECURITY_AND_RELIABILITY.md 13.1: one event loop rules it   *)
(* out, and two workers have it.                                            *)
NoTurnLost ==
  \A q \in Requests : pc[q] = "200" /\ Kind(q) = "query" =>
    LET history == redis[Target(q)].chat_history
    IN  Cardinality(PairsOf(history, q)) = 1 /\ Cardinality(EntriesOf(history, q)) = 2

Answered(R) == {r \in R : pc[r] = "200"}
Uploads(s, R) == {u \in R : Kind(u) = "upload" /\ Target(u) = s}
Superseded(s, R) == {u \in Uploads(s, R) : \E v \in Uploads(s, R) : u \in before[v]}

(* Real-time order: what a query or a history request reads of its session  *)
(* has every turn, and no corpus older than the last upload, that was       *)
(* answered before the request arrived; and a session that was issued to a  *)
(* client is never unknown again: "a server restart no longer drops every   *)
(* active session".                                                         *)
ReadsAreCurrent ==
  /\ \A r \in Requests : pc[r] = "404" => Uploads(Target(r), Answered(before[r])) = {}
  /\ \A r \in Requests : read[r] # Nothing /\ Kind(r) \in {"query", "history"} =>
      /\ \A q \in Answered(before[r]) : Kind(q) = "query" /\ Target(q) = Target(r) =>
            EntriesOf(read[r].chat_history, q) # {}
      /\ Uploads(Target(r), Answered(before[r])) # {} =>
            read[r].corpus_ref \in Requests \ Superseded(Target(r), Answered(before[r]))

(* A session never points at a corpus that the process does not hold,       *)
(* unless the process was restarted: corpora are stored before the session  *)
(* refers to them, and an upload that fails halfway takes nothing away.     *)
CorpusAvailable ==
  crashes = 0 => \A s \in Requests : redis[s] # Nothing /\ redis[s].corpus_ref # Nothing =>
                                       redis[s].corpus_ref \in corpora[Worker(redis[s].corpus_ref)]

Stale(s) == redis[s] # Nothing /\ redis[s].profile # redis[s].corpus_ref

(* "A new upload in the same session explicitly invalidates the previous    *)
(* corpus's cached profile".  The code violates it when the upload comes    *)
(* while a query of the session runs.                                       *)
ProfileMatchesCorpus == \A s \in Requests : ~Stale(s)

(* How far that goes: a stale profile was carried over by a query that had  *)
(* arrived before the upload it survived was answered.  A client that waits *)
(* for each answer never sees one.                                          *)
StaleOnlyByOverlap ==
  \A s \in Requests : Stale(s) =>
    \E q \in Requests : /\ Kind(q) = "query" /\ Target(q) = s
                        /\ turn[q] = redis[s].profile /\ redis[s].corpus_ref \notin Answered(before[q])

Failed(R)    == {r \in R : pc[r] \in Errors}
Unhandled(R) == {r \in R : pc[r] = "500"}

(* What /metrics reports of a process that was not restarted is not what    *)
(* main.py:95-96 says, by which every request feeds the counters: they      *)
(* count each response, and as an error when its status is 400 or more,     *)
(* except those to unhandled exceptions, for which main.py:128 holds a      *)
(* status of 500 ready.  Each of these is missing from both counters for    *)
(* good, and nothing else ever is: all other requests that were answered    *)
(* before the /metrics request arrived are in.                              *)
OnlyUnhandledAreUncounted ==
  \A r \in Requests : Kind(r) = "metrics" /\ pc[r] = "200" /\ crashes = 0 =>
    LET others == Responded \ {r}
        Counts(n, R, S) == /\ n + Cardinality(Unhandled(before[r])) >= Cardinality(R)
                           /\ n + Cardinality(Unhandled(others)) <= Cardinality(S)
    IN  /\ Counts(read[r].requests, before[r], others)
        /\ Counts(read[r].errors, Failed(before[r]), Failed(others))

(* Every request is answered or its connection is lost in a crash: no       *)
(* handler waits for the loop, or a turn for the loop's next step, forever. *)
EveryRequestAnswered == \A r \in Requests : InFlight(r) ~> pc[r] \in Responses

-----------------------------------------------------------------------------
(* The inductive invariant behind the safety properties: what holds of any  *)
(* number of workers, and below it what only one event loop gives.          *)

UploadSteps == {"read_file", "exists", "create", "set_corpus.get", "set_corpus.set"}
TurnSteps   == {"in_threadpool", "resume", "update_profile.get", "update_profile.set",
                "append_turn.get", "append_turn.set"}
SetSteps    == {"set_corpus.set", "update_profile.set", "append_turn.set"}
Holding     == RedisSteps \ {"get"}   \* the steps that a handler gets to without an await

ControlInv ==
  /\ \A r \in Requests : before[r] \subseteq Responded
  /\ \A r \in Requests : pc[r] = "not_sent" => call[r] = NoCall
  /\ \A r \in Requests : pc[r] # "not_sent" => call[r] \in SentCalls
  /\ \A r \in Requests : pc[r] \in Holding => loop[Worker(r)] = r
  /\ \A w \in Workers : loop[w] # Nothing => Worker(loop[w]) = w /\ pc[loop[w]] \in Holding
  /\ \A r \in Requests : /\ pc[r] \in UploadSteps => Kind(r) = "upload"
                         /\ pc[r] \in TurnSteps => Kind(r) = "query"
                         /\ pc[r] = "get" => Kind(r) \in {"query", "history"}
                         /\ pc[r] = "snapshot" => Kind(r) = "metrics"

\* A session is in Redis from its create() on, and its id is known only after that.
SessionsInv ==
  /\ \A r \in Requests : Target(r) \in Requests => Target(Target(r)) = Target(r)
  /\ \A s \in Requests : Target(s) = s => redis[s] # Nothing
  /\ \A r \in Requests : pc[r] \in {"not_sent", "read_file", "exists", "create"} =>
                            redis[r] = Nothing /\ Target(r) # r
  /\ \A r \in Requests : pc[r] \in TurnSteps \cup {"set_corpus.get", "set_corpus.set"} => Target(r) \in Requests
  /\ \A r \in Requests : pc[r] = "200" /\ Kind(r) \in {"upload", "query"} => Target(r) \in Requests
  /\ \A r \in Requests : pc[r] \in TurnSteps \cup {"set_corpus.set"} => read[r] \in Store!SessionData
  /\ \A r \in Requests : pc[r] \in {"update_profile.get", "update_profile.set"} => turn[r] # Nothing

\* The corpus of a session, in Redis or in a handler's hands, was loaded before.
Held(session) == session.corpus_ref # Nothing =>
  /\ pc[session.corpus_ref] # "not_sent"
  /\ crashes = 0 => session.corpus_ref \in corpora[Worker(session.corpus_ref)]

CorporaInv ==
  /\ \A s \in Requests : redis[s] # Nothing => Held(redis[s])
  /\ \A r \in Requests : pc[r] \in SetSteps => Held(read[r])
  /\ \A r \in Requests : pc[r] \in UploadSteps \ {"read_file"} /\ crashes = 0 => r \in corpora[Worker(r)]

\* The responses that get to record_request.
Handled(R) == {r \in R : pc[r] \in ClientErrors \cup {"200"}}
Refused(R) == {r \in R : pc[r] \in ClientErrors}

CountersInv == \A w \in Workers : /\ metrics[w].requests <= Cardinality(Handled(Requests))
                                  /\ metrics[w].errors <= Cardinality(Refused(Requests))

IInv == TypeOK /\ ControlInv /\ SessionsInv /\ CorporaInv /\ CountersInv

OneWorker == \E w : Workers = {w}

\* Nothing came between the GET and the SET of a SessionStore call.
AtomicInv == \A r \in Requests : pc[r] \in SetSteps => read[r] = redis[Target(r)]

TurnIn(h, q) ==
  \E i \in 1..(Len(h) - 1) : /\ h[i] = [role |-> "user", turn |-> q]
                             /\ h[i + 1] = [role |-> "assistant", turn |-> q]
                             /\ EntriesOf(h, q) = {i, i + 1}

TurnsInv ==
  /\ \A q, s \in Requests : pc[q] \notin Responses /\ redis[s] # Nothing =>
                               EntriesOf(redis[s].chat_history, q) = {}
  /\ \A q \in Requests : pc[q] = "200" /\ Kind(q) = "query" =>
                            TurnIn(redis[Target(q)].chat_history, q)

\* The uploads of a session took effect in the order that clients saw.
OrderInv ==
  \A u \in Requests : pc[u] = "200" /\ Kind(u) = "upload" =>
    redis[Target(u)].corpus_ref \in Requests \ before[u]

\* Whoever arrived after the upload that is current either carries its profile or one
\* that a query carries which arrived before.
Explained(s, p, c) ==
  p = c \/ \E q \in Requests : /\ Kind(q) = "query" /\ Target(q) = s
                               /\ turn[q] = p /\ c \notin Answered(before[q])

ProfilesInv ==
  /\ \A s \in Requests : redis[s] # Nothing =>
        /\ redis[s].corpus_ref = Nothing <=> redis[s].profile = Nothing
        /\ Explained(s, redis[s].profile, redis[s].corpus_ref)
  /\ \A q \in Requests : pc[q] \in {"not_sent", "get", "in_threadpool"} => turn[q] = Nothing
  /\ \A q \in Requests : pc[q] \in TurnSteps => redis[Target(q)].corpus_ref # Nothing
  /\ \A q \in Requests : pc[q] = "in_threadpool" =>
        /\ read[q].profile # Nothing
        /\ \/ redis[Target(q)].corpus_ref \notin Answered(before[q])
           \/ Explained(Target(q), read[q].profile, redis[Target(q)].corpus_ref)
  /\ \A q \in Requests : pc[q] \in {"resume", "update_profile.get", "update_profile.set"} =>
        turn[q] # Nothing /\ Explained(Target(q), turn[q], redis[Target(q)].corpus_ref)

ExactCountersInv ==
  crashes = 0 => /\ \A w \in Workers : /\ metrics[w].requests = Cardinality(Handled(Requests))
                                       /\ metrics[w].errors = Cardinality(Refused(Requests))
                 /\ \A r \in Requests : pc[r] # "connection_lost"

MetricsReadInv ==
  \A r \in Requests : Kind(r) = "metrics" /\ pc[r] = "200" /\ crashes = 0 =>
    /\ read[r].requests >= Cardinality(Handled(before[r]))
    /\ read[r].requests <= Cardinality(Handled(Requests \ {r}))
    /\ read[r].errors >= Cardinality(Refused(before[r]))
    /\ read[r].errors <= Cardinality(Refused(Requests \ {r}))

\* A request has read nothing before it arrives, and what it reads is current for good.
ReadsInv ==
  /\ ReadsAreCurrent
  /\ \A r \in Requests : /\ pc[r] = "not_sent" => read[r] = Nothing
                         /\ pc[r] = "200" /\ Kind(r) = "metrics" => read[r] \in Counters

SoloInv == /\ AtomicInv /\ TurnsInv /\ OrderInv /\ ProfilesInv /\ ReadsInv
           /\ ExactCountersInv /\ MetricsReadInv
=============================================================================
