------------------------- MODULE SessionBackendProofs -------------------------
(***************************************************************************)
(* The safety of the backend's sessions, for any number of requests.       *)
(***************************************************************************)
EXTENDS SessionBackend, FiniteSetTheorems, TLAPS

LEMMA StepCases ==
  ASSUME [Next]_vars
  PROVE  \/ \E r \in Requests : Arrive(r) \/ Handler(r) \/ RedisFails(r)
         \/ \E w \in Workers : Crash(w)
         \/ UNCHANGED vars
BY DEF Next, AllAnswered

-----------------------------------------------------------------------------
(* What the steps of a request do, variable by variable                    *)

LEMMA OthersStay ==
  ASSUME TypeOK, NEW r \in Requests, Arrive(r) \/ Handler(r) \/ RedisFails(r), NEW d \in Requests, d # r
  PROVE  /\ pc'[d] = pc[d] /\ call'[d] = call[d] /\ read'[d] = read[d]
         /\ turn'[d] = turn[d] /\ before'[d] = before[d]
BY DEF TypeOK, Handler, Upload, Query, Arrive, RejectFile, LoadFile, CheckSession, CreateSession, FetchForCorpus, SaveCorpus,
       RateLimit, StartTurn, TurnReturns, TurnRaises, ResumeQuery, FetchForProfile, SaveProfile,
       FetchForTurn, SaveTurn, ReadHistory, ReadMetrics, RedisFails, Fetch, Save, At, Continue, Yield, Respond

LEMMA Domains ==
  ASSUME TypeOK, NEW r \in Requests, Arrive(r) \/ Handler(r) \/ RedisFails(r)
  PROVE  /\ pc' = [d \in Requests |-> pc'[d]] /\ call' = [d \in Requests |-> call'[d]]
         /\ before' = [d \in Requests |-> before'[d]]
BY DEF TypeOK, Handler, Upload, Query, Arrive, RejectFile, LoadFile, CheckSession, CreateSession, FetchForCorpus, SaveCorpus,
       RateLimit, StartTurn, TurnReturns, TurnRaises, ResumeQuery, FetchForProfile, SaveProfile,
       FetchForTurn, SaveTurn, ReadHistory, ReadMetrics, RedisFails, Fetch, Save, At, Continue, Yield, Respond

LEMMA Edges ==
  ASSUME TypeOK, NEW r \in Requests, Arrive(r) \/ Handler(r) \/ RedisFails(r)
  PROVE  \/ Arrive(r) /\ pc[r] = "not_sent" /\ pc'[r] \in {"read_file", "snapshot", "get"}
         \/ pc[r] = "read_file" /\ pc'[r] \in {"400", "500", "create", "exists"}
         \/ pc[r] = "exists" /\ pc'[r] \in {"500", "create", "set_corpus.get"}
         \/ pc[r] = "create" /\ pc'[r] \in {"500", "set_corpus.get"}
         \/ pc[r] = "set_corpus.get" /\ pc'[r] \in {"500", "set_corpus.set"}
         \/ pc[r] = "set_corpus.set" /\ pc'[r] \in {"500", "200"}
         \/ pc[r] = "get" /\ pc'[r] \in {"500", "429", "404", "400", "200", "in_threadpool"}
            /\ (pc'[r] = "in_threadpool" => Kind(r) = "query") /\ (pc'[r] = "200" => Kind(r) = "history")
         \/ pc[r] = "in_threadpool" /\ pc'[r] \in {"500", "resume"}
         \/ pc[r] = "resume" /\ pc'[r] \in {"update_profile.get", "append_turn.get"}
         \/ pc[r] = "update_profile.get" /\ pc'[r] \in {"500", "update_profile.set"}
         \/ pc[r] = "update_profile.set" /\ pc'[r] \in {"500", "append_turn.get"}
         \/ pc[r] = "append_turn.get" /\ pc'[r] \in {"500", "append_turn.set"}
         \/ pc[r] = "append_turn.set" /\ pc'[r] \in {"500", "200"}
         \/ pc[r] = "snapshot" /\ pc'[r] = "200"
<1>. USE DEF TypeOK, At, Continue, Yield, Respond
<1>1. CASE Arrive(r)
  BY <1>1 DEF Arrive
<1>2. CASE Upload(r)
  BY <1>2 DEF Upload, RejectFile, LoadFile, CheckSession, CreateSession, FetchForCorpus, SaveCorpus, Fetch, Save
<1>3. CASE Query(r)
  BY <1>3 DEF Query, RateLimit, StartTurn, TurnReturns, TurnRaises, ResumeQuery, FetchForProfile, SaveProfile,
       FetchForTurn, SaveTurn, Fetch, Save
<1>4. CASE ReadHistory(r) \/ ReadMetrics(r) \/ RedisFails(r)
  BY <1>4 DEF ReadHistory, ReadMetrics, RedisFails, RedisSteps
<1>. QED
  BY <1>1, <1>2, <1>3, <1>4 DEF Handler

LEMMA Bounds ==
  ASSUME TypeOK, NEW r \in Requests, Arrive(r) \/ Handler(r) \/ RedisFails(r)
  PROVE  crashes' = crashes /\ failures' \in 0..MaxRedisFailures
<1>1. CASE RedisFails(r)
  BY <1>1, BoundsAssumption DEF RedisFails, TypeOK
<1>2. CASE Arrive(r) \/ Handler(r)
  BY <1>2 DEF TypeOK, Handler, Upload, Query, Arrive, RejectFile, LoadFile, CheckSession, CreateSession,
       FetchForCorpus, SaveCorpus, RateLimit, StartTurn, TurnReturns, TurnRaises, ResumeQuery, FetchForProfile,
       SaveProfile, FetchForTurn, SaveTurn, ReadHistory, ReadMetrics, Fetch, Save
<1>. QED
  BY <1>1, <1>2

\* An arriving request: what it may ask for, and what had been answered when it did.
LEMMA Arrival ==
  ASSUME TypeOK, NEW r \in Requests, Arrive(r)
  PROVE  /\ call'[r] \in SentCalls /\ Target(r)' \in KnownIds \cup {Nothing}
         /\ pc'[r] = "read_file" => Kind(r)' = "upload"
         /\ pc'[r] = "get" => Kind(r)' \in {"query", "history"}
         /\ pc'[r] = "snapshot" => Kind(r)' = "metrics"
         /\ before'[r] = Responded
         /\ UNCHANGED <<redis, corpora, loop, metrics, read, turn, failures>>
BY KindsAssumption DEF TypeOK, Arrive, Kind, Worker, Target, SentCalls, KnownIds

LEMMA CallStays ==
  ASSUME TypeOK, NEW r \in Requests, Handler(r) \/ RedisFails(r), call[r] \in SentCalls
  PROVE  /\ Kind(r)' = Kind(r) /\ Worker(r)' = Worker(r) /\ before' = before
         /\ \/ /\ call' = call /\ Target(r)' = Target(r)
               /\ ~(pc[r] = "create" /\ pc'[r] = "set_corpus.get")
            \/ pc[r] = "create" /\ pc'[r] = "set_corpus.get" /\ Target(r)' = r
         /\ call'[r] \in SentCalls
<1>. USE DEF TypeOK, At, Continue, Yield, Respond, Kind, Worker, Target, SentCalls
<1>1. CASE CreateSession(r)
  <2>1. call' = [call EXCEPT ![r].session = r] /\ before' = before /\ pc[r] = "create" /\ pc'[r] = "set_corpus.get"
    BY <1>1 DEF CreateSession, Save
  <2>2. call'[r] = [kind |-> call[r].kind, worker |-> call[r].worker, session |-> r]
    BY <2>1
  <2>. QED
    BY <2>1, <2>2
<1>2. CASE ~CreateSession(r)
  <2>1. call' = call /\ before' = before
    BY <1>2 DEF Handler, Upload, Query, RejectFile, LoadFile, CheckSession, FetchForCorpus, SaveCorpus,
       RateLimit, StartTurn, TurnReturns, TurnRaises, ResumeQuery, FetchForProfile, SaveProfile,
       FetchForTurn, SaveTurn, ReadHistory, ReadMetrics, RedisFails, Fetch, Save
  <2>2. ~(pc[r] = "create" /\ pc'[r] = "set_corpus.get")
    BY <1>2 DEF Handler, Upload, Query, RejectFile, LoadFile, CheckSession, FetchForCorpus, SaveCorpus,
       RateLimit, StartTurn, TurnReturns, TurnRaises, ResumeQuery, FetchForProfile, SaveProfile,
       FetchForTurn, SaveTurn, ReadHistory, ReadMetrics, RedisFails, Fetch, Save
  <2>. QED
    BY <2>1, <2>2
<1>. QED
  BY <1>1, <1>2

\* A handler runs only while nobody else holds the loop, and holds it on every step that
\* it gets to without an await.
LEMMA LoopMoves ==
  ASSUME TypeOK, NEW r \in Requests, Arrive(r) \/ Handler(r) \/ RedisFails(r)
  PROVE  \/ loop' = loop /\ pc[r] \in {"not_sent", "in_threadpool"} /\ pc'[r] \notin Holding
         \/ /\ loop[Worker(r)] \in {Nothing, r} /\ pc[r] # "not_sent"
            /\ \/ loop' = [loop EXCEPT ![Worker(r)] = r] /\ pc'[r] \in Holding
               \/ loop' = [loop EXCEPT ![Worker(r)] = Nothing] /\ pc'[r] \notin Holding
<1>. USE DEF TypeOK, At, Continue, Yield, Respond, Holding, RedisSteps
<1>1. CASE Arrive(r)
  BY <1>1 DEF Arrive
<1>2. CASE Upload(r)
  BY <1>2 DEF Upload, RejectFile, LoadFile, CheckSession, CreateSession, FetchForCorpus, SaveCorpus, Fetch, Save
<1>3. CASE Query(r)
  BY <1>3 DEF Query, RateLimit, StartTurn, TurnReturns, TurnRaises, ResumeQuery, FetchForProfile, SaveProfile,
       FetchForTurn, SaveTurn, Fetch, Save
<1>4. CASE ReadHistory(r) \/ ReadMetrics(r) \/ RedisFails(r)
  BY <1>4 DEF ReadHistory, ReadMetrics, RedisFails
<1>. QED
  BY <1>1, <1>2, <1>3, <1>4 DEF Handler

LEMMA RedisMoves ==
  ASSUME TypeOK, NEW r \in Requests, Arrive(r) \/ Handler(r) \/ RedisFails(r)
  PROVE  \/ redis' = redis /\ (pc[r] \in SetSteps \cup {"create"} => pc'[r] = "500")
         \/ pc[r] = "create" /\ redis' = [redis EXCEPT ![r] = Store!NewSession]
         \/ pc[r] = "set_corpus.set" /\ redis' = [redis EXCEPT ![Target(r)] = Store!WithCorpus(read[r], r, r)]
         \/ pc[r] = "update_profile.set" /\ redis' = [redis EXCEPT ![Target(r)] = Store!WithProfile(read[r], turn[r])]
         \/ pc[r] = "append_turn.set" /\ redis' = [redis EXCEPT ![Target(r)] = Store!WithTurn(read[r], r)]
<1>. USE DEF TypeOK, At, Continue, Yield, Respond, SetSteps
<1>0. \/ Written(r) = redis
      \/ pc[r] = "create" /\ Written(r) = [redis EXCEPT ![r] = Store!NewSession]
      \/ pc[r] = "set_corpus.set" /\ Written(r) = [redis EXCEPT ![Target(r)] = Store!WithCorpus(read[r], r, r)]
      \/ pc[r] = "update_profile.set" /\ Written(r) = [redis EXCEPT ![Target(r)] = Store!WithProfile(read[r], turn[r])]
      \/ pc[r] = "append_turn.set" /\ Written(r) = [redis EXCEPT ![Target(r)] = Store!WithTurn(read[r], r)]
  BY DEF Written
<1>1. CASE Arrive(r) \/ ReadHistory(r) \/ ReadMetrics(r)
  BY <1>1 DEF Arrive, ReadHistory, ReadMetrics
<1>2. CASE RejectFile(r) \/ LoadFile(r) \/ CheckSession(r) \/ FetchForCorpus(r)
  BY <1>2 DEF RejectFile, LoadFile, CheckSession, FetchForCorpus, Fetch
<1>3. CASE CreateSession(r) \/ SaveCorpus(r) \/ SaveProfile(r) \/ SaveTurn(r)
  BY <1>3 DEF Save, CreateSession, SaveCorpus, SaveProfile, SaveTurn, Written
<1>4. CASE RateLimit(r) \/ StartTurn(r) \/ TurnReturns(r) \/ TurnRaises(r) \/ ResumeQuery(r)
           \/ FetchForProfile(r) \/ FetchForTurn(r)
  BY <1>4 DEF RateLimit, StartTurn, TurnReturns, TurnRaises, ResumeQuery, FetchForProfile, FetchForTurn, Fetch
<1>5. CASE RedisFails(r)
  <2>1. pc'[r] = "500" /\ redis' \in {redis, Written(r)}
    BY <1>5 DEF RedisFails
  <2>. QED
    BY <1>0, <2>1
<1>. QED
  BY <1>1, <1>2, <1>3, <1>4, <1>5 DEF Handler, Upload, Query

LEMMA ReadMoves ==
  ASSUME TypeOK, NEW r \in Requests, Arrive(r) \/ Handler(r) \/ RedisFails(r)
  PROVE  \/ read' = read /\ pc[r] # "snapshot" /\ pc'[r] \notin SetSteps \cup {"404", "in_threadpool"}
         \/ /\ pc[r] \in {"set_corpus.get", "update_profile.get", "append_turn.get"}
            /\ pc'[r] \in SetSteps /\ read' = [read EXCEPT ![r] = redis[Target(r)]]
         \/ /\ pc[r] = "get" /\ pc'[r] \in {"404", "400", "200", "in_threadpool"}
            /\ read' = [read EXCEPT ![r] = Session(Target(r))]
            /\ pc'[r] = "404" <=> Session(Target(r)) = Nothing
            /\ pc'[r] = "in_threadpool" => Session(Target(r)).corpus_ref # Nothing
         \/ /\ pc[r] = "snapshot" /\ pc'[r] = "200"
            /\ read' = [read EXCEPT ![r] = metrics[Worker(r)]]
<1>. USE DEF TypeOK, At, Continue, Yield, Respond, SetSteps
<1>1. CASE Arrive(r) \/ RedisFails(r)
  BY <1>1 DEF Arrive, RedisFails, RedisSteps
<1>2. CASE Upload(r)
  BY <1>2 DEF Upload, RejectFile, LoadFile, CheckSession, CreateSession, FetchForCorpus, SaveCorpus, Fetch, Save
<1>3. CASE RateLimit(r) \/ TurnReturns(r) \/ TurnRaises(r) \/ ResumeQuery(r)
           \/ FetchForProfile(r) \/ SaveProfile(r) \/ FetchForTurn(r) \/ SaveTurn(r)
  BY <1>3 DEF RateLimit, TurnReturns, TurnRaises, ResumeQuery, FetchForProfile, SaveProfile,
       FetchForTurn, SaveTurn, Fetch, Save
<1>4. CASE StartTurn(r)
  BY <1>4 DEF StartTurn
<1>5. CASE ReadHistory(r)
  BY <1>5 DEF ReadHistory
<1>6. CASE ReadMetrics(r)
  BY <1>6 DEF ReadMetrics
<1>. QED
  BY <1>1, <1>2, <1>3, <1>4, <1>5, <1>6 DEF Handler, Query

LEMMA TurnMoves ==
  ASSUME TypeOK, NEW r \in Requests, Arrive(r) \/ Handler(r) \/ RedisFails(r)
  PROVE  /\ \/ turn' = turn /\ pc'[r] # "resume"
            \/ /\ pc[r] = "in_threadpool" /\ pc'[r] = "resume"
               /\ \E p \in TurnProfiles(r) : turn' = [turn EXCEPT ![r] = p]
         /\ pc[r] = "resume" /\ pc'[r] = "update_profile.get" => turn[r] # Nothing
<1>. USE DEF TypeOK, At, Continue, Yield, Respond
<1>1. CASE Arrive(r)
  BY <1>1 DEF Arrive
<1>2. CASE Upload(r)
  BY <1>2 DEF Upload, RejectFile, LoadFile, CheckSession, CreateSession, FetchForCorpus, SaveCorpus, Fetch, Save
<1>3. CASE RateLimit(r) \/ StartTurn(r) \/ TurnReturns(r) \/ TurnRaises(r) \/ ResumeQuery(r)
  BY <1>3 DEF RateLimit, StartTurn, TurnReturns, TurnRaises, ResumeQuery
<1>4. CASE FetchForProfile(r) \/ SaveProfile(r) \/ FetchForTurn(r) \/ SaveTurn(r)
  BY <1>4 DEF FetchForProfile, SaveProfile, FetchForTurn, SaveTurn, Fetch, Save
<1>5. CASE ReadHistory(r) \/ ReadMetrics(r) \/ RedisFails(r)
  BY <1>5 DEF ReadHistory, ReadMetrics, RedisFails
<1>. QED
  BY <1>1, <1>2, <1>3, <1>4, <1>5 DEF Handler, Query

LEMMA CorporaMoves ==
  ASSUME TypeOK, NEW r \in Requests, Arrive(r) \/ Handler(r) \/ RedisFails(r)
  PROVE  /\ \/ corpora' = corpora /\ ~(pc[r] = "read_file" /\ pc'[r] \in {"create", "exists"})
            \/ corpora' = [corpora EXCEPT ![Worker(r)] = @ \cup {r}] /\ pc[r] = "read_file"
         /\ pc[r] = "exists" /\ pc'[r] = "set_corpus.get" => Session(Target(r)) # Nothing
<1>. USE DEF TypeOK, At, Continue, Yield, Respond
<1>1. CASE Arrive(r)
  BY <1>1 DEF Arrive
<1>2. CASE Upload(r)
  BY <1>2 DEF Upload, RejectFile, LoadFile, CheckSession, CreateSession, FetchForCorpus, SaveCorpus, Fetch, Save
<1>3. CASE Query(r)
  BY <1>3 DEF Query, RateLimit, StartTurn, TurnReturns, TurnRaises, ResumeQuery, FetchForProfile, SaveProfile,
       FetchForTurn, SaveTurn, Fetch, Save
<1>5. CASE ReadHistory(r) \/ ReadMetrics(r) \/ RedisFails(r)
  BY <1>5 DEF ReadHistory, ReadMetrics, RedisFails
<1>. QED
  BY <1>1, <1>2, <1>3, <1>5 DEF Handler

LEMMA MetricsMoves ==
  ASSUME TypeOK, NEW r \in Requests, Arrive(r) \/ Handler(r) \/ RedisFails(r)
  PROVE  \/ metrics' = metrics /\ pc'[r] \notin ClientErrors \cup {"200"}
         \/ /\ pc'[r] \in ClientErrors \cup {"200"} /\ pc[r] # "not_sent"
            /\ metrics' = [metrics EXCEPT ![Worker(r)] = Recorded(@, pc'[r])]
<1>. USE DEF TypeOK, At, Continue, Yield, Respond, Counted, CountIn, ClientErrors
<1>1. CASE Arrive(r)
  BY <1>1 DEF Arrive
<1>2. CASE Upload(r)
  BY <1>2 DEF Upload, RejectFile, LoadFile, CheckSession, CreateSession, FetchForCorpus, SaveCorpus, Fetch, Save
<1>3. CASE Query(r)
  BY <1>3 DEF Query, RateLimit, StartTurn, TurnReturns, TurnRaises, ResumeQuery, FetchForProfile, SaveProfile,
       FetchForTurn, SaveTurn, Fetch, Save
<1>5. CASE ReadHistory(r) \/ ReadMetrics(r) \/ RedisFails(r)
  BY <1>5 DEF ReadHistory, ReadMetrics, RedisFails
<1>. QED
  BY <1>1, <1>2, <1>3, <1>5 DEF Handler

\* A crash ends the requests of its worker; nobody else moves.
LEMMA CrashMoves ==
  ASSUME TypeOK, NEW w \in Workers, Crash(w)
  PROVE  /\ \A r \in Requests : \/ pc'[r] = pc[r] /\ (Worker(r) = w => ~InFlight(r))
                                \/ pc'[r] = "connection_lost" /\ InFlight(r) /\ Worker(r) = w
         /\ crashes' = crashes + 1 /\ crashes' \in 0..MaxCrashes
         /\ loop' = [loop EXCEPT ![w] = Nothing] /\ corpora' = [corpora EXCEPT ![w] = {}]
         /\ metrics' = [metrics EXCEPT ![w] = NoRequests]
         /\ pc' \in [Requests -> Steps] /\ UNCHANGED <<redis, call, read, turn, before, failures>>
<1>1. crashes' = crashes + 1 /\ crashes' \in 0..MaxCrashes
  BY BoundsAssumption DEF TypeOK, Crash
<1>2. pc' \in [Requests -> Steps]
  <2>1. "connection_lost" \in Steps
    BY DEF Steps, Responses, Errors
  <2>2. DOMAIN pc = Requests /\ \A r \in Requests : pc[r] \in Steps
    BY DEF TypeOK
  <2>. QED
    BY <2>1, <2>2 DEF Crash
<1>3. \A r \in Requests : \/ pc'[r] = pc[r] /\ (Worker(r) = w => ~InFlight(r))
                          \/ pc'[r] = "connection_lost" /\ InFlight(r) /\ Worker(r) = w
  BY DEF Crash
<1>. QED
  BY <1>1, <1>2, <1>3 DEF Crash

-----------------------------------------------------------------------------
(* Who runs when                                                           *)

\* A response is for good.
LEMMA RespondedGrows ==
  ASSUME TypeOK, [Next]_vars
  PROVE  \A r \in Requests : pc[r] \in Responses => pc'[r] = pc[r]
<1>1. ASSUME NEW r \in Requests, Arrive(r) \/ Handler(r) \/ RedisFails(r)
      PROVE  \A d \in Requests : pc[d] \in Responses => pc'[d] = pc[d]
  <2>1. pc[r] \notin Responses
    BY <1>1, Edges DEF Responses, Errors, ClientErrors
  <2>. QED
    BY <1>1, <2>1, OthersStay
<1>2. ASSUME NEW w \in Workers, Crash(w)
      PROVE  \A d \in Requests : pc[d] \in Responses => pc'[d] = pc[d]
  BY <1>2, CrashMoves DEF InFlight
<1>3. CASE UNCHANGED vars
  BY <1>3 DEF vars
<1>. QED
  BY <1>1, <1>2, <1>3, StepCases

LEMMA ControlInit == Init => ControlInv
BY DEF Init, ControlInv, Holding, RedisSteps, UploadSteps, TurnSteps, Responded, Responses, Errors, ClientErrors

LEMMA ControlStep == TypeOK /\ ControlInv /\ [Next]_vars => ControlInv'
<1>. SUFFICES ASSUME TypeOK, ControlInv, [Next]_vars PROVE ControlInv'
  OBVIOUS
<1>0. Responded \subseteq Responded' /\ Nothing \notin Requests
  BY RespondedGrows, NamesAssumption DEF Responded
<1>1. ASSUME NEW r \in Requests, Arrive(r) \/ Handler(r) \/ RedisFails(r) PROVE ControlInv'
  <2>. USE <1>1
  <2>0. pc[r] # "not_sent" => /\ ~Arrive(r) /\ Worker(r) \in Workers /\ Kind(r)' = Kind(r)
                              /\ Worker(r)' = Worker(r) /\ before' = before
    BY CallStays DEF Arrive, ControlInv, SentCalls, Worker
  <2>1. Arrive(r) => pc[r] = "not_sent"
    BY DEF Arrive
  <2>2. \A d \in Requests : before'[d] \subseteq Responded'
    <3>1. before'[r] \subseteq Responded'
      <4>1. before[r] \subseteq Responded
        BY DEF ControlInv
      <4>2. pc[r] = "not_sent" => Arrive(r)
        BY Edges
      <4>. QED
        BY <1>0, <2>0, <4>1, <4>2, Arrival
    <3>. QED
      BY <1>0, <3>1, OthersStay DEF ControlInv
  <2>3. pc'[r] # "not_sent" /\ call'[r] \in SentCalls
    BY Edges, CallStays, Arrival DEF ControlInv
  <2>4. \A d \in Requests : /\ pc'[d] = "not_sent" => call'[d] = NoCall
                            /\ pc'[d] # "not_sent" => call'[d] \in SentCalls
    BY <2>3, OthersStay DEF ControlInv
  <2>5. \A d \in Requests : /\ pc'[d] \in UploadSteps => Kind(d)' = "upload"
                            /\ pc'[d] \in TurnSteps => Kind(d)' = "query"
                            /\ pc'[d] = "get" => Kind(d)' \in {"query", "history"}
                            /\ pc'[d] = "snapshot" => Kind(d)' = "metrics"
    <3>1. /\ pc'[r] \in UploadSteps => Kind(r)' = "upload"
          /\ pc'[r] \in TurnSteps => Kind(r)' = "query"
          /\ pc'[r] = "get" => Kind(r)' \in {"query", "history"}
          /\ pc'[r] = "snapshot" => Kind(r)' = "metrics"
      BY <2>0, <2>1, Edges, Arrival DEF ControlInv, UploadSteps, TurnSteps
    <3>. QED
      BY <3>1, OthersStay DEF ControlInv, Kind
  <2>7. \A d \in Requests \ {r} : pc'[d] = pc[d] /\ Worker(d)' = Worker(d)
    BY OthersStay DEF Worker
  <2>6. /\ \A d \in Requests : pc'[d] \in Holding => loop'[Worker(d)'] = d
        /\ \A w \in Workers : loop'[w] # Nothing => call'[loop'[w]].worker = w /\ pc'[loop'[w]] \in Holding
    <3>0. \A d \in Requests : pc[d] \in Holding => Worker(d) \in Workers
      BY DEF ControlInv, Holding, RedisSteps, Worker, SentCalls
    <3>1. CASE loop' = loop /\ pc[r] \in {"not_sent", "in_threadpool"} /\ pc'[r] \notin Holding
      <4>1. \A w \in Workers : loop[w] # r
        BY <1>0, <3>1 DEF ControlInv, Holding, RedisSteps
      <4>. QED
        BY <3>0, <3>1, <4>1, <2>7 DEF ControlInv, TypeOK, Worker
    <3>2. CASE /\ loop[Worker(r)] \in {Nothing, r} /\ Worker(r) \in Workers /\ Worker(r)' = Worker(r)
               /\ loop' = [loop EXCEPT ![Worker(r)] = r] /\ pc'[r] \in Holding
      <4>1. \A d \in Requests \ {r} : pc[d] \in Holding => Worker(d) # Worker(r)
        BY <1>0, <3>2 DEF ControlInv
      <4>2. \A d \in Requests : pc'[d] \in Holding => loop'[Worker(d)'] = d
        BY <3>0, <3>2, <4>1, <2>7 DEF ControlInv, TypeOK
      <4>3. ASSUME NEW w \in Workers, loop'[w] # Nothing PROVE call'[loop'[w]].worker = w /\ pc'[loop'[w]] \in Holding
        <5>1. CASE w = Worker(r)
          BY <3>2, <5>1 DEF TypeOK, Worker
        <5>2. CASE w # Worker(r)
          <6>1. loop'[w] = loop[w] /\ loop[w] \in Requests /\ Worker(loop[w]) = w /\ pc[loop[w]] \in Holding
            BY <3>2, <4>3, <5>2 DEF ControlInv, TypeOK
          <6>. QED
            BY <5>2, <6>1, <2>7 DEF Worker
        <5>. QED
          BY <5>1, <5>2
      <4>. QED
        BY <4>2, <4>3
    <3>3. CASE /\ loop[Worker(r)] \in {Nothing, r} /\ Worker(r) \in Workers /\ Worker(r)' = Worker(r)
               /\ loop' = [loop EXCEPT ![Worker(r)] = Nothing] /\ pc'[r] \notin Holding
      <4>1. \A d \in Requests \ {r} : pc[d] \in Holding => Worker(d) # Worker(r)
        BY <1>0, <3>3 DEF ControlInv
      <4>2. \A d \in Requests : pc'[d] \in Holding => loop'[Worker(d)'] = d
        BY <3>0, <3>3, <4>1, <2>7 DEF ControlInv, TypeOK
      <4>3. ASSUME NEW w \in Workers, loop'[w] # Nothing PROVE call'[loop'[w]].worker = w /\ pc'[loop'[w]] \in Holding
        <5>1. w # Worker(r) /\ loop'[w] = loop[w] /\ loop[w] \in Requests
          BY <3>3, <4>3 DEF TypeOK
        <5>2. Worker(loop[w]) = w /\ pc[loop[w]] \in Holding
          BY <4>3, <5>1 DEF ControlInv
        <5>. QED
          BY <5>1, <5>2, <2>7 DEF Worker
      <4>. QED
        BY <4>2, <4>3
    <3>. QED
      BY <2>0, <3>1, <3>2, <3>3, LoopMoves
  <2>. QED
    BY <2>2, <2>4, <2>5, <2>6 DEF ControlInv, Worker
<1>2. ASSUME NEW w \in Workers, Crash(w) PROVE ControlInv'
  <2>1. \A d \in Requests : pc'[d] = pc[d] \/ (pc'[d] = "connection_lost" /\ pc[d] # "not_sent")
    BY <1>2, CrashMoves DEF InFlight
  <2>2. call' = call /\ before' = before /\ loop' = [loop EXCEPT ![w] = Nothing]
    BY <1>2, CrashMoves
  <2>3. \A d \in Requests : pc'[d] \in Holding => pc'[d] = pc[d] /\ Worker(d) # w
    BY <1>2, CrashMoves DEF Holding, RedisSteps, InFlight, Responses, Errors, ClientErrors
  <2>4. \A d \in Requests : Worker(d) # w => pc'[d] = pc[d]
    BY <1>2, CrashMoves
  <2>5. \A d \in Requests : pc'[d] \in Holding => loop'[Worker(d)] = d
    <3>1. \A d \in Requests : pc[d] \in Holding => Worker(d) \in Workers /\ loop[Worker(d)] = d
      BY DEF ControlInv, Holding, RedisSteps, Worker, SentCalls
    <3>. QED
      BY <2>2, <2>3, <3>1 DEF TypeOK
  <2>6. \A v \in Workers : loop'[v] # Nothing => call'[loop'[v]].worker = v /\ pc'[loop'[v]] \in Holding
    <3>1. \A v \in Workers : loop'[v] # Nothing => v # w /\ loop'[v] = loop[v] /\ loop[v] \in Requests
      BY <2>2 DEF TypeOK
    <3>. QED
      BY <2>2, <2>4, <3>1 DEF ControlInv, Worker
  <2>7. /\ \A d \in Requests : pc'[d] = "not_sent" => call[d] = NoCall
        /\ \A d \in Requests : pc'[d] # "not_sent" => call[d] \in SentCalls
    BY <2>1 DEF ControlInv
  <2>8. \A d \in Requests : /\ pc'[d] \in UploadSteps => Kind(d) = "upload"
                            /\ pc'[d] \in TurnSteps => Kind(d) = "query"
                            /\ pc'[d] = "get" => Kind(d) \in {"query", "history"}
                            /\ pc'[d] = "snapshot" => Kind(d) = "metrics"
    BY <2>1 DEF ControlInv, UploadSteps, TurnSteps
  <2>9. \A d \in Requests : Kind(d)' = Kind(d) /\ Worker(d)' = Worker(d)
    BY <2>2 DEF Kind, Worker
  <2>10. \A d \in Requests : before'[d] \subseteq Responded'
    BY <1>0, <2>2 DEF ControlInv
  <2>. QED
    BY <2>2, <2>5, <2>6, <2>7, <2>8, <2>9, <2>10 DEF ControlInv, Worker
<1>3. CASE UNCHANGED vars
  BY <1>3 DEF vars, ControlInv, Responded, Kind, Worker
<1>. QED
  BY <1>1, <1>2, <1>3, StepCases

-----------------------------------------------------------------------------
(* The sessions and their types                                            *)

\* What the operations of SessionStore make of a session.
LEMMA SessionFacts ==
  ASSUME NEW session \in Store!SessionData, NEW r \in Requests, NEW p \in Requests
  PROVE  /\ Store!WithCorpus(session, r, r) \in Store!SessionData
         /\ Store!WithCorpus(session, r, r).corpus_ref = r /\ Store!WithCorpus(session, r, r).profile = r
         /\ Store!WithCorpus(session, r, r).chat_history = session.chat_history
         /\ Store!WithProfile(session, p) \in Store!SessionData
         /\ Store!WithProfile(session, p).corpus_ref = session.corpus_ref /\ Store!WithProfile(session, p).profile = p
         /\ Store!WithProfile(session, p).chat_history = session.chat_history
         /\ Store!WithTurn(session, r) \in Store!SessionData
         /\ Store!WithTurn(session, r).corpus_ref = session.corpus_ref
         /\ Store!WithTurn(session, r).profile = session.profile
         /\ Store!WithTurn(session, r).chat_history
              = session.chat_history \o << [role |-> "user", turn |-> r], [role |-> "assistant", turn |-> r] >>
<1>. DEFINE h == session.chat_history
            tail == << [role |-> "user", turn |-> r], [role |-> "assistant", turn |-> r] >>
<1>1. /\ session.corpus_ref \in Store!Maybe /\ session.profile \in Store!Maybe /\ h \in Seq(Store!Turns)
      /\ session = [corpus_ref |-> session.corpus_ref, profile |-> session.profile, chat_history |-> h]
  BY DEF Store!SessionData
<1>2. tail \in Seq(Store!Turns)
  <2>1. [role |-> "user", turn |-> r] \in Store!Turns /\ [role |-> "assistant", turn |-> r] \in Store!Turns
    BY DEF Store!Turns
  <2>. QED
    BY <2>1
<1>3. h \o tail \in Seq(Store!Turns)
  BY <1>1, <1>2
<1>4. r \in Store!Maybe /\ p \in Store!Maybe
  BY DEF Store!Maybe
<1>5. Store!WithCorpus(session, r, r) = [corpus_ref |-> r, profile |-> r, chat_history |-> h]
  <2>. DEFINE new == [corpus_ref |-> r, profile |-> session.profile, chat_history |-> h]
  <2>1. [session EXCEPT !.corpus_ref = r] = new
    BY <1>1
  <2>2. [new EXCEPT !.profile = r] = [corpus_ref |-> r, profile |-> r, chat_history |-> h]
    OBVIOUS
  <2>3. Store!WithCorpus(session, r, r) = [new EXCEPT !.profile = r]
    BY <2>1 DEF Store!WithCorpus
  <2>. QED
    BY <2>2, <2>3
<1>6. Store!WithProfile(session, p) = [corpus_ref |-> session.corpus_ref, profile |-> p, chat_history |-> h]
  BY <1>1 DEF Store!WithProfile
<1>7. Store!WithTurn(session, r) = [corpus_ref |-> session.corpus_ref, profile |-> session.profile,
                                   chat_history |-> h \o tail]
  <2>1. Store!WithTurn(session, r) = [session EXCEPT !.chat_history = h \o tail]
    BY DEF Store!WithTurn
  <2>2. ASSUME NEW new
        PROVE  [session EXCEPT !.chat_history = new]
                 = [corpus_ref |-> session.corpus_ref, profile |-> session.profile, chat_history |-> new]
    BY <1>1
  <2>. HIDE DEF tail
  <2>. QED
    BY <2>1, <2>2
<1>. HIDE DEF tail
<1>8. /\ [corpus_ref |-> r, profile |-> r, chat_history |-> h] \in Store!SessionData
      /\ [corpus_ref |-> session.corpus_ref, profile |-> p, chat_history |-> h] \in Store!SessionData
      /\ [corpus_ref |-> session.corpus_ref, profile |-> session.profile, chat_history |-> h \o tail] \in Store!SessionData
  BY <1>1, <1>3, <1>4 DEF Store!SessionData
<1>. QED
  BY <1>5, <1>6, <1>7, <1>8 DEF tail

LEMMA NewSessionFacts ==
  /\ Store!NewSession \in Store!SessionData /\ Store!NewSession # Nothing
  /\ Store!NewSession.corpus_ref = Nothing /\ Store!NewSession.profile = Nothing
  /\ Store!NewSession.chat_history = <<>>
<1>1. Store!NewSession \in Store!SessionData
  <2>1. <<>> \in Seq(Store!Turns) /\ Nothing \in Store!Maybe
    BY DEF Store!Maybe
  <2>. QED
    BY <2>1 DEF Store!NewSession, Store!SessionData
<1>. QED
  BY <1>1, NothingAssumption DEF Store!NewSession

\* The session that a mutator writes is one: it was found and its id is known.
LEMMA Targets ==
  ASSUME TypeOK, SessionsInv, NEW r \in Requests, pc[r] \in TurnSteps \cup {"set_corpus.get", "set_corpus.set"}
  PROVE  /\ Target(r) \in Requests /\ Target(Target(r)) = Target(r)
         /\ redis[Target(r)] # Nothing /\ redis[Target(r)] \in Store!SessionData
BY DEF TypeOK, SessionsInv

\* What a step writes to Redis, and that it takes no session away.
LEMMA Writes ==
  ASSUME TypeOK, SessionsInv, NEW r \in Requests, Arrive(r) \/ Handler(r) \/ RedisFails(r)
  PROVE  /\ redis' \in [Requests -> Store!SessionData \cup {Nothing}]
         /\ \A s \in Requests : redis[s] # Nothing => redis'[s] # Nothing
         /\ \/ redis' = redis
            \/ pc[r] = "create" /\ redis' = [redis EXCEPT ![r] = Store!NewSession]
            \/ /\ pc[r] \in SetSteps
               /\ \A s \in Requests \ {Target(r)} : redis'[s] = redis[s]
<1>1. redis \in [Requests -> Store!SessionData \cup {Nothing}]
  BY DEF TypeOK
<1>2. CASE redis' = redis
  BY <1>1, <1>2
<1>3. CASE pc[r] = "create" /\ redis' = [redis EXCEPT ![r] = Store!NewSession]
  BY <1>1, <1>3, NewSessionFacts
<1>4. ASSUME NEW new \in Store!SessionData, pc[r] \in SetSteps, redis' = [redis EXCEPT ![Target(r)] = new]
      PROVE  /\ redis' \in [Requests -> Store!SessionData \cup {Nothing}]
             /\ \A s \in Requests : redis[s] # Nothing => redis'[s] # Nothing
             /\ \A s \in Requests \ {Target(r)} : redis'[s] = redis[s]
  BY <1>1, <1>4, NothingAssumption
<1>5. pc[r] \in SetSteps => read[r] \in Store!SessionData
  BY DEF SessionsInv, SetSteps, TurnSteps
<1>6. CASE pc[r] = "set_corpus.set" /\ redis' = [redis EXCEPT ![Target(r)] = Store!WithCorpus(read[r], r, r)]
  BY <1>4, <1>5, <1>6, SessionFacts DEF SetSteps
<1>7. CASE pc[r] = "update_profile.set" /\ redis' = [redis EXCEPT ![Target(r)] = Store!WithProfile(read[r], turn[r])]
  <2>1. turn[r] \in Requests
    BY <1>7 DEF SessionsInv, TypeOK
  <2>. QED
    BY <1>4, <1>5, <1>7, <2>1, SessionFacts DEF SetSteps
<1>8. CASE pc[r] = "append_turn.set" /\ redis' = [redis EXCEPT ![Target(r)] = Store!WithTurn(read[r], r)]
  BY <1>4, <1>5, <1>8, SessionFacts DEF SetSteps
<1>. QED
  BY <1>2, <1>3, <1>6, <1>7, <1>8, <1>4, RedisMoves DEF SetSteps

\* Requests keep their kind and worker, and their session unless they create one.
LEMMA CallMoves ==
  ASSUME TypeOK, ControlInv, NEW r \in Requests, Arrive(r) \/ Handler(r) \/ RedisFails(r)
  PROVE  /\ pc[r] = "not_sent" => Arrive(r) /\ Target(r) = Nothing
         /\ pc[r] # "not_sent" =>
              /\ Kind(r)' = Kind(r) /\ Worker(r)' = Worker(r) /\ Worker(r) \in Workers /\ before' = before
              /\ \/ Target(r)' = Target(r) /\ ~(pc[r] = "create" /\ pc'[r] = "set_corpus.get")
                 \/ pc[r] = "create" /\ pc'[r] = "set_corpus.get" /\ Target(r)' = r
         /\ \A d \in Requests \ {r} : /\ Kind(d)' = Kind(d) /\ Worker(d)' = Worker(d)
                                      /\ Target(d)' = Target(d) /\ pc'[d] = pc[d]
         /\ pc'[r] # "not_sent"
<1>1. pc[r] = "not_sent" => Arrive(r) /\ Target(r) = Nothing
  BY Edges DEF ControlInv, NoCall, Target
<1>2. pc[r] # "not_sent" => (Handler(r) \/ RedisFails(r)) /\ call[r] \in SentCalls
  BY DEF ControlInv, Arrive
<1>3. \A d \in Requests \ {r} : /\ Kind(d)' = Kind(d) /\ Worker(d)' = Worker(d)
                                /\ Target(d)' = Target(d) /\ pc'[d] = pc[d]
  BY OthersStay DEF Kind, Worker, Target
<1>4. pc'[r] # "not_sent"
  BY Edges
<1>. QED
  BY <1>1, <1>2, <1>3, <1>4, CallStays DEF SentCalls, Worker

LEMMA SessionsInit == Init => SessionsInv
BY NamesAssumption DEF Init, SessionsInv, TurnSteps, Target, NoCall

LEMMA SessionsStep == TypeOK /\ ControlInv /\ SessionsInv /\ [Next]_vars => SessionsInv'
<1>. SUFFICES ASSUME TypeOK, ControlInv, SessionsInv, [Next]_vars PROVE SessionsInv'
  OBVIOUS
<1>1. ASSUME NEW r \in Requests, Arrive(r) \/ Handler(r) \/ RedisFails(r) PROVE SessionsInv'
  <2>. USE <1>1
  <2>. DEFINE Early == {"not_sent", "read_file", "exists", "create"}
  <2>1. \/ Target(r)' = Target(r)
        \/ pc[r] = "create" /\ pc'[r] = "set_corpus.get" /\ Target(r)' = r
        \/ /\ pc[r] = "not_sent" /\ Target(r) \notin Requests
           /\ Target(r)' \in Requests => Target(r)' # r /\ Target(Target(r)') = Target(r)'
    <3>1. CASE pc[r] # "not_sent"
      BY <3>1, CallMoves
    <3>2. CASE pc[r] = "not_sent"
      <4>1. Target(r) = Nothing /\ Target(r)' \in KnownIds \cup {Nothing}
        BY <3>2, CallMoves, Arrival
      <4>. QED
        BY <3>2, <4>1, NamesAssumption DEF KnownIds
    <3>. QED
      BY <3>1, <3>2
  <2>2. \A d \in Requests \ {r} : Target(d)' = Target(d) /\ pc'[d] = pc[d]
    BY CallMoves
  <2>3. ASSUME NEW q \in Requests, Target(q)' \in Requests
        PROVE  call'[call'[q].session].session = call'[q].session
    <3>1. \A d \in Requests : Target(d) \in Requests => Target(Target(d)) = Target(d)
      BY DEF SessionsInv
    <3>2. CASE q = r
      BY <2>1, <2>2, <2>3, <3>1, <3>2 DEF Target
    <3>3. CASE q # r
      <4>1. Target(q)' = Target(q) /\ Target(q) \in Requests /\ Target(Target(q)) = Target(q)
        BY <2>2, <2>3, <3>1, <3>3
      <4>2. CASE Target(q) = r
        BY <2>1, <4>1, <4>2 DEF Target
      <4>3. CASE Target(q) # r
        BY <2>2, <4>1, <4>3 DEF Target
      <4>. QED
        BY <4>2, <4>3
    <3>. QED
      BY <3>2, <3>3
  <2>4. \A s \in Requests : Target(s)' = s => redis'[s] # Nothing
    <3>1. ASSUME Target(r)' = r PROVE redis'[r] # Nothing
      <4>1. CASE pc[r] = "create" /\ pc'[r] = "set_corpus.get"
        BY <4>1, NewSessionFacts, RedisMoves DEF TypeOK, SetSteps
      <4>2. CASE Target(r) = r
        BY <4>2, Writes DEF SessionsInv
      <4>. QED
        BY <2>1, <3>1, <4>1, <4>2
    <3>. QED
      BY <2>2, <3>1, Writes DEF SessionsInv
  <2>5. \A q \in Requests : pc'[q] \in Early => redis'[q] = Nothing /\ Target(q)' # q
    <3>1. ASSUME pc'[r] \in Early PROVE redis'[r] = Nothing /\ Target(r)' # r
      <4>1. pc[r] \in Early /\ pc[r] # "create"
        BY <3>1, Edges
      <4>2. redis[r] = Nothing /\ Target(r) # r
        BY <4>1 DEF SessionsInv
      <4>3. redis' = redis
        BY <4>1, Writes DEF SetSteps
      <4>. QED
        BY <2>1, <4>1, <4>2, <4>3
    <3>2. ASSUME NEW q \in Requests \ {r}, pc[q] \in Early PROVE redis'[q] = Nothing /\ Target(q)' # q
      <4>1. redis[q] = Nothing /\ Target(q) # q
        BY <3>2 DEF SessionsInv
      <4>2. pc[r] \in SetSteps => Target(r) # q
        BY <4>1, Targets DEF SetSteps, TurnSteps
      <4>3. redis'[q] = redis[q]
        BY <4>2, Writes DEF TypeOK
      <4>. QED
        BY <2>2, <4>1, <4>3
    <3>. QED
      BY <2>2, <3>1, <3>2
  <2>6. \A q \in Requests : /\ pc'[q] \in TurnSteps \cup {"set_corpus.get", "set_corpus.set"} => Target(q)' \in Requests
                            /\ pc'[q] = "200" /\ Kind(q)' \in {"upload", "query"} => Target(q)' \in Requests
    <3>1. ASSUME \/ pc'[r] \in TurnSteps \cup {"set_corpus.get", "set_corpus.set"}
                 \/ pc'[r] = "200" /\ Kind(r)' \in {"upload", "query"}
          PROVE  Target(r)' \in Requests
      <4>0. pc[r] # "not_sent" /\ Kind(r)' = Kind(r)
        BY <3>1, CallMoves, Edges DEF TurnSteps
      <4>1. CASE pc[r] \in TurnSteps \cup {"set_corpus.get", "set_corpus.set"}
        BY <2>1, <4>1, Targets DEF TurnSteps
      <4>2. CASE pc[r] = "create"
        <5>1. pc'[r] = "set_corpus.get"
          BY <3>1, <4>2, Edges DEF TurnSteps
        <5>. QED
          BY <4>0, <4>2, <5>1, CallMoves
      <4>3. CASE pc[r] = "exists"
        <5>1. Session(Target(r)) # Nothing /\ Target(r)' = Target(r)
          BY <2>1, <3>1, <4>3, Edges, CorporaMoves DEF TurnSteps
        <5>. QED
          BY <5>1 DEF Session
      <4>4. CASE pc[r] = "get" /\ pc'[r] = "in_threadpool"
        <5>1. Session(Target(r)) # Nothing /\ Target(r)' = Target(r)
          BY <2>1, <4>4, ReadMoves DEF SetSteps
        <5>. QED
          BY <5>1 DEF Session
      <4>5. CASE pc[r] \in {"get", "snapshot"} /\ pc'[r] = "200"
        BY <3>1, <4>0, <4>5, Edges DEF ControlInv, TurnSteps
      <4>6. \/ pc[r] \in TurnSteps \cup {"set_corpus.get", "set_corpus.set", "create", "exists"}
            \/ pc[r] = "get" /\ pc'[r] = "in_threadpool"
            \/ pc[r] \in {"get", "snapshot"} /\ pc'[r] = "200"
        BY <3>1, Edges DEF TurnSteps
      <4>. QED
        BY <4>1, <4>2, <4>3, <4>4, <4>5, <4>6
    <3>. QED
      BY <2>2, <3>1, CallMoves DEF SessionsInv
  <2>7. \A q \in Requests : pc'[q] \in TurnSteps \cup {"set_corpus.set"} => read'[q] \in Store!SessionData
    <3>1. ASSUME pc'[r] \in TurnSteps \cup {"set_corpus.set"} PROVE read'[r] \in Store!SessionData
      <4>1. CASE read' = read /\ pc'[r] \notin SetSteps \cup {"404", "in_threadpool"}
        <5>1. pc[r] \in TurnSteps
          BY <3>1, <4>1, Edges DEF TurnSteps, SetSteps
        <5>. QED
          BY <4>1, <5>1 DEF SessionsInv
      <4>2. CASE /\ pc[r] \in {"set_corpus.get", "update_profile.get", "append_turn.get"}
                 /\ read' = [read EXCEPT ![r] = redis[Target(r)]]
        BY <4>2, Targets DEF TurnSteps, TypeOK
      <4>3. CASE pc[r] = "get" /\ pc'[r] # "404" /\ read' = [read EXCEPT ![r] = Session(Target(r))]
                 /\ Session(Target(r)) # Nothing
        BY <4>3 DEF Session, TypeOK
      <4>. QED
        BY <3>1, <4>1, <4>2, <4>3, ReadMoves DEF TurnSteps, SetSteps
    <3>. QED
      BY <2>2, <3>1, OthersStay DEF SessionsInv
  <2>8. \A q \in Requests : pc'[q] \in {"update_profile.get", "update_profile.set"} => turn'[q] # Nothing
    <3>1. ASSUME pc'[r] \in {"update_profile.get", "update_profile.set"} PROVE turn'[r] # Nothing
      BY <3>1, Edges, TurnMoves DEF SessionsInv
    <3>. QED
      BY <2>2, <3>1, OthersStay DEF SessionsInv
  <2>. QED
    BY <2>3, <2>4, <2>5, <2>6, <2>7, <2>8 DEF SessionsInv, Target
<1>2. ASSUME NEW w \in Workers, Crash(w) PROVE SessionsInv'
  <2>1. UNCHANGED <<redis, call, read, turn>>
    BY <1>2, CrashMoves
  <2>2. \A r \in Requests : pc'[r] = pc[r] \/ pc'[r] = "connection_lost"
    BY <1>2, CrashMoves
  <2>. QED
    BY <2>1, <2>2 DEF SessionsInv, Target, Kind, TurnSteps
<1>3. CASE UNCHANGED vars
  BY <1>3 DEF vars, SessionsInv, Target, Kind
<1>. QED
  BY <1>1, <1>2, <1>3, StepCases

-----------------------------------------------------------------------------
(* The counters                                                            *)

\* The requests that the middleware counts are as many as they can be counted.
LEMMA Countable ==
  ASSUME NEW R \in SUBSET Requests
  PROVE  /\ IsFiniteSet(Handled(R)) /\ IsFiniteSet(Refused(R))
         /\ Cardinality(Handled(R)) \in Nat /\ Cardinality(Refused(R)) \in Nat
         /\ Cardinality(Handled(R)) <= Cardinality(Requests) /\ Cardinality(Refused(R)) <= Cardinality(Requests)
         /\ Cardinality(Requests) \in Nat
<1>1. Handled(R) \subseteq Requests /\ Refused(R) \subseteq Requests
  BY DEF Handled, Refused
<1>. QED
  BY <1>1, RequestsAssumption, FS_Subset, FS_CardinalityType

\* A step of a request counts that request or nobody.
LEMMA HandledMoves ==
  ASSUME TypeOK, NEW r \in Requests, Arrive(r) \/ Handler(r) \/ RedisFails(r)
  PROVE  /\ pc'[r] \in ClientErrors \cup {"200"} =>
              /\ Handled(Requests)' = Handled(Requests) \cup {r} /\ r \notin Handled(Requests)
              /\ Cardinality(Handled(Requests)') = Cardinality(Handled(Requests)) + 1
         /\ pc'[r] \in ClientErrors =>
              /\ Refused(Requests)' = Refused(Requests) \cup {r} /\ r \notin Refused(Requests)
              /\ Cardinality(Refused(Requests)') = Cardinality(Refused(Requests)) + 1
         /\ pc'[r] \notin ClientErrors \cup {"200"} => Handled(Requests)' = Handled(Requests)
         /\ pc'[r] \notin ClientErrors => Refused(Requests)' = Refused(Requests)
<1>1. r \notin Handled(Requests) /\ r \notin Refused(Requests)
  BY Edges DEF Handled, Refused, ClientErrors
<1>2. \A d \in Requests \ {r} : pc'[d] = pc[d]
  BY OthersStay
<1>3. pc'[r] \in ClientErrors \cup {"200"} => Handled(Requests)' = Handled(Requests) \cup {r}
  BY <1>2 DEF Handled
<1>4. pc'[r] \in ClientErrors => Refused(Requests)' = Refused(Requests) \cup {r}
  BY <1>2 DEF Refused
<1>5. pc'[r] \notin ClientErrors \cup {"200"} => Handled(Requests)' = Handled(Requests)
  BY <1>1, <1>2 DEF Handled
<1>6. pc'[r] \notin ClientErrors => Refused(Requests)' = Refused(Requests)
  BY <1>1, <1>2 DEF Refused
<1>7. IsFiniteSet(Handled(Requests)) /\ IsFiniteSet(Refused(Requests))
  BY Countable
<1>. QED
  BY <1>1, <1>3, <1>4, <1>5, <1>6, <1>7, FS_AddElement

\* What record_request makes of the counters.
LEMMA RecordedFacts ==
  ASSUME NEW m \in Counters, NEW status
  PROVE  /\ Recorded(m, status).requests = m.requests + 1
         /\ status # "500" =>
              Recorded(m, status).errors = IF status \in ClientErrors THEN m.errors + 1 ELSE m.errors
         /\ m.requests \in Nat /\ m.errors \in Nat
<1>1. m.requests \in Nat /\ m.errors \in Nat
  BY Countable DEF Counters
<1>. QED
  BY <1>1 DEF Recorded, Errors

\* A crash leaves the requests that were counted alone.
LEMMA CrashCounts ==
  ASSUME TypeOK, NEW w \in Workers, Crash(w)
  PROVE  Handled(Requests)' = Handled(Requests) /\ Refused(Requests)' = Refused(Requests)
<1>1. \A r \in Requests : \/ pc'[r] = pc[r]
                          \/ pc[r] \notin ClientErrors \cup {"200"} /\ pc'[r] \notin ClientErrors \cup {"200"}
  BY CrashMoves DEF InFlight, Responses, Errors, ClientErrors
<1>. QED
  BY <1>1 DEF Handled, Refused

LEMMA CountersStep ==
  ASSUME TypeOK, ControlInv, CountersInv, [Next]_vars
  PROVE  /\ \A w \in Workers : /\ metrics'[w].requests <= Cardinality(Handled(Requests)')
                               /\ metrics'[w].errors <= Cardinality(Refused(Requests)')
         /\ metrics' \in [Workers -> Counters]
<1>0. /\ \A w \in Workers : /\ metrics[w] \in Counters
                            /\ metrics[w].requests <= Cardinality(Handled(Requests))
                            /\ metrics[w].errors <= Cardinality(Refused(Requests))
      /\ metrics \in [Workers -> Counters]
  BY DEF TypeOK, CountersInv
<1>1. ASSUME NEW r \in Requests, Arrive(r) \/ Handler(r) \/ RedisFails(r)
      PROVE  /\ \A w \in Workers : /\ metrics'[w].requests <= Cardinality(Handled(Requests)')
                                   /\ metrics'[w].errors <= Cardinality(Refused(Requests)')
             /\ metrics' \in [Workers -> Counters]
  <2>. USE <1>1
  <2>0. /\ Cardinality(Handled(Requests)) \in Nat /\ Cardinality(Refused(Requests)) \in Nat
        /\ Cardinality(Requests) \in Nat
    BY Countable
  <2>1. CASE metrics' = metrics /\ pc'[r] \notin ClientErrors \cup {"200"}
    BY <1>0, <2>1, HandledMoves
  <2>2. CASE /\ pc'[r] \in ClientErrors \cup {"200"} /\ pc[r] # "not_sent"
             /\ metrics' = [metrics EXCEPT ![Worker(r)] = Recorded(@, pc'[r])]
    <3>. DEFINE m == metrics[Worker(r)]
                new == Recorded(m, pc'[r])
    <3>1. Worker(r) \in Workers /\ m \in Counters
      BY <1>0, <2>2, CallMoves
    <3>2. metrics' = [metrics EXCEPT ![Worker(r)] = new]
      BY <2>2
    <3>3. /\ new.requests = m.requests + 1 /\ m.requests \in Nat /\ m.errors \in Nat
          /\ new.errors = IF pc'[r] \in ClientErrors THEN m.errors + 1 ELSE m.errors
      BY <2>2, <3>1, RecordedFacts DEF ClientErrors
    <3>4. /\ Cardinality(Handled(Requests)') = Cardinality(Handled(Requests)) + 1
          /\ Cardinality(Refused(Requests)') = IF pc'[r] \in ClientErrors THEN Cardinality(Refused(Requests)) + 1
                                               ELSE Cardinality(Refused(Requests))
      BY <2>2, HandledMoves
    <3>5. m.requests <= Cardinality(Handled(Requests)) /\ m.errors <= Cardinality(Refused(Requests))
      BY <1>0, <3>1
    <3>6. new.requests <= Cardinality(Handled(Requests)') /\ new.errors <= Cardinality(Refused(Requests)')
      BY <2>0, <3>3, <3>4, <3>5
    <3>7. Cardinality(Handled(Requests)') <= Cardinality(Requests) /\ Cardinality(Refused(Requests)') <= Cardinality(Requests)
      <4>1. Handled(Requests)' \subseteq Requests /\ Refused(Requests)' \subseteq Requests
        BY DEF Handled, Refused
      <4>. QED
        BY <4>1, RequestsAssumption, FS_Subset
    <3>8. new \in Counters
      <4>1. new.requests \in 0..Cardinality(Requests) /\ new.errors \in 0..Cardinality(Requests)
        BY <2>0, <3>3, <3>4, <3>6, <3>7
      <4>2. new = [requests |-> new.requests, errors |-> new.errors]
        BY DEF Recorded, Errors
      <4>. QED
        BY <4>1, <4>2 DEF Counters
    <3>. HIDE DEF new, m
    <3>9. ASSUME NEW w \in Workers
          PROVE  /\ metrics'[w].requests <= Cardinality(Handled(Requests)')
                 /\ metrics'[w].errors <= Cardinality(Refused(Requests)')
      <4>1. CASE w = Worker(r)
        BY <1>0, <3>2, <3>6, <4>1
      <4>2. CASE w # Worker(r)
        <5>1. /\ metrics'[w] = metrics[w] /\ metrics[w].requests \in Nat /\ metrics[w].errors \in Nat
          BY <1>0, <3>2, <4>2, RecordedFacts
        <5>2. metrics[w].requests <= Cardinality(Handled(Requests)) /\ metrics[w].errors <= Cardinality(Refused(Requests))
          BY <1>0
        <5>. QED
          BY <2>0, <3>4, <5>1, <5>2
      <4>. QED
        BY <4>1, <4>2
    <3>. QED
      BY <1>0, <3>2, <3>8, <3>9
  <2>. QED
    BY <2>1, <2>2, MetricsMoves
<1>2. ASSUME NEW w \in Workers, Crash(w)
      PROVE  /\ \A v \in Workers : /\ metrics'[v].requests <= Cardinality(Handled(Requests)')
                                   /\ metrics'[v].errors <= Cardinality(Refused(Requests)')
             /\ metrics' \in [Workers -> Counters]
  <2>1. metrics' = [metrics EXCEPT ![w] = NoRequests]
    BY <1>2, CrashMoves
  <2>2. NoRequests \in Counters /\ NoRequests.requests = 0 /\ NoRequests.errors = 0
    BY Countable DEF NoRequests, Counters
  <2>. QED
    BY <1>0, <1>2, <2>1, <2>2, CrashCounts, Countable
<1>3. CASE UNCHANGED vars
  <2>1. metrics' = metrics /\ Handled(Requests)' = Handled(Requests) /\ Refused(Requests)' = Refused(Requests)
    BY <1>3 DEF vars, Handled, Refused
  <2>. QED
    BY <1>0, <2>1
<1>. QED
  BY <1>1, <1>2, <1>3, StepCases

-----------------------------------------------------------------------------

LEMMA TypeInit == Init => TypeOK
<1>. SUFFICES ASSUME Init PROVE TypeOK
  OBVIOUS
<1>1. NoRequests \in Counters
  BY Countable DEF NoRequests, Counters
<1>. QED
  BY <1>1, BoundsAssumption DEF Init, TypeOK, Steps

LEMMA TypeStep == TypeOK /\ ControlInv /\ SessionsInv /\ CountersInv /\ [Next]_vars => TypeOK'
<1>. SUFFICES ASSUME TypeOK, ControlInv, SessionsInv, CountersInv, [Next]_vars PROVE TypeOK'
  OBVIOUS
<1>0. metrics' \in [Workers -> Counters]
  BY CountersStep
<1>1. ASSUME NEW r \in Requests, Arrive(r) \/ Handler(r) \/ RedisFails(r) PROVE TypeOK'
  <2>. USE <1>1
  <2>1. redis' \in [Requests -> Store!SessionData \cup {Nothing}]
    BY Writes
  <2>2. crashes' = crashes /\ failures' \in 0..MaxRedisFailures
    BY Bounds
  <2>3. corpora' \in [Workers -> SUBSET Requests]
    BY CorporaMoves DEF TypeOK
  <2>4. loop' \in [Workers -> Requests \cup {Nothing}]
    BY LoopMoves DEF TypeOK
  <2>5. read' \in [Requests -> Store!SessionData \cup Counters \cup {Nothing}]
    <3>1. Session(Target(r)) \in Store!SessionData \cup {Nothing}
      BY DEF Session, TypeOK
    <3>2. pc[r] \in SetSteps \cup {"set_corpus.get", "update_profile.get", "append_turn.get"} =>
            redis[Target(r)] \in Store!SessionData
      BY Targets DEF TurnSteps, SetSteps
    <3>3. pc[r] = "snapshot" => metrics[Worker(r)] \in Counters
      BY CallMoves DEF TypeOK
    <3>. QED
      BY <3>1, <3>2, <3>3, ReadMoves DEF TypeOK
  <2>6. turn' \in [Requests -> Requests \cup {Nothing}]
    <3>1. pc[r] = "in_threadpool" => TurnProfiles(r) \subseteq Requests \cup {Nothing}
      <4>1. pc[r] = "in_threadpool" => read[r].profile \in Requests \cup {Nothing}
        BY DEF SessionsInv, TurnSteps, Store!SessionData, Store!Maybe
      <4>2. pc[r] = "in_threadpool" => corpora[Worker(r)] \subseteq Requests
        BY CallMoves DEF TypeOK
      <4>. QED
        BY <4>1, <4>2 DEF TurnProfiles
    <3>. QED
      BY <3>1, TurnMoves DEF TypeOK
  <2>7. /\ pc' \in [Requests -> Steps] /\ call' \in [Requests -> SentCalls \cup {NoCall}]
        /\ before' \in [Requests -> SUBSET Requests]
    <3>1. pc'[r] \in Steps
      BY Edges DEF Steps, RedisSteps, Responses, Errors, ClientErrors
    <3>2. call'[r] \in SentCalls
      BY CallStays, Arrival, Edges DEF ControlInv, Arrive
    <3>3. before'[r] \in SUBSET Requests
      BY CallMoves, Arrival DEF TypeOK, Responded
    <3>4. \A d \in Requests : /\ pc'[d] \in Steps /\ call'[d] \in SentCalls \cup {NoCall}
                              /\ before'[d] \in SUBSET Requests
      BY <3>1, <3>2, <3>3, OthersStay DEF TypeOK
    <3>. QED
      BY <3>4, Domains
  <2>. QED
    BY <1>0, <2>1, <2>2, <2>3, <2>4, <2>5, <2>6, <2>7 DEF TypeOK
<1>2. ASSUME NEW w \in Workers, Crash(w) PROVE TypeOK'
  BY <1>0, <1>2, CrashMoves DEF TypeOK
<1>3. CASE UNCHANGED vars
  BY <1>3 DEF vars, TypeOK
<1>. QED
  BY <1>1, <1>2, <1>3, StepCases

-----------------------------------------------------------------------------
(* The corpora                                                             *)

\* A step of a request takes no corpus away.
LEMMA CorporaGrow ==
  ASSUME TypeOK, ControlInv, NEW r \in Requests, Arrive(r) \/ Handler(r) \/ RedisFails(r), NEW w \in Workers
  PROVE  corpora[w] \subseteq corpora'[w]
BY CorporaMoves DEF TypeOK

LEMMA HeldStays ==
  ASSUME TypeOK, ControlInv, NEW r \in Requests, Arrive(r) \/ Handler(r) \/ RedisFails(r),
         NEW session \in Store!SessionData, Held(session)
  PROVE  session.corpus_ref # Nothing =>
           /\ pc'[session.corpus_ref] # "not_sent"
           /\ crashes' = 0 => session.corpus_ref \in corpora'[call'[session.corpus_ref].worker]
<1>. SUFFICES ASSUME session.corpus_ref # Nothing
              PROVE  /\ pc'[session.corpus_ref] # "not_sent"
                     /\ crashes' = 0 => session.corpus_ref \in corpora'[call'[session.corpus_ref].worker]
  OBVIOUS
<1>. DEFINE c == session.corpus_ref
<1>1. c \in Requests
  BY DEF Store!SessionData, Store!Maybe
<1>2. pc[c] # "not_sent" /\ (crashes = 0 => c \in corpora[Worker(c)])
  BY DEF Held
<1>3. Worker(c) \in Workers
  BY <1>1, <1>2 DEF ControlInv, SentCalls, Worker
<1>4. pc'[c] # "not_sent" /\ call'[c].worker = Worker(c)
  BY <1>1, <1>2, CallMoves DEF Worker
<1>5. crashes' = crashes
  BY Bounds
<1>. QED
  BY <1>2, <1>3, <1>4, <1>5, CorporaGrow

LEMMA CorporaInit == Init => CorporaInv
BY DEF Init, CorporaInv, SetSteps, UploadSteps

LEMMA CorporaStep == TypeOK /\ ControlInv /\ SessionsInv /\ CorporaInv /\ [Next]_vars => CorporaInv'
<1>. SUFFICES ASSUME TypeOK, ControlInv, SessionsInv, CorporaInv, [Next]_vars PROVE CorporaInv'
  OBVIOUS
<1>0. ASSUME NEW r \in Requests
      PROVE  /\ redis[r] # Nothing => redis[r] \in Store!SessionData
             /\ pc[r] \in SetSteps => read[r] \in Store!SessionData
  BY DEF TypeOK, SessionsInv, SetSteps, TurnSteps
<1>1. ASSUME NEW r \in Requests, Arrive(r) \/ Handler(r) \/ RedisFails(r) PROVE CorporaInv'
  <2>. USE <1>1
  <2>. DEFINE HeldNext(session) == session.corpus_ref # Nothing =>
                /\ pc'[session.corpus_ref] # "not_sent"
                /\ crashes' = 0 => session.corpus_ref \in corpora'[call'[session.corpus_ref].worker]
  <2>1. \A q \in Requests : pc'[q] \in UploadSteps \ {"read_file"} /\ crashes' = 0 => q \in corpora'[Worker(q)']
    <3>0. crashes' = crashes
      BY Bounds
    <3>1. ASSUME pc'[r] \in UploadSteps \ {"read_file"}, crashes = 0 PROVE r \in corpora'[Worker(r)']
      <4>1. pc[r] # "not_sent" /\ Worker(r)' = Worker(r) /\ Worker(r) \in Workers
        BY <3>1, Edges, CallMoves DEF UploadSteps
      <4>2. CASE pc[r] = "read_file"
        <5>1. pc'[r] \in {"create", "exists"}
          BY <3>1, <4>2, Edges DEF UploadSteps
        <5>. QED
          BY <4>1, <4>2, <5>1, CorporaMoves DEF TypeOK
      <4>3. CASE pc[r] # "read_file"
        <5>1. pc[r] \in UploadSteps \ {"read_file"}
          BY <3>1, <4>1, <4>3, Edges DEF UploadSteps
        <5>. QED
          BY <3>1, <4>1, <5>1, CorporaGrow DEF CorporaInv
      <4>. QED
        BY <4>2, <4>3
    <3>2. ASSUME NEW q \in Requests \ {r}, pc'[q] \in UploadSteps \ {"read_file"}, crashes = 0
          PROVE  q \in corpora'[Worker(q)']
      <4>1. pc[q] \in UploadSteps \ {"read_file"} /\ Worker(q)' = Worker(q)
        BY <3>2, CallMoves
      <4>2. Worker(q) \in Workers
        BY <4>1 DEF ControlInv, SentCalls, Worker, UploadSteps
      <4>. QED
        BY <3>2, <4>1, <4>2, CorporaGrow DEF CorporaInv
    <3>. QED
      BY <3>0, <3>1, <3>2
  <2>0. ASSUME NEW session \in Store!SessionData, Held(session) PROVE HeldNext(session)
    BY <2>0, HeldStays
  <2>. HIDE DEF HeldNext
  <2>2. \A s \in Requests : redis[s] # Nothing => HeldNext(redis[s])
    BY <1>0, <2>0 DEF CorporaInv
  <2>3. \A q \in Requests : pc[q] \in SetSteps => HeldNext(read[q])
    BY <1>0, <2>0 DEF CorporaInv
  <2>4. ASSUME NEW s \in Requests, redis'[s] # Nothing PROVE HeldNext(redis'[s])
    <3>1. CASE redis' = redis
      BY <2>2, <2>4, <3>1
    <3>2. CASE pc[r] = "create" /\ redis' = [redis EXCEPT ![r] = Store!NewSession]
      <4>1. HeldNext(Store!NewSession)
        BY NewSessionFacts DEF HeldNext
      <4>. QED
        BY <2>2, <2>4, <3>2, <4>1 DEF TypeOK
    <3>3. CASE pc[r] = "set_corpus.set" /\ redis' = [redis EXCEPT ![Target(r)] = Store!WithCorpus(read[r], r, r)]
      <4>1. HeldNext(Store!WithCorpus(read[r], r, r))
        <5>1. Store!WithCorpus(read[r], r, r).corpus_ref = r
          BY <1>0, <3>3, SessionFacts DEF SetSteps
        <5>2. pc'[r] # "not_sent" /\ Worker(r)' = Worker(r) /\ Worker(r) \in Workers /\ crashes' = crashes
          BY <3>3, CallMoves, Bounds
        <5>3. crashes = 0 => r \in corpora[Worker(r)]
          BY <3>3 DEF CorporaInv, UploadSteps
        <5>. QED
          BY <5>1, <5>2, <5>3, CorporaGrow DEF HeldNext, Worker
      <4>. QED
        BY <2>2, <2>4, <3>3, <4>1 DEF TypeOK
    <3>4. ASSUME NEW new \in Store!SessionData, new.corpus_ref = read[r].corpus_ref, pc[r] \in SetSteps,
                 redis' = [redis EXCEPT ![Target(r)] = new]
          PROVE  HeldNext(redis'[s])
      <4>1. HeldNext(new)
        BY <2>3, <3>4 DEF HeldNext
      <4>. QED
        BY <2>2, <2>4, <3>4, <4>1 DEF TypeOK
    <3>5. CASE pc[r] = "update_profile.set" /\ redis' = [redis EXCEPT ![Target(r)] = Store!WithProfile(read[r], turn[r])]
      <4>1. turn[r] \in Requests /\ read[r] \in Store!SessionData
        BY <1>0, <3>5 DEF SessionsInv, TypeOK, SetSteps
      <4>. QED
        BY <3>4, <3>5, <4>1, SessionFacts DEF SetSteps
    <3>6. CASE pc[r] = "append_turn.set" /\ redis' = [redis EXCEPT ![Target(r)] = Store!WithTurn(read[r], r)]
      BY <1>0, <3>4, <3>6, SessionFacts DEF SetSteps
    <3>. QED
      BY <3>1, <3>2, <3>3, <3>5, <3>6, RedisMoves
  <2>5. ASSUME NEW q \in Requests, pc'[q] \in SetSteps PROVE HeldNext(read'[q])
    <3>1. CASE q = r
      <4>1. /\ pc[r] \in {"set_corpus.get", "update_profile.get", "append_turn.get"}
            /\ read' = [read EXCEPT ![r] = redis[Target(r)]]
        BY <2>5, <3>1, ReadMoves DEF SetSteps
      <4>2. read'[r] = redis[Target(r)] /\ Target(r) \in Requests /\ redis[Target(r)] # Nothing
        BY <4>1, Targets DEF TurnSteps, TypeOK
      <4>. QED
        BY <2>2, <3>1, <4>2
    <3>2. CASE q # r
      <4>1. pc[q] \in SetSteps /\ read'[q] = read[q]
        BY <2>5, <3>2, OthersStay
      <4>. QED
        BY <2>3, <4>1
    <3>. QED
      BY <3>1, <3>2
  <2>6. /\ \A s \in Requests : redis'[s] # Nothing => HeldNext(redis'[s])
        /\ \A q \in Requests : pc'[q] \in SetSteps => HeldNext(read'[q])
    BY <2>4, <2>5
  <2>. QED
    BY <2>1, <2>6 DEF CorporaInv, Held, Worker, HeldNext
<1>2. ASSUME NEW w \in Workers, Crash(w) PROVE CorporaInv'
  <2>1. crashes' # 0
    <3>1. crashes \in Nat /\ crashes' = crashes + 1
      BY <1>2, BoundsAssumption, CrashMoves DEF TypeOK
    <3>. QED
      BY <3>1
  <2>2. \A q \in Requests : /\ pc'[q] = "not_sent" => pc[q] = "not_sent"
                            /\ pc'[q] \in SetSteps => pc[q] \in SetSteps
    BY <1>2, CrashMoves DEF SetSteps
  <2>3. redis' = redis /\ read' = read
    BY <1>2, CrashMoves
  <2>4. ASSUME NEW session \in Store!SessionData, Held(session), session.corpus_ref # Nothing
        PROVE  pc'[session.corpus_ref] # "not_sent"
    <3>1. session.corpus_ref \in Requests
      BY <2>4 DEF Store!SessionData, Store!Maybe
    <3>. QED
      BY <2>2, <2>4, <3>1 DEF Held
  <2>5. \A s \in Requests : redis'[s] # Nothing /\ redis'[s].corpus_ref # Nothing => pc'[redis'[s].corpus_ref] # "not_sent"
    BY <1>0, <2>3, <2>4 DEF CorporaInv
  <2>6. \A q \in Requests : pc'[q] \in SetSteps /\ read'[q].corpus_ref # Nothing => pc'[read'[q].corpus_ref] # "not_sent"
    BY <1>0, <2>2, <2>3, <2>4 DEF CorporaInv
  <2>. QED
    BY <2>1, <2>5, <2>6 DEF CorporaInv, Held
<1>3. CASE UNCHANGED vars
  BY <1>3 DEF vars, CorporaInv, Held, Worker
<1>. QED
  BY <1>1, <1>2, <1>3, StepCases

-----------------------------------------------------------------------------

(* The inductive invariant of any number of workers: control, sessions,     *)
(* corpora and counters together.                                           *)
THEOREM Invariance == Spec => []IInv
<1>1. Init => IInv
  <2>1. Init => CountersInv
    BY Countable DEF Init, CountersInv, NoRequests
  <2>. QED
    BY <2>1, TypeInit, ControlInit, SessionsInit, CorporaInit DEF IInv
<1>2. IInv /\ [Next]_vars => IInv'
  <2>. SUFFICES ASSUME IInv, [Next]_vars PROVE IInv'
    OBVIOUS
  <2>1. CountersInv'
    BY CountersStep DEF IInv, CountersInv
  <2>. QED
    BY <2>1, TypeStep, ControlStep, SessionsStep, CorporaStep DEF IInv
<1>. QED
  BY <1>1, <1>2, PTL DEF Spec

(* Every variable keeps its type, whatever the workers do to each other:    *)
(* what a mutator writes back is a session, and no counter exceeds the      *)
(* number of requests.                                                      *)
THEOREM TypeCorrect == Spec => []TypeOK
<1>1. IInv => TypeOK
  BY DEF IInv
<1>. QED
  BY <1>1, Invariance, PTL

(* A session never points at a corpus that the process does not hold,       *)
(* unless a process was restarted; also where several workers share Redis.  *)
THEOREM CorpusIsHeld == Spec => []CorpusAvailable
<1>1. IInv => CorpusAvailable
  BY DEF IInv, CorporaInv, Held, CorpusAvailable
<1>. QED
  BY <1>1, Invariance, PTL

-----------------------------------------------------------------------------
(* One event loop                                                          *)

\* While a handler is between a GET and a SET nobody else writes.
LEMMA Exclusive ==
  ASSUME OneWorker, TypeOK, ControlInv, NEW r \in Requests, Arrive(r) \/ Handler(r) \/ RedisFails(r),
         NEW q \in Requests, q # r, pc[q] \in SetSteps
  PROVE  redis' = redis
<1>1. PICK w : Workers = {w}
  BY DEF OneWorker
<1>2. Worker(q) = w /\ loop[w] = q /\ q # Nothing
  BY <1>1, NamesAssumption DEF ControlInv, SentCalls, Worker, SetSteps, Holding, RedisSteps
<1>3. pc[r] # "not_sent" => Worker(r) = w
  BY <1>1, CallMoves
<1>4. pc[r] \in {"not_sent", "in_threadpool"}
  BY <1>2, <1>3, LoopMoves
<1>. QED
  BY <1>4, RedisMoves

LEMMA AtomicStep ==
  ASSUME OneWorker, TypeOK, ControlInv, SessionsInv, AtomicInv, [Next]_vars PROVE AtomicInv'
<1>1. ASSUME NEW r \in Requests, Arrive(r) \/ Handler(r) \/ RedisFails(r) PROVE AtomicInv'
  <2>. USE <1>1
  <2>1. ASSUME NEW q \in Requests, pc'[q] \in SetSteps PROVE read'[q] = redis'[Target(q)']
    <3>1. CASE q = r
      <4>1. /\ pc[r] \in {"set_corpus.get", "update_profile.get", "append_turn.get"}
            /\ read' = [read EXCEPT ![r] = redis[Target(r)]]
        BY <2>1, <3>1, ReadMoves DEF SetSteps
      <4>2. redis' = redis
        BY <4>1, RedisMoves
      <4>3. Target(r)' = Target(r)
        BY <4>1, CallMoves
      <4>. QED
        BY <3>1, <4>1, <4>2, <4>3 DEF TypeOK
    <3>2. CASE q # r
      <4>1. pc[q] \in SetSteps /\ read'[q] = read[q] /\ Target(q)' = Target(q)
        BY <2>1, <3>2, OthersStay, CallMoves
      <4>. QED
        BY <3>2, <4>1, Exclusive DEF AtomicInv
    <3>. QED
      BY <3>1, <3>2
  <2>. QED
    BY <2>1 DEF AtomicInv, Target
<1>2. ASSUME NEW w \in Workers, Crash(w) PROVE AtomicInv'
  <2>1. UNCHANGED <<redis, read, call>> /\ \A q \in Requests : pc'[q] \in SetSteps => pc[q] \in SetSteps
    BY <1>2, CrashMoves DEF SetSteps
  <2>. QED
    BY <2>1 DEF AtomicInv, Target
<1>3. CASE UNCHANGED vars
  BY <1>3 DEF vars, AtomicInv, Target
<1>. QED
  BY <1>1, <1>2, <1>3, StepCases

\* A step is one operation of SessionStore on the session that is in Redis, or none.
LEMMA Operations ==
  ASSUME TypeOK, ControlInv, SessionsInv, AtomicInv, NEW r \in Requests, Arrive(r) \/ Handler(r) \/ RedisFails(r)
  PROVE  \/ redis' = redis /\ (pc[r] \in SetSteps \cup {"create"} => pc'[r] = "500")
         \/ pc[r] = "create" /\ redis[r] = Nothing /\ redis' = [redis EXCEPT ![r] = Store!NewSession]
         \/ /\ pc[r] = "set_corpus.set" /\ Kind(r) = "upload"
            /\ redis' = [redis EXCEPT ![Target(r)] = Store!WithCorpus(redis[Target(r)], r, r)]
         \/ /\ pc[r] = "update_profile.set" /\ Kind(r) = "query" /\ turn[r] \in Requests
            /\ redis' = [redis EXCEPT ![Target(r)] = Store!WithProfile(redis[Target(r)], turn[r])]
         \/ /\ pc[r] = "append_turn.set" /\ Kind(r) = "query"
            /\ redis' = [redis EXCEPT ![Target(r)] = Store!WithTurn(redis[Target(r)], r)]
<1>1. pc[r] \in SetSteps => read[r] = redis[Target(r)]
  BY DEF AtomicInv
<1>2. pc[r] = "create" => redis[r] = Nothing
  BY DEF SessionsInv
<1>3. pc[r] = "update_profile.set" => turn[r] \in Requests
  BY DEF SessionsInv, TypeOK
<1>4. /\ pc[r] = "set_corpus.set" => Kind(r) = "upload"
      /\ pc[r] \in {"update_profile.set", "append_turn.set"} => Kind(r) = "query"
  BY DEF ControlInv, UploadSteps, TurnSteps
<1>. QED
  BY <1>1, <1>2, <1>3, <1>4, RedisMoves DEF SetSteps

-----------------------------------------------------------------------------
(* The histories                                                           *)

\* Appending a turn: r's entries are the last two, everybody else's stay where they are.
LEMMA AppendFacts ==
  ASSUME NEW session \in Store!SessionData, NEW r \in Requests
  PROVE  /\ EntriesOf(session.chat_history, r) = {} => TurnIn(Store!WithTurn(session, r).chat_history, r)
         /\ \A q \in Requests \ {r} :
              /\ EntriesOf(Store!WithTurn(session, r).chat_history, q) = EntriesOf(session.chat_history, q)
              /\ TurnIn(session.chat_history, q) => TurnIn(Store!WithTurn(session, r).chat_history, q)
<1>. DEFINE h == session.chat_history
            new == Store!WithTurn(session, r).chat_history
<1>0. h \in Seq(Store!Turns) /\ new = h \o << [role |-> "user", turn |-> r], [role |-> "assistant", turn |-> r] >>
  BY SessionFacts DEF Store!SessionData
<1>. HIDE DEF h, new
<1>1. /\ Len(h) \in Nat /\ DOMAIN h = 1..Len(h) /\ Len(new) = Len(h) + 2 /\ DOMAIN new = 1..Len(new)
      /\ \A i \in 1..Len(h) : new[i] = h[i]
      /\ new[Len(h) + 1] = [role |-> "user", turn |-> r] /\ new[Len(h) + 2] = [role |-> "assistant", turn |-> r]
  BY <1>0
<1>2. \A i \in 1..Len(new) : i \in 1..Len(h) \/ i \in {Len(h) + 1, Len(h) + 2}
  BY <1>1
<1>3. new[Len(h) + 1].turn = r /\ new[Len(h) + 2].turn = r
  BY <1>1
<1>4. EntriesOf(h, r) = {} => EntriesOf(new, r) = {Len(h) + 1, Len(h) + 2}
  BY <1>1, <1>2, <1>3 DEF EntriesOf
<1>5. EntriesOf(h, r) = {} => TurnIn(new, r)
  <2>1. Len(h) + 1 \in 1..(Len(new) - 1) /\ (Len(h) + 1) + 1 = Len(h) + 2
    BY <1>1
  <2>. QED
    BY <1>1, <1>4, <2>1 DEF TurnIn
<1>6. ASSUME NEW q \in Requests \ {r} PROVE EntriesOf(new, q) = EntriesOf(h, q)
  BY <1>1, <1>2, <1>3 DEF EntriesOf
<1>7. ASSUME NEW q \in Requests \ {r}, TurnIn(h, q) PROVE TurnIn(new, q)
  <2>1. PICK i \in 1..(Len(h) - 1) : /\ h[i] = [role |-> "user", turn |-> q]
                                     /\ h[i + 1] = [role |-> "assistant", turn |-> q]
                                     /\ EntriesOf(h, q) = {i, i + 1}
    BY <1>7 DEF TurnIn
  <2>2. i \in 1..(Len(new) - 1) /\ i \in 1..Len(h) /\ i + 1 \in 1..Len(h)
    BY <1>1
  <2>. QED
    BY <1>1, <1>6, <2>1, <2>2 DEF TurnIn
<1>. QED
  BY <1>5, <1>6, <1>7 DEF h, new

\* What becomes of a session's history in a step.
LEMMA HistoryMoves ==
  ASSUME TypeOK, ControlInv, SessionsInv, AtomicInv, NEW r \in Requests, Arrive(r) \/ Handler(r) \/ RedisFails(r),
         NEW s \in Requests, redis'[s] # Nothing
  PROVE  \/ redis[s] = Nothing /\ redis'[s].chat_history = <<>>
         \/ /\ redis[s] # Nothing /\ redis'[s].chat_history = redis[s].chat_history
            /\ ~(s = Target(r) /\ pc[r] = "append_turn.set" /\ pc'[r] # "500")
         \/ /\ redis[s] # Nothing /\ s = Target(r) /\ pc[r] = "append_turn.set"
            /\ redis'[s] = Store!WithTurn(redis[s], r)
<1>0. redis \in [Requests -> Store!SessionData \cup {Nothing}]
  BY DEF TypeOK
<1>1. CASE redis' = redis /\ (pc[r] \in SetSteps => pc'[r] = "500")
  BY <1>1 DEF SetSteps
<1>2. CASE pc[r] = "create" /\ redis[r] = Nothing /\ redis' = [redis EXCEPT ![r] = Store!NewSession]
  BY <1>0, <1>2, NewSessionFacts
<1>3. CASE pc[r] = "set_corpus.set" /\ redis' = [redis EXCEPT ![Target(r)] = Store!WithCorpus(redis[Target(r)], r, r)]
  <2>1. redis[Target(r)] \in Store!SessionData /\ redis[Target(r)] # Nothing /\ Target(r) \in Requests
    BY <1>3, Targets
  <2>2. Store!WithCorpus(redis[Target(r)], r, r).chat_history = redis[Target(r)].chat_history
    BY <2>1, SessionFacts
  <2>3. redis'[s] = IF s = Target(r) THEN Store!WithCorpus(redis[Target(r)], r, r) ELSE redis[s]
    BY <1>0, <1>3
  <2>. QED
    BY <1>3, <2>1, <2>2, <2>3
<1>4. CASE /\ pc[r] = "update_profile.set" /\ turn[r] \in Requests
           /\ redis' = [redis EXCEPT ![Target(r)] = Store!WithProfile(redis[Target(r)], turn[r])]
  <2>1. redis[Target(r)] \in Store!SessionData /\ redis[Target(r)] # Nothing
    BY <1>4, Targets DEF TurnSteps
  <2>2. Store!WithProfile(redis[Target(r)], turn[r]).chat_history = redis[Target(r)].chat_history
    BY <1>4, <2>1, SessionFacts
  <2>3. redis'[s] = IF s = Target(r) THEN Store!WithProfile(redis[Target(r)], turn[r]) ELSE redis[s]
    BY <1>0, <1>4
  <2>. QED
    BY <1>4, <2>1, <2>2, <2>3
<1>5. CASE pc[r] = "append_turn.set" /\ redis' = [redis EXCEPT ![Target(r)] = Store!WithTurn(redis[Target(r)], r)]
  <2>1. redis[Target(r)] \in Store!SessionData /\ redis[Target(r)] # Nothing /\ Target(r) \in Requests
    BY <1>5, Targets DEF TurnSteps
  <2>2. CASE s = Target(r)
    BY <1>0, <1>5, <2>1, <2>2, SessionFacts
  <2>3. CASE s # Target(r)
    BY <1>0, <1>5, <2>1, <2>3
  <2>. QED
    BY <2>2, <2>3
<1>. QED
  BY <1>1, <1>2, <1>3, <1>4, <1>5, Operations

LEMMA TurnsInit == Init => TurnsInv
BY DEF Init, TurnsInv

LEMMA TurnsStep ==
  ASSUME OneWorker, TypeOK, ControlInv, SessionsInv, AtomicInv, TurnsInv, [Next]_vars PROVE TurnsInv'
<1>1. ASSUME NEW r \in Requests, Arrive(r) \/ Handler(r) \/ RedisFails(r) PROVE TurnsInv'
  <2>. USE <1>1
  <2>0. pc[r] \notin Responses /\ \A d \in Requests \ {r} : pc'[d] = pc[d]
    BY Edges, OthersStay DEF Responses, Errors, ClientErrors
  <2>1. ASSUME NEW s \in Requests, redis[s] # Nothing, redis'[s] = Store!WithTurn(redis[s], r)
        PROVE  /\ TurnIn(redis'[s].chat_history, r)
               /\ \A q \in Requests \ {r} : /\ EntriesOf(redis'[s].chat_history, q) = EntriesOf(redis[s].chat_history, q)
                                            /\ TurnIn(redis[s].chat_history, q) => TurnIn(redis'[s].chat_history, q)
    <3>1. redis[s] \in Store!SessionData
      BY <2>1 DEF TypeOK
    <3>2. EntriesOf(redis[s].chat_history, r) = {}
      BY <2>0, <2>1 DEF TurnsInv
    <3>. QED
      BY <2>1, <3>1, <3>2, AppendFacts
  <2>2. ASSUME NEW q \in Requests, NEW s \in Requests, pc'[q] \notin Responses, redis'[s] # Nothing
        PROVE  EntriesOf(redis'[s].chat_history, q) = {}
    <3>1. pc[q] \notin Responses
      BY <2>0, <2>2
    <3>2. CASE redis'[s].chat_history = <<>>
      BY <3>2 DEF EntriesOf
    <3>3. CASE redis[s] # Nothing /\ redis'[s].chat_history = redis[s].chat_history
      BY <3>1, <3>3 DEF TurnsInv
    <3>4. CASE redis[s] # Nothing /\ pc[r] = "append_turn.set" /\ redis'[s] = Store!WithTurn(redis[s], r)
      <4>1. q # r
        BY <2>2, <3>4, Edges DEF Responses, Errors
      <4>. QED
        BY <2>1, <2>2, <3>1, <3>4, <4>1 DEF TurnsInv
    <3>. QED
      BY <2>2, <3>2, <3>3, <3>4, HistoryMoves
  <2>3. ASSUME NEW q \in Requests, pc'[q] = "200", Kind(q)' = "query"
        PROVE  TurnIn(redis'[Target(q)'].chat_history, q)
    <3>1. CASE q = r
      <4>1. pc[r] # "not_sent" /\ Kind(r) = "query"
        BY <2>3, <3>1, Edges, CallMoves
      <4>2. pc[r] = "append_turn.set" /\ Target(r)' = Target(r)
        BY <2>3, <3>1, <4>1, Edges, CallMoves DEF ControlInv, UploadSteps
      <4>3. Target(r) \in Requests /\ redis'[Target(r)] # Nothing /\ redis[Target(r)] # Nothing
        BY <4>2, Targets, Writes DEF TurnSteps
      <4>4. redis'[Target(r)] = Store!WithTurn(redis[Target(r)], r)
        BY <2>3, <3>1, <4>2, <4>3, HistoryMoves
      <4>. QED
        BY <2>1, <3>1, <4>2, <4>3, <4>4
    <3>2. CASE q # r
      <4>1. pc[q] = "200" /\ Kind(q) = "query" /\ Target(q)' = Target(q)
        BY <2>3, <3>2, CallMoves
      <4>2. Target(q) \in Requests /\ redis[Target(q)] # Nothing /\ TurnIn(redis[Target(q)].chat_history, q)
        BY <4>1 DEF SessionsInv, TurnsInv
      <4>3. redis'[Target(q)] # Nothing
        BY <4>2, Writes
      <4>. QED
        BY <2>1, <3>2, <4>1, <4>2, <4>3, HistoryMoves
    <3>. QED
      BY <3>1, <3>2
  <2>. QED
    BY <2>2, <2>3 DEF TurnsInv, Target
<1>2. ASSUME NEW w \in Workers, Crash(w) PROVE TurnsInv'
  <2>1. /\ UNCHANGED <<redis, call>>
        /\ \A q \in Requests : /\ pc'[q] = "200" => pc[q] = "200"
                               /\ pc'[q] \notin Responses => pc[q] \notin Responses
    BY <1>2, CrashMoves DEF Responses, Errors
  <2>. QED
    BY <2>1 DEF TurnsInv, Target, Kind
<1>3. CASE UNCHANGED vars
  BY <1>3 DEF vars, TurnsInv, Target, Kind
<1>. QED
  BY <1>1, <1>2, <1>3, StepCases

-----------------------------------------------------------------------------
(* The uploads and the profiles                                            *)

\* What becomes of a session's corpus and profile in a step.
LEMMA CorpusMoves ==
  ASSUME TypeOK, ControlInv, SessionsInv, AtomicInv, NEW r \in Requests, Arrive(r) \/ Handler(r) \/ RedisFails(r),
         NEW s \in Requests, redis'[s] # Nothing
  PROVE  \/ redis[s] = Nothing /\ redis'[s].corpus_ref = Nothing /\ redis'[s].profile = Nothing
         \/ /\ redis[s] # Nothing /\ redis'[s].corpus_ref = redis[s].corpus_ref
            /\ ~(s = Target(r) /\ pc[r] = "set_corpus.set" /\ pc'[r] # "500")
            /\ \/ redis'[s].profile = redis[s].profile
               \/ /\ pc[r] = "update_profile.set" /\ Kind(r) = "query" /\ s = Target(r)
                  /\ turn[r] \in Requests /\ redis'[s].profile = turn[r]
         \/ /\ redis[s] # Nothing /\ s = Target(r) /\ pc[r] = "set_corpus.set" /\ Kind(r) = "upload"
            /\ redis'[s].corpus_ref = r /\ redis'[s].profile = r
<1>0. redis \in [Requests -> Store!SessionData \cup {Nothing}]
  BY DEF TypeOK
<1>1. CASE redis' = redis /\ (pc[r] \in SetSteps => pc'[r] = "500")
  BY <1>1 DEF SetSteps
<1>2. CASE pc[r] = "create" /\ redis[r] = Nothing /\ redis' = [redis EXCEPT ![r] = Store!NewSession]
  BY <1>0, <1>2, NewSessionFacts
<1>3. CASE /\ pc[r] = "set_corpus.set" /\ Kind(r) = "upload"
           /\ redis' = [redis EXCEPT ![Target(r)] = Store!WithCorpus(redis[Target(r)], r, r)]
  <2>1. redis[Target(r)] \in Store!SessionData /\ redis[Target(r)] # Nothing /\ Target(r) \in Requests
    BY <1>3, Targets
  <2>2. /\ Store!WithCorpus(redis[Target(r)], r, r).corpus_ref = r
        /\ Store!WithCorpus(redis[Target(r)], r, r).profile = r
    BY <2>1, SessionFacts
  <2>3. redis'[s] = IF s = Target(r) THEN Store!WithCorpus(redis[Target(r)], r, r) ELSE redis[s]
    BY <1>0, <1>3
  <2>. QED
    BY <1>3, <2>1, <2>2, <2>3
<1>4. CASE /\ pc[r] = "update_profile.set" /\ Kind(r) = "query" /\ turn[r] \in Requests
           /\ redis' = [redis EXCEPT ![Target(r)] = Store!WithProfile(redis[Target(r)], turn[r])]
  <2>1. redis[Target(r)] \in Store!SessionData /\ redis[Target(r)] # Nothing
    BY <1>4, Targets DEF TurnSteps
  <2>2. /\ Store!WithProfile(redis[Target(r)], turn[r]).corpus_ref = redis[Target(r)].corpus_ref
        /\ Store!WithProfile(redis[Target(r)], turn[r]).profile = turn[r]
    BY <1>4, <2>1, SessionFacts
  <2>3. redis'[s] = IF s = Target(r) THEN Store!WithProfile(redis[Target(r)], turn[r]) ELSE redis[s]
    BY <1>0, <1>4
  <2>. QED
    BY <1>4, <2>1, <2>2, <2>3
<1>5. CASE pc[r] = "append_turn.set" /\ redis' = [redis EXCEPT ![Target(r)] = Store!WithTurn(redis[Target(r)], r)]
  <2>1. redis[Target(r)] \in Store!SessionData /\ redis[Target(r)] # Nothing /\ Target(r) \in Requests
    BY <1>5, Targets DEF TurnSteps
  <2>2. /\ Store!WithTurn(redis[Target(r)], r).corpus_ref = redis[Target(r)].corpus_ref
        /\ Store!WithTurn(redis[Target(r)], r).profile = redis[Target(r)].profile
    BY <2>1, SessionFacts
  <2>3. redis'[s] = IF s = Target(r) THEN Store!WithTurn(redis[Target(r)], r) ELSE redis[s]
    BY <1>0, <1>5
  <2>. QED
    BY <1>5, <2>1, <2>2, <2>3
<1>. QED
  BY <1>1, <1>2, <1>3, <1>4, <1>5, Operations

\* Once a request was sent, what was answered when it arrived is as it was.
LEMMA PastStays ==
  ASSUME TypeOK, ControlInv, [Next]_vars, NEW d \in Requests, pc[d] # "not_sent"
  PROVE  /\ before'[d] = before[d] /\ Kind(d)' = Kind(d) /\ Worker(d)' = Worker(d)
         /\ Kind(d) # "upload" \/ pc[d] \in Responses => Target(d)' = Target(d)
         /\ before[d] \subseteq Requests /\ \A p \in before[d] : pc[p] \in Responses /\ pc'[p] = pc[p]
         /\ Answered(before[d])' = Answered(before[d]) /\ Handled(before[d])' = Handled(before[d])
         /\ Refused(before[d])' = Refused(before[d])
<1>1. before'[d] = before[d] /\ Kind(d)' = Kind(d) /\ Worker(d)' = Worker(d)
      /\ (Kind(d) # "upload" \/ pc[d] \in Responses => Target(d)' = Target(d))
  <2>1. ASSUME NEW r \in Requests, Arrive(r) \/ Handler(r) \/ RedisFails(r)
        PROVE  before'[d] = before[d] /\ Kind(d)' = Kind(d) /\ Worker(d)' = Worker(d)
               /\ (Kind(d) # "upload" \/ pc[d] \in Responses => Target(d)' = Target(d))
    <3>1. CASE d = r
      BY <2>1, <3>1, CallMoves DEF ControlInv, UploadSteps, Responses, Errors, ClientErrors
    <3>2. CASE d # r
      BY <2>1, <3>2, CallMoves, OthersStay
    <3>. QED
      BY <3>1, <3>2
  <2>2. ASSUME NEW w \in Workers, Crash(w) PROVE UNCHANGED <<before, call>>
    BY <2>2, CrashMoves
  <2>3. CASE UNCHANGED <<before, call>>
    BY <2>3 DEF Kind, Worker, Target
  <2>4. CASE UNCHANGED vars
    BY <2>4, <2>3 DEF vars
  <2>. QED
    BY <2>1, <2>2, <2>3, <2>4, StepCases
<1>2. before[d] \subseteq Requests /\ \A p \in before[d] : pc[p] \in Responses
  BY DEF ControlInv, Responded
<1>3. \A p \in before[d] : pc'[p] = pc[p]
  BY <1>2, RespondedGrows
<1>. QED
  BY <1>1, <1>2, <1>3 DEF Answered, Handled, Refused

LEMMA OrderInit == Init => OrderInv
BY DEF Init, OrderInv

LEMMA OrderStep ==
  ASSUME TypeOK, ControlInv, SessionsInv, AtomicInv, OrderInv, [Next]_vars PROVE OrderInv'
<1>1. ASSUME NEW r \in Requests, Arrive(r) \/ Handler(r) \/ RedisFails(r), NEW u \in Requests, pc'[u] = "200", Kind(u)' = "upload"
      PROVE  redis'[Target(u)'].corpus_ref \in Requests \ before'[u]
  <2>. USE <1>1
  <2>0. pc[r] \notin Responses /\ \A d \in Requests : pc[d] # "not_sent" => r \notin before[d]
    BY Edges DEF Responses, Errors, ClientErrors, ControlInv, Responded
  <2>1. CASE u = r
    <3>1. pc[r] # "not_sent" /\ Kind(r) = "upload"
      BY <2>1, Edges, CallMoves
    <3>2. pc[r] = "set_corpus.set" /\ Target(r)' = Target(r) /\ before' = before
      BY <2>1, <3>1, Edges, CallMoves DEF ControlInv, TurnSteps
    <3>3. Target(r) \in Requests /\ redis'[Target(r)] # Nothing
      BY <3>2, Targets, Writes
    <3>4. redis'[Target(r)].corpus_ref = r
      BY <2>1, <3>2, <3>3, <2>0, CorpusMoves, Targets
    <3>. QED
      BY <2>0, <2>1, <3>1, <3>2, <3>4
  <2>2. CASE u # r
    <3>1. pc[u] = "200" /\ Kind(u) = "upload" /\ Target(u)' = Target(u) /\ before'[u] = before[u]
      BY <2>2, CallMoves, OthersStay
    <3>2. Target(u) \in Requests /\ redis[Target(u)] # Nothing /\ redis[Target(u)].corpus_ref \in Requests \ before[u]
      BY <3>1 DEF SessionsInv, OrderInv
    <3>3. redis'[Target(u)] # Nothing
      BY <3>2, Writes
    <3>. QED
      BY <2>0, <3>1, <3>2, <3>3, CorpusMoves
  <2>. QED
    BY <2>1, <2>2
<1>2. ASSUME NEW w \in Workers, Crash(w) PROVE OrderInv'
  <2>1. UNCHANGED <<redis, call, before>> /\ \A q \in Requests : pc'[q] = "200" => pc[q] = "200"
    BY <1>2, CrashMoves
  <2>. QED
    BY <2>1 DEF OrderInv, Target, Kind
<1>3. CASE UNCHANGED vars
  BY <1>3 DEF vars, OrderInv, Target, Kind
<1>. QED
  BY <1>1, <1>2, <1>3, StepCases DEF OrderInv, Target

\* A query that carries a profile goes on carrying it, so that what explains a session's
\* profile goes on explaining it.
LEMMA ExplainedStays ==
  ASSUME TypeOK, ControlInv, ProfilesInv, [Next]_vars,
         NEW s \in Requests, NEW p, p # Nothing, NEW c, Explained(s, p, c)
  PROVE  p = c \/ \E q \in Requests : /\ Kind(q)' = "query" /\ Target(q)' = s
                                      /\ turn'[q] = p /\ c \notin Answered(before[q])'
<1>. SUFFICES ASSUME NEW q \in Requests, Kind(q) = "query", Target(q) = s, turn[q] = p, c \notin Answered(before[q])
              PROVE  Kind(q)' = "query" /\ Target(q)' = s /\ turn'[q] = p /\ c \notin Answered(before[q])'
  BY DEF Explained
<1>1. pc[q] # "not_sent"
  BY DEF ProfilesInv
<1>2. turn'[q] = turn[q]
  <2>1. ASSUME NEW r \in Requests, Arrive(r) \/ Handler(r) \/ RedisFails(r) PROVE turn'[q] = turn[q]
    <3>1. CASE q = r
      <4>1. pc[r] # "in_threadpool"
        BY <3>1 DEF ProfilesInv
      <4>. QED
        BY <2>1, <3>1, <4>1, TurnMoves
    <3>2. CASE q # r
      BY <2>1, <3>2, OthersStay
    <3>. QED
      BY <3>1, <3>2
  <2>2. ASSUME NEW w \in Workers, Crash(w) PROVE turn'[q] = turn[q]
    BY <2>2, CrashMoves
  <2>3. CASE UNCHANGED vars
    BY <2>3 DEF vars
  <2>. QED
    BY <2>1, <2>2, <2>3, StepCases
<1>3. Kind(q)' = "query" /\ Target(q)' = s /\ Answered(before[q])' = Answered(before[q])
  BY <1>1, PastStays
<1>. QED
  BY <1>2, <1>3

LEMMA ProfilesInit == Init => ProfilesInv
BY DEF Init, ProfilesInv, TurnSteps

LEMMA ProfilesStep ==
  ASSUME TypeOK, ControlInv, SessionsInv, AtomicInv, ProfilesInv, [Next]_vars PROVE ProfilesInv'
<1>. DEFINE ExplainedNext(s, p, c) ==
              p = c \/ \E q \in Requests : /\ Kind(q)' = "query" /\ Target(q)' = s
                                           /\ turn'[q] = p /\ c \notin Answered(before[q])'
<1>0. ASSUME NEW s \in Requests, NEW p, p # Nothing, NEW c, Explained(s, p, c) PROVE ExplainedNext(s, p, c)
  BY <1>0, ExplainedStays
<1>00. /\ \A s, p : ExplainedNext(s, p, p)
       /\ \A q \in Requests : \A p, c :
            Kind(q)' = "query" /\ turn'[q] = p /\ c \notin Answered(before[q])' => ExplainedNext(Target(q)', p, c)
  OBVIOUS
<1>. HIDE DEF ExplainedNext
<1>1. ASSUME NEW r \in Requests, Arrive(r) \/ Handler(r) \/ RedisFails(r)
      PROVE  /\ \A s \in Requests : redis'[s] # Nothing =>
                  /\ redis'[s].corpus_ref = Nothing <=> redis'[s].profile = Nothing
                  /\ ExplainedNext(s, redis'[s].profile, redis'[s].corpus_ref)
             /\ \A q \in Requests : pc'[q] \in {"not_sent", "get", "in_threadpool"} => turn'[q] = Nothing
             /\ \A q \in Requests : pc'[q] \in TurnSteps => redis'[Target(q)'].corpus_ref # Nothing
             /\ \A q \in Requests : pc'[q] = "in_threadpool" =>
                  /\ read'[q].profile # Nothing
                  /\ \/ redis'[Target(q)'].corpus_ref \notin Answered(before[q])'
                     \/ ExplainedNext(Target(q)', read'[q].profile, redis'[Target(q)'].corpus_ref)
             /\ \A q \in Requests : pc'[q] \in {"resume", "update_profile.get", "update_profile.set"} =>
                  turn'[q] # Nothing /\ ExplainedNext(Target(q)', turn'[q], redis'[Target(q)'].corpus_ref)
  <2>. USE <1>1
  <2>0. /\ pc[r] \notin Responses /\ Nothing \notin Requests
        /\ \A d \in Requests : pc[d] # "not_sent" => r \notin Answered(before[d])'
    BY Edges, NamesAssumption, PastStays DEF Responses, Errors, ClientErrors, ControlInv, Responded, Answered
  <2>1. ASSUME NEW s \in Requests, redis'[s] # Nothing
        PROVE  /\ redis'[s].corpus_ref = Nothing <=> redis'[s].profile = Nothing
               /\ ExplainedNext(s, redis'[s].profile, redis'[s].corpus_ref)
    <3>1. CASE redis[s] = Nothing /\ redis'[s].corpus_ref = Nothing /\ redis'[s].profile = Nothing
      BY <1>00, <3>1
    <3>2. CASE redis'[s].corpus_ref = r /\ redis'[s].profile = r
      BY <1>00, <2>0, <3>2
    <3>3. CASE /\ redis[s] # Nothing /\ redis'[s].corpus_ref = redis[s].corpus_ref
               /\ redis'[s].profile = redis[s].profile
      <4>1. /\ redis[s].corpus_ref = Nothing <=> redis[s].profile = Nothing
            /\ Explained(s, redis[s].profile, redis[s].corpus_ref)
        BY <3>3 DEF ProfilesInv
      <4>2. CASE redis[s].profile = Nothing
        BY <1>00, <3>3, <4>1, <4>2
      <4>3. CASE redis[s].profile # Nothing
        BY <1>0, <3>3, <4>1, <4>3
      <4>. QED
        BY <4>2, <4>3
    <3>4. CASE /\ pc[r] = "update_profile.set" /\ s = Target(r) /\ turn[r] \in Requests
               /\ redis'[s].profile = turn[r] /\ redis'[s].corpus_ref = redis[s].corpus_ref
      <4>1. redis[s].corpus_ref # Nothing /\ Explained(s, turn[r], redis[s].corpus_ref)
        BY <3>4 DEF ProfilesInv, TurnSteps
      <4>. QED
        BY <1>0, <2>0, <3>4, <4>1
    <3>. QED
      BY <2>1, <3>1, <3>2, <3>3, <3>4, CorpusMoves
  <2>2. \A q \in Requests : pc'[q] \in {"not_sent", "get", "in_threadpool"} => turn'[q] = Nothing
    <3>1. ASSUME pc'[r] \in {"not_sent", "get", "in_threadpool"} PROVE turn'[r] = Nothing
      <4>1. pc[r] \in {"not_sent", "get"} /\ pc'[r] # "resume"
        BY <3>1, Edges
      <4>. QED
        BY <4>1, TurnMoves DEF ProfilesInv
    <3>. QED
      BY <3>1, OthersStay DEF ProfilesInv
  <2>3. ASSUME NEW s \in Requests, redis[s] # Nothing
        PROVE  redis'[s] # Nothing /\ (redis'[s].corpus_ref = redis[s].corpus_ref \/ redis'[s].corpus_ref = r)
    BY <2>3, Writes, CorpusMoves
  <2>4. ASSUME NEW q \in Requests, pc'[q] \in TurnSteps
        PROVE  /\ Kind(q)' = "query" /\ Target(q)' = Target(q) /\ Target(q) \in Requests /\ redis[Target(q)] # Nothing
               /\ redis[Target(q)].corpus_ref # Nothing /\ pc[q] # "not_sent" /\ before'[q] = before[q]
               /\ pc[q] \in TurnSteps \/ (q = r /\ pc[r] = "get" /\ pc'[r] = "in_threadpool")
    <3>1. /\ pc[q] # "not_sent" /\ Kind(q)' = Kind(q) /\ before'[q] = before[q]
          /\ pc[q] \in TurnSteps \/ (q = r /\ pc[r] = "get" /\ pc'[r] = "in_threadpool")
      <4>1. pc[q] \in TurnSteps \/ (q = r /\ pc[r] = "get" /\ pc'[r] = "in_threadpool")
        BY <2>4, Edges, OthersStay DEF TurnSteps
      <4>. QED
        BY <4>1, PastStays DEF TurnSteps
    <3>2. CASE pc[q] \in TurnSteps
      <4>1. Kind(q) = "query"
        BY <3>2 DEF ControlInv
      <4>. QED
        BY <3>1, <3>2, <4>1, Targets, PastStays DEF ProfilesInv
    <3>3. CASE q = r /\ pc[r] = "get" /\ pc'[r] = "in_threadpool"
      <4>1. Session(Target(r)) # Nothing /\ Session(Target(r)).corpus_ref # Nothing
        BY <3>3, ReadMoves DEF SetSteps
      <4>2. Kind(r) = "query" /\ Target(r)' = Target(r)
        BY <3>3, Edges, CallMoves
      <4>. QED
        BY <3>1, <3>3, <4>1, <4>2 DEF Session
    <3>. QED
      BY <3>1, <3>2, <3>3
  <2>5. \A q \in Requests : pc'[q] \in TurnSteps => redis'[Target(q)'].corpus_ref # Nothing
    BY <2>0, <2>3, <2>4
  <2>6. ASSUME NEW q \in Requests, pc'[q] = "in_threadpool"
        PROVE  /\ read'[q].profile # Nothing
               /\ \/ redis'[Target(q)].corpus_ref \notin Answered(before[q])'
                  \/ ExplainedNext(Target(q), read'[q].profile, redis'[Target(q)].corpus_ref)
    <3>1. pc'[q] \in TurnSteps
      BY <2>6 DEF TurnSteps
    <3>2. CASE redis'[Target(q)].corpus_ref = r
      <4>1. r \notin Answered(before[q])'
        BY <2>0, <2>4, <3>1
      <4>2. read'[q].profile # Nothing
        <5>1. CASE q = r
          <6>1. pc[r] = "get" /\ read' = [read EXCEPT ![r] = Session(Target(r))]
            BY <2>6, <5>1, Edges, ReadMoves
          <6>2. read'[q] = redis[Target(q)]
            BY <2>4, <3>1, <5>1, <6>1 DEF Session, TypeOK
          <6>. QED
            BY <2>4, <3>1, <6>2 DEF ProfilesInv
        <5>2. CASE q # r
          BY <2>6, <5>2, OthersStay DEF ProfilesInv
        <5>. QED
          BY <5>1, <5>2
      <4>. QED
        BY <3>2, <4>1, <4>2
    <3>3. CASE redis'[Target(q)].corpus_ref = redis[Target(q)].corpus_ref
      <4>1. CASE q = r
        <5>1. pc[r] = "get" /\ read' = [read EXCEPT ![r] = Session(Target(r))]
          BY <2>6, <4>1, Edges, ReadMoves
        <5>2. read'[q] = redis[Target(q)]
          BY <2>4, <3>1, <4>1, <5>1 DEF Session, TypeOK
        <5>3. read'[q].profile # Nothing /\ Explained(Target(q), read'[q].profile, redis[Target(q)].corpus_ref)
          BY <2>4, <3>1, <5>2 DEF ProfilesInv
        <5>. QED
          BY <1>0, <2>4, <3>1, <3>3, <5>3
      <4>2. CASE q # r
        <5>1. pc[q] = "in_threadpool" /\ read'[q] = read[q]
          BY <2>6, <4>2, OthersStay
        <5>2. /\ read[q].profile # Nothing
              /\ \/ redis[Target(q)].corpus_ref \notin Answered(before[q])
                 \/ Explained(Target(q), read[q].profile, redis[Target(q)].corpus_ref)
          BY <5>1 DEF ProfilesInv
        <5>3. Answered(before[q])' = Answered(before[q])
          BY <5>1, PastStays
        <5>. QED
          BY <1>0, <2>4, <3>1, <3>3, <5>1, <5>2, <5>3
      <4>. QED
        BY <4>1, <4>2
    <3>. QED
      BY <2>3, <2>4, <3>1, <3>2, <3>3
  <2>7. ASSUME NEW q \in Requests, pc'[q] \in {"resume", "update_profile.get", "update_profile.set"}
        PROVE  turn'[q] # Nothing /\ ExplainedNext(Target(q), turn'[q], redis'[Target(q)].corpus_ref)
    <3>1. pc'[q] \in TurnSteps
      BY <2>7 DEF TurnSteps
    <3>4. turn'[q] # Nothing
      <4>1. CASE q = r /\ pc[r] = "in_threadpool"
        BY <2>7, <4>1, TurnMoves, Edges DEF TurnProfiles, TypeOK, ProfilesInv
      <4>2. CASE ~(q = r /\ pc[r] = "in_threadpool")
        <5>1. pc[q] \in {"resume", "update_profile.get", "update_profile.set"}
          BY <2>7, <4>2, Edges, OthersStay
        <5>2. turn'[q] = turn[q]
          BY <4>2, OthersStay, TurnMoves
        <5>. QED
          BY <5>1, <5>2 DEF ProfilesInv
      <4>. QED
        BY <4>1, <4>2
    <3>2. CASE redis'[Target(q)].corpus_ref = r
      BY <1>00, <2>0, <2>4, <3>1, <3>2, <3>4
    <3>3. CASE redis'[Target(q)].corpus_ref = redis[Target(q)].corpus_ref
      <4>1. CASE q = r /\ pc[r] = "in_threadpool"
        <5>1. /\ read[r].profile # Nothing
              /\ \/ redis[Target(r)].corpus_ref \notin Answered(before[r])
                 \/ Explained(Target(r), read[r].profile, redis[Target(r)].corpus_ref)
          BY <4>1 DEF ProfilesInv
        <5>2. turn'[r] = read[r].profile
          BY <2>7, <4>1, <5>1, TurnMoves, Edges DEF TurnProfiles, TypeOK
        <5>3. Answered(before[r])' = Answered(before[r])
          BY <4>1, PastStays
        <5>. QED
          BY <1>0, <1>00, <2>4, <3>1, <3>3, <3>4, <4>1, <5>1, <5>2, <5>3
      <4>2. CASE ~(q = r /\ pc[r] = "in_threadpool")
        <5>1. pc[q] \in {"resume", "update_profile.get", "update_profile.set"}
          BY <2>7, <4>2, Edges, OthersStay
        <5>2. turn'[q] = turn[q]
          BY <4>2, OthersStay, TurnMoves
        <5>3. Explained(Target(q), turn[q], redis[Target(q)].corpus_ref)
          BY <5>1 DEF ProfilesInv
        <5>. QED
          BY <1>0, <1>00, <2>4, <3>1, <3>3, <3>4, <5>2, <5>3
      <4>. QED
        BY <4>1, <4>2
    <3>. QED
      BY <2>3, <2>4, <3>1, <3>2, <3>3
  <2>8. \A q \in Requests : pc'[q] \in TurnSteps => Target(q)' = Target(q)
    BY <2>4
  <2>. QED
    BY <2>1, <2>2, <2>5, <2>6, <2>7, <2>8 DEF TurnSteps
<1>2. CASE (\E w \in Workers : Crash(w)) \/ UNCHANGED vars
  <2>1. /\ UNCHANGED <<redis, call, read, turn, before>>
        /\ \A q \in Requests : pc'[q] = pc[q] \/ (pc'[q] = "connection_lost" /\ pc[q] # "not_sent")
    BY <1>2, CrashMoves DEF vars, InFlight
  <2>2. \A q \in Requests : pc[q] # "not_sent" => Answered(before[q])' = Answered(before[q])
    BY PastStays
  <2>3. ASSUME NEW s \in Requests, NEW p, NEW c, Explained(s, p, c) PROVE ExplainedNext(s, p, c)
    <3>1. \A q \in Requests : Target(q) = s => pc[q] # "not_sent"
      BY NamesAssumption DEF ControlInv, NoCall, Target
    <3>. QED
      BY <2>1, <2>2, <2>3, <3>1 DEF Explained, ExplainedNext, Kind, Target
  <2>4. ASSUME NEW q \in Requests, pc'[q] \in TurnSteps
        PROVE  pc[q] = pc'[q] /\ Target(q) \in Requests /\ Answered(before[q])' = Answered(before[q])
    <3>1. pc[q] = pc'[q] /\ pc[q] # "not_sent"
      BY <2>1, <2>4 DEF TurnSteps
    <3>. QED
      BY <2>2, <2>4, <3>1, Targets
  <2>5. ASSUME NEW q \in Requests, pc'[q] = "in_threadpool"
        PROVE  /\ read[q].profile # Nothing
               /\ \/ redis[Target(q)].corpus_ref \notin Answered(before[q])'
                  \/ ExplainedNext(Target(q), read[q].profile, redis[Target(q)].corpus_ref)
    <3>1. pc[q] = "in_threadpool" /\ Target(q) \in Requests /\ Answered(before[q])' = Answered(before[q])
      BY <2>4, <2>5 DEF TurnSteps
    <3>. QED
      BY <2>3, <3>1 DEF ProfilesInv
  <2>6. ASSUME NEW q \in Requests, pc'[q] \in {"resume", "update_profile.get", "update_profile.set"}
        PROVE  turn[q] # Nothing /\ ExplainedNext(Target(q), turn[q], redis[Target(q)].corpus_ref)
    <3>1. pc[q] = pc'[q] /\ Target(q) \in Requests
      BY <2>4, <2>6 DEF TurnSteps
    <3>. QED
      BY <2>3, <2>6, <3>1 DEF ProfilesInv
  <2>7. \A s \in Requests : redis[s] # Nothing =>
          /\ redis[s].corpus_ref = Nothing <=> redis[s].profile = Nothing
          /\ ExplainedNext(s, redis[s].profile, redis[s].corpus_ref)
    BY <2>3 DEF ProfilesInv
  <2>8. /\ \A q \in Requests : pc'[q] \in {"not_sent", "get", "in_threadpool"} => turn[q] = Nothing
        /\ \A q \in Requests : pc'[q] \in TurnSteps => redis[Target(q)].corpus_ref # Nothing
    BY <2>1, <2>4 DEF ProfilesInv
  <2>. QED
    BY <2>1, <2>5, <2>6, <2>7, <2>8 DEF ProfilesInv, Explained, ExplainedNext, Kind, Target
<1>. QED
  <2>1. CASE \E r \in Requests : Arrive(r) \/ Handler(r) \/ RedisFails(r)
    BY <1>1, <2>1 DEF ProfilesInv, Explained, ExplainedNext, Kind, Target
  <2>. QED
    BY <1>2, <2>1, StepCases

-----------------------------------------------------------------------------
(* The counters of one process                                             *)

LEMMA ExactCountersInit == Init => ExactCountersInv
<1>. SUFFICES ASSUME Init PROVE ExactCountersInv
  OBVIOUS
<1>1. Handled(Requests) = {} /\ Refused(Requests) = {}
  BY DEF Init, Handled, Refused, ClientErrors
<1>. QED
  BY <1>1, FS_EmptySet DEF Init, ExactCountersInv, NoRequests

LEMMA ExactCountersStep ==
  ASSUME OneWorker, TypeOK, ControlInv, ExactCountersInv, [Next]_vars PROVE ExactCountersInv'
<1>0. PICK w : Workers = {w}
  BY DEF OneWorker
<1>1. ASSUME NEW r \in Requests, Arrive(r) \/ Handler(r) \/ RedisFails(r), crashes' = 0
      PROVE  /\ metrics'[w].requests = Cardinality(Handled(Requests)')
             /\ metrics'[w].errors = Cardinality(Refused(Requests)')
  <2>. USE <1>1
  <2>1. /\ metrics[w].requests = Cardinality(Handled(Requests)) /\ metrics[w].errors = Cardinality(Refused(Requests))
        /\ metrics[w] \in Counters /\ metrics \in [Workers -> Counters]
    BY <1>0, Bounds DEF ExactCountersInv, TypeOK
  <2>2. CASE metrics' = metrics /\ pc'[r] \notin ClientErrors \cup {"200"}
    BY <2>1, <2>2, HandledMoves
  <2>3. CASE /\ pc'[r] \in ClientErrors \cup {"200"} /\ pc[r] # "not_sent"
             /\ metrics' = [metrics EXCEPT ![Worker(r)] = Recorded(@, pc'[r])]
    <3>1. Worker(r) = w
      BY <1>0, <2>3, CallMoves
    <3>2. metrics'[w] = Recorded(metrics[w], pc'[r])
      BY <1>0, <2>1, <2>3, <3>1
    <3>3. /\ Recorded(metrics[w], pc'[r]).requests = metrics[w].requests + 1
          /\ Recorded(metrics[w], pc'[r]).errors = IF pc'[r] \in ClientErrors THEN metrics[w].errors + 1
                                                   ELSE metrics[w].errors
      BY <2>1, <2>3, RecordedFacts DEF ClientErrors
    <3>. QED
      BY <2>1, <2>3, <3>2, <3>3, HandledMoves
  <2>. QED
    BY <2>2, <2>3, MetricsMoves
<1>2. ASSUME NEW v \in Workers, Crash(v) PROVE crashes' # 0
  <2>1. crashes \in Nat /\ crashes' = crashes + 1
    BY <1>2, BoundsAssumption, CrashMoves DEF TypeOK
  <2>. QED
    BY <2>1
<1>3. CASE UNCHANGED vars
  BY <1>3 DEF vars, ExactCountersInv, Handled, Refused
<1>4. CASE \E r \in Requests : Arrive(r) \/ Handler(r) \/ RedisFails(r)
  <2>1. PICK r \in Requests : Arrive(r) \/ Handler(r) \/ RedisFails(r)
    BY <1>4
  <2>2. crashes' = crashes
    BY <2>1, Bounds
  <2>3. pc'[r] # "connection_lost" /\ \A d \in Requests \ {r} : pc'[d] = pc[d]
    BY <2>1, Edges, OthersStay
  <2>. QED
    BY <1>0, <1>1, <2>1, <2>2, <2>3 DEF ExactCountersInv
<1>5. CASE \E v \in Workers : Crash(v)
  BY <1>2, <1>5 DEF ExactCountersInv
<1>. QED
  BY <1>3, <1>4, <1>5, StepCases

\* Responses are for good, so what was counted stays counted.
LEMMA HandledGrows ==
  ASSUME TypeOK, [Next]_vars, NEW R \in SUBSET Requests
  PROVE  /\ Handled(R) \subseteq Handled(R)' /\ Refused(R) \subseteq Refused(R)'
         /\ Cardinality(Handled(R)) <= Cardinality(Handled(R)')
         /\ Cardinality(Refused(R)) <= Cardinality(Refused(R)')
         /\ Cardinality(Handled(R)) \in Nat /\ Cardinality(Handled(R)') \in Nat
         /\ Cardinality(Refused(R)) \in Nat /\ Cardinality(Refused(R)') \in Nat
<1>1. Handled(R) \subseteq Handled(R)' /\ Refused(R) \subseteq Refused(R)'
  BY RespondedGrows DEF Handled, Refused, Responses, Errors
<1>2. Handled(R)' \subseteq Requests /\ Refused(R)' \subseteq Requests
  BY DEF Handled, Refused
<1>3. IsFiniteSet(Handled(R)') /\ IsFiniteSet(Refused(R)')
  BY <1>2, RequestsAssumption, FS_Subset
<1>. QED
  BY <1>1, <1>3, FS_Subset, FS_CardinalityType

\* Where no connection was lost, what is handled is what is not unhandled.
LEMMA UnhandledCount ==
  ASSUME NEW R \in SUBSET Requests, R \subseteq Responded, \A r \in Requests : pc[r] # "connection_lost"
  PROVE  /\ Cardinality(Handled(R)) + Cardinality(Unhandled(R)) = Cardinality(R)
         /\ Cardinality(Refused(R)) + Cardinality(Unhandled(R)) = Cardinality(Failed(R))
         /\ Cardinality(Handled(R)) \in Nat /\ Cardinality(Refused(R)) \in Nat
         /\ Cardinality(Unhandled(R)) \in Nat
<1>1. /\ Handled(R) \cup Unhandled(R) = R /\ Handled(R) \cap Unhandled(R) = {}
      /\ Refused(R) \cup Unhandled(R) = Failed(R) /\ Refused(R) \cap Unhandled(R) = {}
  BY DEF Handled, Refused, Unhandled, Failed, Responded, Responses, Errors, ClientErrors
<1>2. IsFiniteSet(Handled(R)) /\ IsFiniteSet(Refused(R)) /\ IsFiniteSet(Unhandled(R))
  BY Countable, RequestsAssumption, FS_Subset DEF Unhandled
<1>3. Cardinality({}) = 0
  BY FS_EmptySet
<1>4. Cardinality(R) = Cardinality(Handled(R)) + Cardinality(Unhandled(R)) - Cardinality({})
  <2>1. Cardinality(Handled(R) \cup Unhandled(R)) =
          Cardinality(Handled(R)) + Cardinality(Unhandled(R)) - Cardinality(Handled(R) \cap Unhandled(R))
    BY <1>2, FS_Union
  <2>. QED
    BY <1>1, <2>1, Zenon
<1>5. Cardinality(Failed(R)) = Cardinality(Refused(R)) + Cardinality(Unhandled(R)) - Cardinality({})
  <2>1. Cardinality(Refused(R) \cup Unhandled(R)) =
          Cardinality(Refused(R)) + Cardinality(Unhandled(R)) - Cardinality(Refused(R) \cap Unhandled(R))
    BY <1>2, FS_Union
  <2>. QED
    BY <1>1, <2>1, Zenon
<1>6. Cardinality(Handled(R)) \in Nat /\ Cardinality(Refused(R)) \in Nat /\ Cardinality(Unhandled(R)) \in Nat
  BY <1>2, FS_CardinalityType
<1>. QED
  BY <1>3, <1>4, <1>5, <1>6

LEMMA MetricsReadInit == Init => MetricsReadInv
BY DEF Init, MetricsReadInv

LEMMA MetricsReadStep ==
  ASSUME OneWorker, TypeOK, ControlInv, ExactCountersInv, ReadsInv, MetricsReadInv, [Next]_vars
  PROVE  MetricsReadInv'
<1>. DEFINE Others(r) == Requests \ {r}
            Counts(m, low, high) == /\ m.requests >= Cardinality(Handled(low)) /\ m.requests <= Cardinality(Handled(high))
                                    /\ m.errors >= Cardinality(Refused(low)) /\ m.errors <= Cardinality(Refused(high))
<1>0. crashes' = 0 => crashes = 0
  <2>1. ASSUME NEW w \in Workers, Crash(w) PROVE crashes' # 0
    <3>1. crashes \in Nat /\ crashes' = crashes + 1
      BY <2>1, BoundsAssumption, CrashMoves DEF TypeOK
    <3>. QED
      BY <3>1
  <2>2. CASE \E r \in Requests : Arrive(r) \/ Handler(r) \/ RedisFails(r)
    BY <2>2, Bounds
  <2>. QED
    BY <2>1, <2>2, StepCases DEF vars
<1>1. ASSUME NEW r \in Requests, Kind(r)' = "metrics", pc'[r] = "200", crashes' = 0
      PROVE  /\ read'[r].requests >= Cardinality(Handled(before[r])') /\ read'[r].requests <= Cardinality(Handled(Others(r))')
             /\ read'[r].errors >= Cardinality(Refused(before[r])') /\ read'[r].errors <= Cardinality(Refused(Others(r))')
  <2>. USE <1>1
  <2>1. CASE pc[r] = "200"
    <3>1. read'[r] = read[r]
      <4>1. ASSUME NEW q \in Requests, Arrive(q) \/ Handler(q) \/ RedisFails(q) PROVE read'[r] = read[r]
        <5>1. q # r
          BY <2>1, <4>1, Edges
        <5>. QED
          BY <4>1, <5>1, OthersStay
      <4>2. ASSUME NEW w \in Workers, Crash(w) PROVE read'[r] = read[r]
        BY <4>2, CrashMoves
      <4>. QED
        BY <4>1, <4>2, StepCases DEF vars
    <3>2. /\ Kind(r) = "metrics" /\ Handled(before[r])' = Handled(before[r]) /\ Refused(before[r])' = Refused(before[r])
      BY <2>1, PastStays
    <3>3. Counts(read[r], before[r], Others(r))
      BY <1>0, <2>1, <3>2 DEF MetricsReadInv
    <3>4. /\ Cardinality(Handled(Others(r))) <= Cardinality(Handled(Others(r))')
          /\ Cardinality(Refused(Others(r))) <= Cardinality(Refused(Others(r))')
      BY HandledGrows
    <3>5. read[r].requests \in Nat /\ read[r].errors \in Nat
      BY <2>1, <3>2, RecordedFacts DEF ReadsInv
    <3>6. /\ Cardinality(Handled(Others(r))) \in Nat /\ Cardinality(Handled(Others(r))') \in Nat
          /\ Cardinality(Refused(Others(r))) \in Nat /\ Cardinality(Refused(Others(r))') \in Nat
          /\ Cardinality(Handled(before[r])) \in Nat /\ Cardinality(Refused(before[r])) \in Nat
      BY HandledGrows, Countable DEF TypeOK
    <3>. HIDE DEF Others
    <3>. QED
      BY <3>1, <3>2, <3>3, <3>4, <3>5, <3>6
  <2>2. CASE pc[r] # "200"
    <3>1. Arrive(r) \/ Handler(r) \/ RedisFails(r)
      <4>1. ASSUME NEW q \in Requests, Arrive(q) \/ Handler(q) \/ RedisFails(q) PROVE q = r
        BY <2>2, <4>1, OthersStay
      <4>2. ASSUME NEW w \in Workers PROVE ~Crash(w)
        BY <2>2, CrashMoves
      <4>. QED
        BY <2>2, <4>1, <4>2, StepCases DEF vars
    <3>2. pc[r] = "snapshot" /\ pc[r] # "not_sent"
      <4>1. pc[r] # "not_sent" /\ Kind(r) = "metrics"
        BY <3>1, Edges, CallMoves
      <4>. QED
        BY <3>1, <4>1, Edges DEF ControlInv, UploadSteps, TurnSteps
    <3>3. Worker(r) \in Workers /\ read'[r] = metrics[Worker(r)]
      BY <3>1, <3>2, CallMoves, ReadMoves DEF TypeOK, SetSteps
    <3>4. /\ read'[r].requests = Cardinality(Handled(Requests)) /\ read'[r].errors = Cardinality(Refused(Requests))
      BY <1>0, <3>3 DEF ExactCountersInv
    <3>5. /\ Handled(Requests) = Handled(Others(r)) /\ Refused(Requests) = Refused(Others(r))
      BY <3>2 DEF Handled, Refused, ClientErrors
    <3>6. /\ Handled(Others(r))' = Handled(Others(r)) /\ Refused(Others(r))' = Refused(Others(r))
      BY <3>1, OthersStay DEF Handled, Refused
    <3>7. /\ Handled(before[r])' \subseteq Handled(Requests) /\ Refused(before[r])' \subseteq Refused(Requests)
      BY <3>2, PastStays DEF Handled, Refused
    <3>8. /\ Cardinality(Handled(before[r])') <= Cardinality(Handled(Requests))
          /\ Cardinality(Refused(before[r])') <= Cardinality(Refused(Requests))
      BY <3>7, Countable, FS_Subset
    <3>. QED
      BY <3>4, <3>5, <3>6, <3>8, Countable
  <2>. QED
    BY <2>1, <2>2
<1>. QED
  BY <1>1 DEF MetricsReadInv

-----------------------------------------------------------------------------
(* What requests read                                                      *)

\* What is in Redis is current for every request that was sent: it has the turns and the
\* last upload that were answered when the request arrived.
LEMMA SessionsAreCurrent ==
  ASSUME TypeOK, ControlInv, SessionsInv, TurnsInv, OrderInv, NEW r \in Requests
  PROVE  /\ Session(Target(r)) = Nothing => Uploads(Target(r), Answered(before[r])) = {}
         /\ \A q \in Answered(before[r]) : Kind(q) = "query" /\ Target(q) = Target(r) =>
              EntriesOf(redis[Target(r)].chat_history, q) # {}
         /\ Uploads(Target(r), Answered(before[r])) # {} =>
              redis[Target(r)].corpus_ref \in Requests \ Superseded(Target(r), Answered(before[r]))
<1>1. before[r] \subseteq Requests
  BY DEF TypeOK
<1>2. ASSUME NEW u \in Uploads(Target(r), Answered(before[r]))
      PROVE  /\ Session(Target(r)) # Nothing /\ redis[Target(r)].corpus_ref \in Requests \ before[u]
  <2>1. u \in Requests /\ pc[u] = "200" /\ Kind(u) = "upload" /\ Target(u) = Target(r)
    BY <1>1, <1>2 DEF Uploads, Answered
  <2>2. Target(u) \in Requests /\ Target(Target(u)) = Target(u) /\ redis[Target(u)] # Nothing
    BY <2>1 DEF SessionsInv
  <2>. QED
    BY <2>1, <2>2 DEF OrderInv, Session
<1>3. ASSUME NEW q \in Answered(before[r]), Kind(q) = "query", Target(q) = Target(r)
      PROVE  EntriesOf(redis[Target(r)].chat_history, q) # {}
  <2>1. TurnIn(redis[Target(r)].chat_history, q)
    BY <1>1, <1>3 DEF TurnsInv, Answered
  <2>2. \E i : EntriesOf(redis[Target(r)].chat_history, q) = {i, i + 1}
    BY <2>1 DEF TurnIn
  <2>. QED
    BY <2>2
<1>4. ASSUME Uploads(Target(r), Answered(before[r])) # {}
      PROVE  redis[Target(r)].corpus_ref \in Requests \ Superseded(Target(r), Answered(before[r]))
  BY <1>2, <1>4 DEF Superseded
<1>. QED
  BY <1>2, <1>3, <1>4

\* Whose response or first step it is: only r itself moves r on, except into a lost connection.
LEMMA Mover ==
  ASSUME TypeOK, ControlInv, [Next]_vars, NEW r \in Requests, pc'[r] # pc[r], pc'[r] # "connection_lost"
  PROVE  Arrive(r) \/ Handler(r) \/ RedisFails(r)
<1>1. ASSUME NEW q \in Requests, Arrive(q) \/ Handler(q) \/ RedisFails(q) PROVE q = r
  BY <1>1, OthersStay
<1>2. ASSUME NEW w \in Workers PROVE ~Crash(w)
  BY CrashMoves
<1>. QED
  BY <1>1, <1>2, StepCases DEF vars

\* A request reads its session, or the counters, or nothing.
LEMMA ReadsOf ==
  ASSUME TypeOK, ControlInv, SessionsInv, [Next]_vars, NEW r \in Requests
  PROVE  \/ read'[r] = read[r]
         \/ pc[r] \notin Responses \cup {"not_sent", "snapshot"} /\ read'[r] = Session(Target(r))
         \/ pc[r] = "snapshot"
<1>1. ASSUME Arrive(r) \/ Handler(r) \/ RedisFails(r), read'[r] # read[r], pc[r] # "snapshot"
      PROVE  pc[r] \notin Responses \cup {"not_sent"} /\ read'[r] = Session(Target(r))
  <2>1. CASE /\ pc[r] \in {"set_corpus.get", "update_profile.get", "append_turn.get"}
             /\ read' = [read EXCEPT ![r] = redis[Target(r)]]
    <3>1. Target(r) \in Requests
      BY <2>1, Targets DEF TurnSteps
    <3>. QED
      BY <2>1, <3>1 DEF Session, TypeOK, Responses, Errors, ClientErrors
  <2>2. CASE pc[r] = "get" /\ read' = [read EXCEPT ![r] = Session(Target(r))]
    BY <2>2 DEF TypeOK, Responses, Errors, ClientErrors
  <2>. QED
    BY <1>1, <2>1, <2>2, ReadMoves
<1>2. ASSUME NEW q \in Requests, Arrive(q) \/ Handler(q) \/ RedisFails(q), q # r PROVE read'[r] = read[r]
  BY <1>2, OthersStay
<1>3. ASSUME NEW w \in Workers, Crash(w) PROVE read'[r] = read[r]
  BY <1>3, CrashMoves
<1>. QED
  BY <1>1, <1>2, <1>3, StepCases DEF vars

LEMMA ReadsInit == Init => ReadsInv
BY DEF Init, ReadsInv, ReadsAreCurrent

LEMMA ReadsStep ==
  ASSUME TypeOK, ControlInv, SessionsInv, TurnsInv, OrderInv, ReadsInv, [Next]_vars PROVE ReadsInv'
<1>. DEFINE Past(r) == Answered(before[r])
            Unknown(r) == Uploads(Target(r), Past(r)) = {}
            Current(r, session) ==
              /\ \A q \in Past(r) : Kind(q) = "query" /\ Target(q) = Target(r) => EntriesOf(session.chat_history, q) # {}
              /\ Uploads(Target(r), Past(r)) # {} =>
                    session.corpus_ref \in Requests \ Superseded(Target(r), Past(r))
<1>1. ASSUME NEW r \in Requests, pc[r] # "not_sent", Target(r)' = Target(r)
      PROVE  /\ Past(r)' = Past(r) /\ Uploads(Target(r), Past(r))' = Uploads(Target(r), Past(r))
             /\ Superseded(Target(r), Past(r))' = Superseded(Target(r), Past(r))
             /\ \A q \in Past(r) : Kind(q)' = Kind(q) /\ Target(q)' = Target(q)
  <2>1. Past(r)' = Past(r)
    BY <1>1, PastStays
  <2>2. \A q \in Past(r) : q \in Requests /\ pc[q] = "200"
    BY DEF TypeOK, Answered
  <2>3. \A q \in Past(r) : Kind(q)' = Kind(q) /\ Target(q)' = Target(q) /\ before'[q] = before[q]
    BY <2>2, PastStays DEF Responses, Errors
  <2>4. Uploads(Target(r), Past(r))' = Uploads(Target(r), Past(r))
    BY <1>1, <2>1, <2>3 DEF Uploads
  <2>5. Uploads(Target(r), Past(r)) \subseteq Past(r)
    BY DEF Uploads
  <2>6. Superseded(Target(r), Past(r))' = Superseded(Target(r), Past(r))
    BY <2>3, <2>4, <2>5 DEF Superseded
  <2>. QED
    BY <2>1, <2>3, <2>4, <2>6
<1>. HIDE DEF Past
<1>2. ASSUME NEW r \in Requests, pc[r] # "not_sent", Target(r)' = Target(r)
      PROVE  /\ Unknown(r) => Uploads(Target(r), Past(r))' = {}
             /\ \A session : Current(r, session) =>
                  /\ \A q \in Past(r)' : Kind(q)' = "query" /\ Target(q)' = Target(r)' => EntriesOf(session.chat_history, q) # {}
                  /\ Uploads(Target(r), Past(r))' # {} =>
                       session.corpus_ref \in Requests \ Superseded(Target(r), Past(r))'
  BY <1>1, <1>2
<1>3. ASSUME NEW r \in Requests, pc'[r] = "404" PROVE Uploads(Target(r), Past(r))' = {}
  <2>1. CASE pc[r] = "404"
    <3>1. Unknown(r)
      BY <2>1 DEF ReadsInv, ReadsAreCurrent, Past
    <3>2. Target(r)' = Target(r)
      BY <2>1, PastStays DEF Responses, Errors, ClientErrors
    <3>. QED
      BY <1>2, <2>1, <3>1, <3>2
  <2>2. CASE pc[r] # "404"
    <3>1. Arrive(r) \/ Handler(r) \/ RedisFails(r)
      BY <1>3, <2>2, Mover
    <3>2. pc[r] = "get" /\ Session(Target(r)) = Nothing
      BY <1>3, <3>1, ReadMoves DEF SetSteps
    <3>3. Unknown(r)
      BY <3>2, SessionsAreCurrent DEF Past
    <3>4. Target(r)' = Target(r)
      BY <3>1, <3>2, CallMoves
    <3>. QED
      BY <1>2, <3>2, <3>3, <3>4
  <2>. QED
    BY <2>1, <2>2
<1>4. ASSUME NEW r \in Requests, read'[r] # Nothing, Kind(r)' \in {"query", "history"}
      PROVE  /\ \A q \in Past(r)' : Kind(q)' = "query" /\ Target(q)' = Target(r)' => EntriesOf(read'[r].chat_history, q) # {}
             /\ Uploads(Target(r), Past(r))' # {} =>
                  read'[r].corpus_ref \in Requests \ Superseded(Target(r), Past(r))'
  <2>1. pc[r] # "not_sent"
    <3>1. ASSUME pc[r] = "not_sent" PROVE read'[r] = read[r]
      BY <3>1, ReadsOf
    <3>. QED
      BY <1>4, <3>1 DEF ReadsInv
  <2>2. Kind(r) \in {"query", "history"} /\ Target(r)' = Target(r)
    BY <1>4, <2>1, PastStays
  <2>3. Current(r, read'[r])
    <3>1. CASE read'[r] = read[r]
      BY <1>4, <2>2, <3>1 DEF ReadsInv, ReadsAreCurrent, Past
    <3>2. CASE pc[r] # "snapshot" /\ read'[r] = Session(Target(r))
      <4>1. Session(Target(r)) # Nothing /\ read'[r] = redis[Target(r)]
        BY <1>4, <3>2 DEF Session
      <4>. QED
        BY <4>1, SessionsAreCurrent DEF Past
    <3>3. pc[r] # "snapshot"
      BY <2>2 DEF ControlInv
    <3>. QED
      BY <3>1, <3>2, <3>3, ReadsOf
  <2>. QED
    BY <1>2, <2>1, <2>2, <2>3
<1>5. ASSUME NEW r \in Requests
      PROVE  /\ pc'[r] = "not_sent" => read'[r] = Nothing
             /\ pc'[r] = "200" /\ Kind(r)' = "metrics" => read'[r] \in Counters
  <2>1. ASSUME pc'[r] = "not_sent" PROVE read'[r] = Nothing
    <3>1. pc[r] = "not_sent"
      BY <2>1, Mover, Edges
    <3>. QED
      BY <3>1, ReadsOf DEF ReadsInv
  <2>2. ASSUME pc'[r] = "200", Kind(r)' = "metrics" PROVE read'[r] \in Counters
    <3>1. CASE pc[r] = "200"
      <4>1. Kind(r) = "metrics"
        BY <2>2, <3>1, PastStays
      <4>. QED
        BY <3>1, <4>1, ReadsOf DEF ReadsInv, Responses, Errors
    <3>2. CASE pc[r] # "200"
      <4>1. Arrive(r) \/ Handler(r) \/ RedisFails(r)
        BY <2>2, <3>2, Mover
      <4>2. pc[r] # "not_sent" /\ Kind(r) = "metrics"
        BY <2>2, <4>1, Edges, CallMoves
      <4>3. pc[r] = "snapshot"
        BY <2>2, <4>1, <4>2, Edges DEF ControlInv, UploadSteps, TurnSteps
      <4>. QED
        BY <4>1, <4>3, ReadMoves, CallMoves DEF TypeOK
    <3>. QED
      BY <3>1, <3>2
  <2>. QED
    BY <2>1, <2>2
<1>. QED
  BY <1>3, <1>4, <1>5 DEF ReadsInv, ReadsAreCurrent, Past, Target, Kind

-----------------------------------------------------------------------------

LEMMA AtomicInit == Init => AtomicInv
BY DEF Init, AtomicInv, SetSteps

(* The inductive invariant of one event loop: what the sessions, the        *)
(* histories, the profiles, the reads and the counters have in common.      *)
THEOREM SoloInvariance == ASSUME OneWorker PROVE Spec => [](IInv /\ SoloInv)
<1>1. Init => SoloInv
  BY AtomicInit, TurnsInit, OrderInit, ProfilesInit, ReadsInit, ExactCountersInit, MetricsReadInit DEF SoloInv
<1>2. IInv /\ SoloInv /\ [Next]_vars => SoloInv'
  BY AtomicStep, TurnsStep, OrderStep, ProfilesStep, ReadsStep, ExactCountersStep, MetricsReadStep DEF IInv, SoloInv
<1>. QED
  BY <1>1, <1>2, Invariance, PTL DEF Spec

(* SessionStore is refined: a SessionStore call takes effect at once,       *)
(* although it is a GET and a SET of the whole session and any Redis        *)
(* command may fail and any worker crash between the two.                   *)
THEOREM StoreRefined == ASSUME OneWorker PROVE Spec => StoreIsAtomic
<1>1. Init => Store!Init
  BY DEF Init, Store!Init
<1>2. IInv /\ SoloInv /\ [Next]_vars => [Store!Next]_redis
  <2>. SUFFICES ASSUME IInv, SoloInv, [Next]_vars PROVE [Store!Next]_redis
    OBVIOUS
  <2>. USE DEF IInv, SoloInv
  <2>1. ASSUME NEW r \in Requests, Arrive(r) \/ Handler(r) \/ RedisFails(r) PROVE [Store!Next]_redis
    <3>. USE <2>1
    <3>1. pc[r] \in TurnSteps \cup {"set_corpus.set"} => Target(r) \in Requests /\ redis[Target(r)] # Nothing
      BY Targets
    <3>2. pc[r] = "create" /\ redis[r] = Nothing /\ redis' = [redis EXCEPT ![r] = Store!NewSession] => Store!Create(r)
      BY DEF Store!Create
    <3>3. pc[r] = "set_corpus.set" /\ redis' = [redis EXCEPT ![Target(r)] = Store!WithCorpus(redis[Target(r)], r, r)] =>
            Store!SetCorpus(Target(r), r)
      BY <3>1 DEF Store!SetCorpus
    <3>4. pc[r] = "update_profile.set" /\ turn[r] \in Requests
            /\ redis' = [redis EXCEPT ![Target(r)] = Store!WithProfile(redis[Target(r)], turn[r])] =>
            Store!UpdateProfile(Target(r), turn[r])
      BY <3>1 DEF Store!UpdateProfile, TurnSteps
    <3>5. pc[r] = "append_turn.set" => ~Store!Recorded(r)
      <4>1. pc[r] = "append_turn.set" => \A s \in Requests : redis[s] # Nothing => EntriesOf(redis[s].chat_history, r) = {}
        BY DEF TurnsInv, Responses, Errors, ClientErrors
      <4>. QED
        BY <4>1 DEF Store!Recorded, EntriesOf
    <3>6. pc[r] = "append_turn.set" /\ redis' = [redis EXCEPT ![Target(r)] = Store!WithTurn(redis[Target(r)], r)] =>
            Store!AppendTurn(Target(r), r)
      BY <3>1, <3>5 DEF Store!AppendTurn, TurnSteps
    <3>7. (\E s, d \in Requests : Store!Create(s) \/ Store!SetCorpus(s, d) \/ Store!UpdateProfile(s, d)
                                    \/ Store!AppendTurn(s, d)) => Store!Next
      BY DEF Store!Next
    <3>. QED
      BY <3>1, <3>2, <3>3, <3>4, <3>6, <3>7, Operations DEF TurnSteps
  <2>2. ASSUME NEW w \in Workers, Crash(w) PROVE redis' = redis
    BY <2>2, CrashMoves
  <2>3. CASE UNCHANGED vars
    BY <2>3 DEF vars
  <2>. QED
    BY <2>1, <2>2, <2>3, StepCases
<1>. QED
  BY <1>1, <1>2, SoloInvariance, PTL DEF Spec, StoreIsAtomic, Store!Spec

\* A turn that is in a history once is one pair of two entries.
LEMMA OneTurn ==
  ASSUME NEW h \in Seq(Store!Turns), NEW q \in Requests, TurnIn(h, q)
  PROVE  Cardinality(PairsOf(h, q)) = 1 /\ Cardinality(EntriesOf(h, q)) = 2
<1>1. PICK i \in 1..(Len(h) - 1) : /\ h[i] = [role |-> "user", turn |-> q]
                                   /\ h[i + 1] = [role |-> "assistant", turn |-> q]
                                   /\ EntriesOf(h, q) = {i, i + 1}
  BY DEF TurnIn
<1>2. Len(h) \in Nat /\ DOMAIN h = 1..Len(h)
  OBVIOUS
<1>3. ASSUME NEW j \in PairsOf(h, q) PROVE j = i
  <2>1. /\ j \in 1..(Len(h) - 1) /\ h[j] = [role |-> "user", turn |-> q] /\ h[j + 1] = [role |-> "assistant", turn |-> q]
    BY <1>3 DEF PairsOf
  <2>2. h[j].turn = q /\ h[j + 1].turn = q
    BY <2>1
  <2>3. j \in {i, i + 1} /\ j + 1 \in {i, i + 1}
    BY <1>1, <1>2, <2>1, <2>2 DEF EntriesOf
  <2>. QED
    BY <1>2, <2>1, <2>3
<1>4. i \in PairsOf(h, q)
  BY <1>1 DEF PairsOf
<1>5. PairsOf(h, q) = {i}
  BY <1>3, <1>4
<1>6. Cardinality({i}) = 1 /\ IsFiniteSet({i})
  BY FS_Singleton
<1>7. i + 1 \notin {i} /\ {i, i + 1} = {i} \cup {i + 1}
  BY <1>2
<1>8. Cardinality({i} \cup {i + 1}) = 2
  <2>1. ASSUME NEW S, IsFiniteSet(S), NEW x, x \notin S PROVE Cardinality(S \cup {x}) = Cardinality(S) + 1
    BY <2>1, FS_AddElement
  <2>2. Cardinality({i} \cup {i + 1}) = Cardinality({i}) + 1
    BY <1>6, <1>7, <2>1
  <2>. DEFINE pair == Cardinality({i} \cup {i + 1})
              one == Cardinality({i})
  <2>3. pair = one + 1 /\ one = 1
    BY <1>6, <2>2
  <2>. HIDE DEF pair, one
  <2>4. pair = 2
    BY <2>3
  <2>. QED
    BY <2>4 DEF pair
<1>. QED
  BY <1>1, <1>5, <1>6, <1>7, <1>8

(* A query that was answered has its question and its answer in its         *)
(* session's history, next to each other and once, whatever the other       *)
(* requests of the session do, under crashes and Redis failures.            *)
THEOREM TurnsAreKept == ASSUME OneWorker PROVE Spec => []NoTurnLost
<1>1. IInv /\ SoloInv => NoTurnLost
  <2>. SUFFICES ASSUME IInv, SoloInv, NEW q \in Requests, pc[q] = "200", Kind(q) = "query"
                PROVE  /\ Cardinality(PairsOf(redis[Target(q)].chat_history, q)) = 1
                       /\ Cardinality(EntriesOf(redis[Target(q)].chat_history, q)) = 2
    BY DEF NoTurnLost
  <2>1. TurnIn(redis[Target(q)].chat_history, q)
    BY DEF SoloInv, TurnsInv
  <2>2. redis[Target(q)] \in Store!SessionData
    BY DEF IInv, SessionsInv, TypeOK
  <2>3. redis[Target(q)].chat_history \in Seq(Store!Turns)
    BY <2>2 DEF Store!SessionData
  <2>. QED
    BY <2>1, <2>3, OneTurn
<1>. QED
  BY <1>1, SoloInvariance, PTL

(* What a query or a history request reads has the turns and the last       *)
(* upload that were answered before it arrived, and an id that a client     *)
(* knows is never answered with a 404.                                      *)
THEOREM ReadsStayCurrent == ASSUME OneWorker PROVE Spec => []ReadsAreCurrent
<1>1. SoloInv => ReadsAreCurrent
  BY DEF SoloInv, ReadsInv
<1>. QED
  BY <1>1, SoloInvariance, PTL

(* A session whose profile is not its corpus's was given it by a query that *)
(* arrived before the upload of that corpus was answered.                   *)
THEOREM StaleNeedsOverlap == ASSUME OneWorker PROVE Spec => []StaleOnlyByOverlap
<1>1. SoloInv => StaleOnlyByOverlap
  BY DEF SoloInv, ProfilesInv, Explained, StaleOnlyByOverlap, Stale
<1>. QED
  BY <1>1, SoloInvariance, PTL

(* Every response but those to unhandled exceptions is in the counters that *)
(* /metrics reports, however many requests overlap, for as long as the      *)
(* process was not restarted.                                               *)
THEOREM OnlyUnhandledMissed == ASSUME OneWorker PROVE Spec => []OnlyUnhandledAreUncounted
<1>1. IInv /\ SoloInv => OnlyUnhandledAreUncounted
  <2>. SUFFICES ASSUME IInv, SoloInv, NEW r \in Requests, Kind(r) = "metrics", pc[r] = "200", crashes = 0
                PROVE  LET others == Responded \ {r}
                           Counts(n, R, S) == /\ n + Cardinality(Unhandled(before[r])) >= Cardinality(R)
                                              /\ n + Cardinality(Unhandled(others)) <= Cardinality(S)
                       IN  /\ Counts(read[r].requests, before[r], others)
                           /\ Counts(read[r].errors, Failed(before[r]), Failed(others))
    BY DEF OnlyUnhandledAreUncounted
  <2>. DEFINE others == Responded \ {r}
  <2>1. \A q \in Requests : pc[q] # "connection_lost"
    BY DEF SoloInv, ExactCountersInv
  <2>2. /\ before[r] \subseteq Responded /\ before[r] \subseteq Requests
        /\ others \subseteq Responded /\ others \subseteq Requests
    BY DEF IInv, ControlInv, Responded
  <2>3. Handled(others) = Handled(Requests \ {r}) /\ Refused(others) = Refused(Requests \ {r})
    BY DEF Handled, Refused, Responded, Responses, Errors
  <2>4. /\ read[r].requests >= Cardinality(Handled(before[r])) /\ read[r].requests <= Cardinality(Handled(others))
        /\ read[r].errors >= Cardinality(Refused(before[r])) /\ read[r].errors <= Cardinality(Refused(others))
    BY <2>3 DEF SoloInv, MetricsReadInv
  <2>5. read[r].requests \in Nat /\ read[r].errors \in Nat
    BY RecordedFacts DEF SoloInv, ReadsInv
  <2>6. \A R \in {before[r], others} :
          /\ Cardinality(Handled(R)) + Cardinality(Unhandled(R)) = Cardinality(R)
          /\ Cardinality(Refused(R)) + Cardinality(Unhandled(R)) = Cardinality(Failed(R))
          /\ Cardinality(Handled(R)) \in Nat /\ Cardinality(Refused(R)) \in Nat
          /\ Cardinality(Unhandled(R)) \in Nat
    BY <2>1, <2>2, UnhandledCount
  <2>. HIDE DEF others
  <2>7. /\ read[r].requests + Cardinality(Unhandled(before[r])) >= Cardinality(before[r])
        /\ read[r].requests + Cardinality(Unhandled(others)) <= Cardinality(others)
        /\ read[r].errors + Cardinality(Unhandled(before[r])) >= Cardinality(Failed(before[r]))
        /\ read[r].errors + Cardinality(Unhandled(others)) <= Cardinality(Failed(others))
    BY <2>4, <2>5, <2>6
  <2>. QED
    BY <2>7 DEF others
<1>. QED
  BY <1>1, SoloInvariance, PTL
=============================================================================
