---------------------------- MODULE ModelRegistry ----------------------------
(***************************************************************************)
(* The two model caches and the startup warm-up that fills them.           *)
(* models/registry.py keeps the pipelines under (task, model) keys and     *)
(* models/faiss_index.py the one embedding model, each behind a            *)
(* double-checked lock of its own; backend/main.py loads every model       *)
(* before the server accepts requests, whose turns then run in threads.    *)
(*                                                                         *)
(* Constructing a model is external: it returns or raises, and it imports  *)
(* from transformers, whose lazy imports are not safe in two threads.      *)
(***************************************************************************)
EXTENDS Integers, Sequences

CONSTANTS
  PipelineKeys,       \* the (task, model) keys that tools ask get_pipeline for
  Threads,            \* thread-pool threads, each running one call of a request
  Startup,            \* the thread that runs the lifespan's warm-up
  DefaultPipelines,   \* the keys of get_sentiment_pipeline() and its two siblings, in order
  CandidatePipelines, \* the keys of all_candidate_model_names(), in order
  EmbeddingModel,     \* the one key of _model_cache
  Nobody

\* Mutant of Required: a warm-up that covers the registry's models only.
RegistryOnly == DefaultPipelines

\* The models whose failure fails the startup: the calls before the try of the warm-up.
Required == Append(DefaultPipelines, EmbeddingModel)
WarmUp   == Required \o CandidatePipelines
Keys     == PipelineKeys \cup {EmbeddingModel}
Callers  == Threads \cup {Startup}

ASSUME PipelinesAssumption == /\ DefaultPipelines \in Seq(PipelineKeys)
                              /\ CandidatePipelines \in Seq(PipelineKeys)
                              /\ EmbeddingModel \notin PipelineKeys
ASSUME CallersAssumption == Startup \notin Threads /\ Nobody \notin Callers

VARIABLES
  phase,    \* "warming_up", "serving", or "startup_failed"
  warmed,   \* how many entries of WarmUp the warm-up is done with
  cached,   \* the keys in _pipelines and _model_cache
  lock,     \* _lock and _model_lock: their holders
  pc,       \* per caller: where it is in get_pipeline or _get_embedding_model
  key,      \* per caller: the key it asks for
  built     \* history variable: how many instances of each key were constructed

vars == <<phase, warmed, cached, lock, pc, key, built>>

\* registry._lock guards every pipeline, faiss_index._model_lock the embedding model.
Locks == {"_lock", "_model_lock"}
Guard(k) == IF k = EmbeddingModel THEN "_model_lock" ELSE "_lock"

Steps == {"idle", "check", "wait", "recheck", "construct", "release", "returned", "raised"}

Init ==
  /\ phase = "warming_up" /\ warmed = 0
  /\ cached = {} /\ lock = [l \in Locks |-> Nobody]
  /\ pc = [t \in Callers |-> "idle"]
  /\ key = [t \in Callers |-> EmbeddingModel] /\ built = [k \in Keys |-> 0]

Goto(t, from, to) == pc[t] = from /\ pc' = [pc EXCEPT ![t] = to]

-----------------------------------------------------------------------------
(* get_pipeline and _get_embedding_model: the same double-checked lock.    *)

\* if key not in _pipelines, without the lock.
Hit(t) ==
  /\ Goto(t, "check", "returned") /\ key[t] \in cached
  /\ UNCHANGED <<phase, warmed, cached, lock, key, built>>

Miss(t) ==
  /\ Goto(t, "check", "wait") /\ key[t] \notin cached
  /\ UNCHANGED <<phase, warmed, cached, lock, key, built>>

Acquire(t) ==
  /\ Goto(t, "wait", "recheck") /\ lock[Guard(key[t])] = Nobody
  /\ lock' = [lock EXCEPT ![Guard(key[t])] = t]
  /\ UNCHANGED <<phase, warmed, cached, key, built>>

\* Mutant of Recheck: single-checked locking.
NoRecheck(t) ==
  /\ Goto(t, "recheck", "construct")
  /\ UNCHANGED <<phase, warmed, cached, lock, key, built>>

\* The second look, with the lock.
Recheck(t) ==
  /\ Goto(t, "recheck", IF key[t] \in cached THEN "release" ELSE "construct")
  /\ UNCHANGED <<phase, warmed, cached, lock, key, built>>

\* Mutant of Construct: the instance cached under its task instead of (task, model).
ConstructUnderTask(t) ==
  /\ Goto(t, "construct", "release")
  /\ cached' = cached \cup {"sentiment-analysis"} /\ built' = [built EXCEPT ![key[t]] = @ + 1]
  /\ UNCHANGED <<phase, warmed, lock, key>>

Construct(t) ==
  /\ Goto(t, "construct", "release")
  /\ cached' = cached \cup {key[t]} /\ built' = [built EXCEPT ![key[t]] = @ + 1]
  /\ UNCHANGED <<phase, warmed, lock, key>>

\* Mutant of ConstructRaises: acquire() and release() instead of a with statement.
RaiseWithLock(t) ==
  /\ Goto(t, "construct", "raised")
  /\ UNCHANGED <<phase, warmed, cached, lock, key, built>>

\* The with statement releases the lock on the way out.
ConstructRaises(t) ==
  /\ Goto(t, "construct", "raised")
  /\ lock' = [lock EXCEPT ![Guard(key[t])] = Nobody]
  /\ UNCHANGED <<phase, warmed, cached, key, built>>

Release(t) ==
  /\ Goto(t, "release", "returned")
  /\ lock' = [lock EXCEPT ![Guard(key[t])] = Nobody]
  /\ UNCHANGED <<phase, warmed, cached, key, built>>

GetModel(t) == \/ Hit(t) \/ Miss(t) \/ Acquire(t) \/ Recheck(t)
               \/ Construct(t) \/ ConstructRaises(t) \/ Release(t)

-----------------------------------------------------------------------------
(* _warm_up_all_models and the requests                                    *)

WarmNext ==
  /\ phase = "warming_up" /\ warmed < Len(WarmUp)
  /\ Goto(Startup, "idle", "check")
  /\ key' = [key EXCEPT ![Startup] = WarmUp[warmed + 1]]
  /\ UNCHANGED <<phase, warmed, cached, lock, built>>

Warmed ==
  /\ Goto(Startup, "returned", "idle") /\ warmed' = warmed + 1
  /\ UNCHANGED <<phase, cached, lock, key, built>>

\* Mutant of WarmUpRaises: a default model is tried until it loads.
RetryDefault ==
  /\ Goto(Startup, "raised", "idle")
  /\ warmed' = IF warmed < Len(Required) THEN warmed ELSE warmed + 1
  /\ UNCHANGED <<phase, cached, lock, key, built>>

\* A candidate that does not load is logged and skipped; a default fails the startup.
WarmUpRaises ==
  /\ Goto(Startup, "raised", "idle")
  /\ IF warmed < Len(Required) THEN phase' = "startup_failed" /\ UNCHANGED warmed
     ELSE warmed' = warmed + 1 /\ UNCHANGED phase
  /\ UNCHANGED <<cached, lock, key, built>>

Serve ==
  /\ phase = "warming_up" /\ warmed = Len(WarmUp) /\ phase' = "serving"
  /\ UNCHANGED <<warmed, cached, lock, pc, key, built>>

\* A tool run by a request asks for one of the models.
Call(t) ==
  /\ phase = "serving" /\ Goto(t, "idle", "check")
  /\ \E k \in Keys : key' = [key EXCEPT ![t] = k]
  /\ UNCHANGED <<phase, warmed, cached, lock, built>>

Done ==
  /\ \/ phase = "startup_failed"
     \/ phase = "serving" /\ \A t \in Threads : pc[t] \in {"returned", "raised"}
  /\ UNCHANGED vars

Next == \/ WarmNext \/ Warmed \/ WarmUpRaises \/ Serve
        \/ \E t \in Callers : GetModel(t)
        \/ \E t \in Threads : Call(t)
        \/ Done

\* The scheduler runs every thread that can run, and constructing a model ends.
Fairness == /\ WF_vars(WarmNext \/ Warmed \/ WarmUpRaises \/ Serve)
            /\ \A t \in Callers : WF_vars(GetModel(t))

Spec == Init /\ [][Next]_vars /\ Fairness

-----------------------------------------------------------------------------
(* Properties                                                              *)

TypeOK ==
  /\ phase \in {"warming_up", "serving", "startup_failed"} /\ warmed \in 0..Len(WarmUp)
  /\ cached \subseteq Keys /\ lock \in [Locks -> Callers \cup {Nobody}]
  /\ pc \in [Callers -> Steps] /\ key \in [Callers -> Keys] /\ built \in [Keys -> Nat]

(* "Constructing it at most once per process", however many requests ask    *)
(* for a model at once, before and after a failed construction; and a model *)
(* that was constructed is never lost.                                      *)
ConstructedOnce ==
  \A k \in Keys : built[k] <= 1 /\ (k \in cached <=> built[k] = 1)

(* The race that crashed the process: two threads inside transformers'      *)
(* imports.  The two caches have two locks, so the locks alone allow it; it *)
(* cannot happen because the embedding model is loaded before requests are  *)
(* served, or the startup fails.                                            *)
NoConcurrentConstruction ==
  \A t, u \in Callers : pc[t] = "construct" /\ pc[u] = "construct" => t = u

(* A lock is held only by a caller on its way out of the critical section:  *)
(* an exception in the constructor does not leave the cache locked.         *)
LocksAreReleased ==
  \A l \in Locks : lock[l] # Nobody =>
    pc[lock[l]] \in {"recheck", "construct", "release"} /\ Guard(key[lock[l]]) = l

(* Every call gets its model or the constructor's exception, and the server *)
(* starts or fails to: no caller waits for a lock forever.                  *)
CallsReturn ==
  /\ <>(phase # "warming_up")
  /\ \A t \in Threads : pc[t] = "check" ~> pc[t] \in {"returned", "raised"}

-----------------------------------------------------------------------------
(* The inductive invariant behind the safety properties                    *)

Inside(t) == pc[t] \in {"recheck", "construct", "release"}

LockInv ==
  /\ \A t \in Callers : Inside(t) <=> lock[Guard(key[t])] = t
  /\ \A l \in Locks : lock[l] # Nobody => Guard(key[lock[l]]) = l

CacheInv ==
  /\ \A t \in Callers : pc[t] = "construct" => key[t] \notin cached
  /\ \A t \in Callers : pc[t] \in {"release", "returned"} => key[t] \in cached
  /\ ConstructedOnce

WarmUpInv ==
  /\ \A i \in 1..warmed : i <= Len(Required) => WarmUp[i] \in cached
  /\ phase = "warming_up" => \A t \in Threads : pc[t] = "idle"
  /\ phase = "startup_failed" => \A t \in Callers : pc[t] = "idle"
  /\ phase = "serving" => warmed = Len(WarmUp) /\ pc[Startup] = "idle"
  /\ pc[Startup] # "idle" => warmed < Len(WarmUp) /\ key[Startup] = WarmUp[warmed + 1]

IInv == TypeOK /\ LockInv /\ CacheInv /\ WarmUpInv
=============================================================================
