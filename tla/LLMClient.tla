------------------------------ MODULE LLMClient ------------------------------
(***************************************************************************)
(* GroqLLMClient of llm/client.py in time: the LLM calls of one turn, one  *)
(* after the other, each with its bounded retries and backoff, while the   *)
(* provider is out for some interval.  The clock counts seconds and stands *)
(* still outside the calls: tools, and the rest of the turn, take no time. *)
(***************************************************************************)
EXTENDS Integers, Sequences

CONSTANTS
  Turns,        \* the LLM calls of a turn, by their context
  MaxRetries,   \* _MAX_RETRIES
  BackoffBase,  \* _BACKOFF_BASE_SECONDS
  Timeout,      \* settings.llm_timeout_seconds
  AnswerTimes,  \* how long an answer may take
  ErrorTimes,   \* how long an error may take, the timeout at most
  Outages       \* when the provider fails, and with what exception

NoStatus == 0
Exceptions == [status : {NoStatus} \cup 400..599, builtin : BOOLEAN]

ASSUME RetryAssumption ==
  MaxRetries \in Nat \ {0} /\ BackoffBase \in Nat \ {0} /\ Timeout \in Nat
ASSUME TimesAssumption ==
  AnswerTimes \subseteq 0..Timeout /\ AnswerTimes # {} /\ ErrorTimes \subseteq 0..Timeout
ASSUME OutagesAssumption ==
  /\ Outages \subseteq [from : Nat, until : Nat, exc : Exceptions]
  /\ \A o \in Outages : o.from <= o.until

\* The callers of complete(); only the first call of a turn may be understand_intent's.
Contexts == {"understand_intent", "research_models", "model_recommendation", "synthesize"}
ASSUME TurnsAssumption ==
  /\ Turns \subseteq Seq(Contexts)
  /\ \A turn \in Turns : \A i \in 2..Len(turn) : turn[i] # "understand_intent"

VARIABLES
  key,      \* settings.groq_api_key is set
  outage,   \* when the provider fails
  todo,     \* the contexts of the calls still to be made, the current one first
  pc,       \* where the current call is
  attempt,  \* complete()'s loop variable
  started,  \* when the current call was made
  now,      \* the clock
  made,     \* history variable: how many calls have ended
  last      \* history variable: how the latest one did

vars == <<key, outage, todo, pc, attempt, started, now, made, last>>

\* The outcome of a call, "untried" when the constructor raised.
Outcome(result, k, seconds) ==
  [result |-> result, start |-> started, attempts |-> k, seconds |-> seconds]
NoCall == [result |-> "none", start |-> 0, attempts |-> 0, seconds |-> 0]

Ended(outcome) == last' = outcome /\ made' = made + 1

\* Mutant of IsRetryable: every exception is retried.
RetryAnything(exc) == TRUE

\* _is_retryable: by the status code, or by Python's own TimeoutError and ConnectionError.
IsRetryable(exc) ==
  IF exc.status # NoStatus THEN exc.status = 429 \/ exc.status >= 500 ELSE exc.builtin

\* Mutant of LastAttempt: one attempt too many.
OneMore(k) == k = MaxRetries

LastAttempt(k) == k = MaxRetries - 1

\* Mutant of Backoff: linear instead of exponential.
LinearBackoff(k) == BackoffBase * k

Backoff(k) == BackoffBase * 2 ^ k

Init ==
  /\ key \in BOOLEAN /\ outage \in Outages /\ todo \in Turns
  /\ pc = "construct" /\ attempt = 0 /\ started = 0 /\ now = 0 /\ made = 0 /\ last = NoCall

\* A client per call; without an API key the constructor raises.
Construct ==
  /\ pc = "construct" /\ todo # <<>> /\ key
  /\ pc' = "invoke" /\ attempt' = 0 /\ started' = now
  /\ UNCHANGED <<key, outage, todo, now, made, last>>

\* understand_intent ends the turn on an LLMError; condensing a claim, recommending a model
\* and synthesizing the answer go on without the LLM.
GoesOn(context) == context # "understand_intent"
AfterError == IF GoesOn(Head(todo)) THEN Tail(todo) ELSE <<>>

ConstructRaises ==
  /\ pc = "construct" /\ todo # <<>> /\ ~key
  /\ Ended([NoCall EXCEPT !.result = "untried"]) /\ todo' = AfterError
  /\ UNCHANGED <<key, outage, pc, attempt, started, now>>

\* self._chat.invoke with the SDK's own retries switched off.
ProviderFails == outage.from <= now /\ now < outage.until

InvokeReturns ==
  /\ pc = "invoke" /\ ~ProviderFails
  /\ \E t \in AnswerTimes : now' = now + t
  /\ Ended(Outcome("answer", attempt + 1, now' - started))
  /\ todo' = Tail(todo) /\ pc' = "construct"
  /\ UNCHANGED <<key, outage, attempt, started>>

\* Raised to the caller as an LLMError.
GivesUp ==
  /\ pc = "invoke" /\ ProviderFails /\ (~IsRetryable(outage.exc) \/ LastAttempt(attempt))
  /\ \E t \in ErrorTimes : now' = now + t
  /\ Ended(Outcome("error", attempt + 1, now' - started))
  /\ todo' = AfterError /\ pc' = "construct"
  /\ UNCHANGED <<key, outage, attempt, started>>

InvokeRaises ==
  /\ pc = "invoke" /\ ProviderFails /\ IsRetryable(outage.exc) /\ ~LastAttempt(attempt)
  /\ \E t \in ErrorTimes : now' = now + t
  /\ pc' = "sleep"
  /\ UNCHANGED <<key, outage, todo, attempt, started, made, last>>

Sleep ==
  /\ pc = "sleep" /\ now' = now + Backoff(attempt)
  /\ attempt' = attempt + 1 /\ pc' = "invoke"
  /\ UNCHANGED <<key, outage, todo, started, made, last>>

TurnOver == todo = <<>> /\ UNCHANGED vars

Next == Construct \/ ConstructRaises \/ InvokeReturns \/ GivesUp \/ InvokeRaises \/ Sleep \/ TurnOver

Spec == Init /\ [][Next]_vars

-----------------------------------------------------------------------------
(* Properties                                                              *)

\* "timeouts, 429, 5xx", where a timeout is one of Python's own exceptions.
Transient(exc) == exc.status \in {429} \cup 500..599 \/ (exc.status = NoStatus /\ exc.builtin)

\* The sleeps before attempt k, counted from 0.
Slept(k) == BackoffBase * (2 ^ k - 1)

TypeOK ==
  /\ key \in BOOLEAN /\ outage \in Outages /\ pc \in {"construct", "invoke", "sleep"}
  /\ attempt \in 0..(MaxRetries - 1) /\ started \in Nat /\ now \in Nat /\ started <= now
  /\ todo = <<>> \/ GoesOn(Head(todo)) \/ made = 0
  /\ last \in [result : {"none", "untried", "answer", "error"}, start : Nat,
              attempts : 0..MaxRetries, seconds : Nat]

(* "Bounded retries", which "surface immediately" what retrying cannot     *)
(* help: a call is over after MaxRetries attempts, their timeouts and the   *)
(* sleeps between them, 93 seconds as configured; an error that is not      *)
(* transient costs one attempt, and a missing API key none.                 *)
CallIsBounded ==
  /\ pc # "construct" => now - started <= (attempt + 1) * Timeout + Slept(attempt)
  /\ last.seconds <= last.attempts * Timeout + Slept(MaxRetries - 1)
  /\ last.result = "untried" => last.attempts = 0
  /\ last.result = "error" => last.attempts = IF Transient(outage.exc) THEN MaxRetries ELSE 1

Longest(times) == CHOOSE t \in times : \A u \in times : u <= t

(* What the backoff is for: a provider that fails retryably, for no longer  *)
(* than the sleeps of a call from the moment it is made, fails no call.     *)
(* And what it costs: an outage delays a turn by its own length, one        *)
(* timeout and one call's sleeps at most, however many calls the turn has,  *)
(* so that an outage of up to a minute leaves the LLM calls of a turn       *)
(* within the 120 seconds that the page waits for its answer.               *)
OutagesAreRiddenOut ==
  /\ last.result = "error" /\ Transient(outage.exc) =>
       outage.until > last.start + Slept(MaxRetries - 1)
  /\ now <= made * Longest(AnswerTimes)
            + (IF now < outage.from THEN 0
               ELSE outage.until - outage.from + Timeout + Slept(MaxRetries - 1))

-----------------------------------------------------------------------------
(* The inductive invariant behind the safety properties                    *)

\* Only the first call of a turn may be understand_intent's.
TodoInv ==
  /\ todo \in Seq(Contexts)
  /\ \A i \in DOMAIN todo : GoesOn(todo[i]) \/ (i = 1 /\ made = 0)
  /\ pc # "construct" => todo # <<>>

\* Attempts are spent on retryable errors only, and there is one left after every sleep.
AttemptInv ==
  /\ pc # "construct" /\ attempt > 0 => IsRetryable(outage.exc)
  /\ pc = "sleep" => IsRetryable(outage.exc) /\ ~LastAttempt(attempt)

\* How long the current call has taken: the sleeps at least, and its attempts at most.
CallInv ==
  /\ pc # "construct" => started + Slept(attempt) <= now
  /\ pc = "invoke" => now <= started + attempt * Timeout + Slept(attempt)
  /\ pc = "sleep" => now <= started + (attempt + 1) * Timeout + Slept(attempt)

\* The turn has only waited for answers, or else the outage began before it had waited for
\* longer, and delays it by its own length, a timeout and a call's sleeps.
OutageInv ==
  LET answered == made * Longest(AnswerTimes)
  IN  /\ pc = "sleep" => outage.from <= answered /\ now <= outage.until + Timeout
      /\ \/ now <= answered
         \/ /\ outage.from <= answered
            /\ now <= answered + outage.until - outage.from + Timeout + Slept(MaxRetries - 1)

IInv ==
  /\ TypeOK /\ made \in Nat
  /\ TodoInv /\ AttemptInv /\ CallInv /\ OutageInv /\ CallIsBounded /\ OutagesAreRiddenOut
=============================================================================
