---------------------------- MODULE LLMClientProofs ----------------------------
(***************************************************************************)
(* The bounds of the LLM client, for every retry policy, timeout, turn and *)
(* outage.                                                                 *)
(***************************************************************************)
EXTENDS LLMClient, FiniteSets, FiniteSetTheorems, WellFoundedInduction, TLAPS

-----------------------------------------------------------------------------
(* Powers of two, as the number of subsets of 1..n                         *)

LEMMA SubsetsCounted ==
  ASSUME NEW n \in Nat
  PROVE  IsFiniteSet(SUBSET (1..n)) /\ Cardinality(SUBSET (1..n)) = 2 ^ n /\ 2 ^ n \in Nat
<1>1. IsFiniteSet(1..n) /\ Cardinality(1..n) = n
  BY FS_Interval
<1>2. IsFiniteSet(SUBSET (1..n)) /\ Cardinality(SUBSET (1..n)) = 2 ^ n
  BY <1>1, FS_SUBSET
<1>. QED
  BY <1>2, FS_CardinalityType

LEMMA PowersGrow ==
  ASSUME NEW m \in Nat, NEW n \in Nat, m <= n
  PROVE  2 ^ m <= 2 ^ n
<1>1. SUBSET (1..m) \in SUBSET (SUBSET (1..n))
  OBVIOUS
<1>2. /\ IsFiniteSet(SUBSET (1..n))
      /\ Cardinality(SUBSET (1..m)) = 2 ^ m /\ Cardinality(SUBSET (1..n)) = 2 ^ n
  BY SubsetsCounted
<1>3. Cardinality(SUBSET (1..m)) <= Cardinality(SUBSET (1..n))
  BY <1>1, <1>2, FS_Subset, Zenon
<1>. QED
  BY <1>2, <1>3

\* A subset of 1..n + 1 is one of 1..n, with n + 1 or without.
LEMMA PowersDouble ==
  ASSUME NEW n \in Nat
  PROVE  2 ^ (n + 1) = 2 * 2 ^ n
<1>. DEFINE Without == SUBSET (1..n)
            All     == SUBSET (1..(n + 1))
            With    == {s \in All : n + 1 \in s}
            add     == [s \in Without |-> s \cup {n + 1}]
<1>1. All = Without \cup With /\ Without \cap With = {}
  <2>1. 1..(n + 1) = 1..n \cup {n + 1} /\ n + 1 \notin 1..n
    OBVIOUS
  <2>. QED
    BY <2>1
<1>2. ExistsBijection(Without, With)
  <2>1. 1..(n + 1) = 1..n \cup {n + 1} /\ n + 1 \notin 1..n
    OBVIOUS
  <2>2. add \in [Without -> With]
    BY <2>1
  <2>3. \A s, t \in Without : add[s] = add[t] => s = t
    BY <2>1
  <2>4. \A t \in With : \E s \in Without : add[s] = t
    <3>1. ASSUME NEW t \in With PROVE t \ {n + 1} \in Without /\ add[t \ {n + 1}] = t
      BY <2>1
    <3>. QED
      BY <3>1
  <2>. HIDE DEF add, With, Without
  <2>5. add \in Injection(Without, With) /\ add \in Surjection(Without, With)
    BY <2>2, <2>3, <2>4 DEF Injection, Surjection, IsInjective
  <2>. QED
    BY <2>5 DEF ExistsBijection, Bijection
<1>3. IsFiniteSet(Without) /\ Cardinality(Without) = 2 ^ n /\ Cardinality(All) = 2 ^ (n + 1) /\ 2 ^ n \in Nat
  <2>1. n + 1 \in Nat
    OBVIOUS
  <2>. QED
    BY <2>1, SubsetsCounted
<1>. HIDE DEF Without, With, All
<1>4. IsFiniteSet(With) /\ Cardinality(With) = Cardinality(Without)
  BY <1>2, <1>3, FS_Bijection
<1>5. Cardinality(All) = Cardinality(Without) + Cardinality(With) - Cardinality(Without \cap With)
  BY <1>1, <1>3, <1>4, FS_Union
<1>6. Cardinality(Without \cap With) = 0
  BY <1>1, FS_EmptySet
<1>. QED
  BY <1>3, <1>4, <1>5, <1>6

-----------------------------------------------------------------------------
(* The retry policy                                                        *)

LEMMA SleptFacts ==
  ASSUME NEW k \in Nat
  PROVE  /\ Slept(k) \in Nat /\ Slept(0) = 0 /\ Backoff(k) \in Nat
         /\ Slept(k + 1) = Slept(k) + Backoff(k)
<1>. DEFINE p == 2 ^ k
<1>1. p \in Nat /\ p >= 1 /\ 2 ^ (k + 1) = 2 * p /\ 2 ^ 0 = 1
  <2>1. 2 ^ 0 = 1 /\ 0 \in Nat /\ 0 <= k
    OBVIOUS
  <2>2. 2 ^ 0 <= 2 ^ k
    BY <2>1, PowersGrow, Zenon
  <2>. QED
    BY <2>1, <2>2, SubsetsCounted, PowersDouble
<1>. HIDE DEF p
<1>2. BackoffBase \in Nat
  BY RetryAssumption
<1>3. BackoffBase * p \in Nat /\ BackoffBase * (p - 1) \in Nat
      /\ BackoffBase * (2 * p - 1) = BackoffBase * (p - 1) + BackoffBase * p /\ BackoffBase * (1 - 1) = 0
  BY <1>1, <1>2
<1>. QED
  BY <1>1, <1>3 DEF Slept, Backoff, p

LEMMA SleptGrows ==
  ASSUME NEW k \in Nat, NEW m \in Nat, k <= m
  PROVE  Slept(k) <= Slept(m)
<1>. DEFINE p == 2 ^ k
            q == 2 ^ m
<1>1. p \in Nat /\ q \in Nat /\ p <= q /\ BackoffBase \in Nat
  BY SubsetsCounted, PowersGrow, RetryAssumption
<1>. HIDE DEF p, q
<1>2. BackoffBase * (q - 1) = BackoffBase * (p - 1) + BackoffBase * (q - p) /\ BackoffBase * (q - p) >= 0
  BY <1>1
<1>. QED
  BY <1>1, <1>2 DEF Slept, p, q

\* The exceptions that are retried are the transient ones.
LEMMA RetriesTransient ==
  ASSUME NEW exc \in Exceptions
  PROVE  IsRetryable(exc) <=> Transient(exc)
BY DEF Exceptions, IsRetryable, Transient, NoStatus

LEMMA LongestFacts ==
  /\ Longest(AnswerTimes) \in Nat
  /\ \A t \in AnswerTimes : t \in Nat /\ t <= Timeout /\ t <= Longest(AnswerTimes)
<1>. DEFINE Left == {Timeout - t : t \in AnswerTimes}
<1>1. \A t \in AnswerTimes : t \in Nat /\ t <= Timeout /\ Timeout - t \in Nat /\ Timeout \in Nat
  BY RetryAssumption, TimesAssumption
<1>2. Left \subseteq Nat /\ Left # {}
  BY <1>1, TimesAssumption
<1>3. PICK x \in Left : \A y \in Left : ~(<<y, x>> \in OpToRel(<, Nat))
  <2>. HIDE DEF Left
  <2>1. \E x \in Left : \A y \in Left : ~(<<y, x>> \in OpToRel(<, Nat))
    BY <1>2, NatLessThanWellFounded, WFMin
  <2>. QED
    BY <2>1
<1>4. \A y \in Left : ~(y < x)
  BY <1>2, <1>3 DEF OpToRel
<1>5. PICK t \in AnswerTimes : x = Timeout - t
  OBVIOUS
<1>6. \A u \in AnswerTimes : u <= t
  BY <1>1, <1>4, <1>5
<1>7. Longest(AnswerTimes) \in AnswerTimes /\ \A u \in AnswerTimes : u <= Longest(AnswerTimes)
  BY <1>6 DEF Longest
<1>. QED
  BY <1>1, <1>7

-----------------------------------------------------------------------------
(* Types                                                                   *)

OutcomeType == [result : {"none", "untried", "answer", "error"}, start : Nat,
                attempts : 0..MaxRetries, seconds : Nat]

\* The calls that are left once the current one is over.
LEMMA TodoFacts ==
  ASSUME TodoInv, todo # <<>>
  PROVE  \A rest \in {Tail(todo), AfterError} :
           rest \in Seq(Contexts) /\ \A i \in DOMAIN rest : GoesOn(rest[i])
<1>1. /\ todo \in Seq(Contexts) /\ Len(todo) \in Nat \ {0} /\ DOMAIN todo = 1..Len(todo)
      /\ \A i \in DOMAIN todo : i # 1 => GoesOn(todo[i])
  BY DEF TodoInv
<1>2. /\ Tail(todo) \in Seq(Contexts) /\ DOMAIN Tail(todo) = 1..(Len(todo) - 1)
      /\ \A i \in 1..(Len(todo) - 1) : Tail(todo)[i] = todo[i + 1] /\ i + 1 \in DOMAIN todo /\ i + 1 # 1
  BY <1>1
<1>3. \A i \in DOMAIN Tail(todo) : GoesOn(Tail(todo)[i])
  BY <1>1, <1>2
<1>4. <<>> \in Seq(Contexts) /\ DOMAIN <<>> = {}
  OBVIOUS
<1>5. AfterError \in {Tail(todo), <<>>}
  BY DEF AfterError
<1>. QED
  BY <1>2, <1>3, <1>4, <1>5

\* What every step does to the clock and the control of the current call.
LEMMA StepFacts ==
  ASSUME IInv, [Next]_vars
  PROVE  /\ key' = key /\ outage' = outage /\ outage \in Outages /\ outage.exc \in Exceptions
         /\ outage.from \in Nat /\ outage.until \in Nat /\ outage.from <= outage.until
         /\ made \in Nat /\ now \in Nat /\ started \in Nat /\ started <= now /\ now' \in Nat /\ now <= now'
         /\ attempt \in 0..(MaxRetries - 1) /\ Timeout \in Nat /\ MaxRetries \in Nat \ {0}
<1>1. /\ outage \in Outages /\ made \in Nat /\ now \in Nat /\ started \in Nat /\ started <= now
      /\ attempt \in 0..(MaxRetries - 1) /\ Timeout \in Nat /\ MaxRetries \in Nat \ {0}
  BY RetryAssumption DEF IInv, TypeOK
<1>2. /\ outage.from \in Nat /\ outage.until \in Nat /\ outage.from <= outage.until
      /\ outage.exc \in Exceptions
  BY <1>1, OutagesAssumption
<1>3. attempt \in Nat /\ Backoff(attempt) \in Nat /\ \A t \in AnswerTimes \cup ErrorTimes : t \in Nat
  BY <1>1, SleptFacts, TimesAssumption
<1>4. key' = key /\ outage' = outage
  BY DEF Next, vars, Construct, ConstructRaises, InvokeReturns, GivesUp, InvokeRaises, Sleep, TurnOver
<1>5. now' \in Nat /\ now <= now'
  BY <1>1, <1>3 DEF Next, vars, Construct, ConstructRaises, InvokeReturns, GivesUp, InvokeRaises, Sleep, TurnOver
<1>. QED
  BY <1>1, <1>2, <1>4, <1>5

LEMMA TypeStep == IInv /\ [Next]_vars => (TypeOK /\ made \in Nat /\ TodoInv)'
<1>. SUFFICES ASSUME IInv, [Next]_vars PROVE (TypeOK /\ made \in Nat /\ TodoInv)'
  OBVIOUS
<1>0. TypeOK /\ TodoInv /\ made \in Nat
  BY DEF IInv
<1>1. TodoInv' /\ made' \in Nat
  <2>1. CASE Construct \/ InvokeRaises \/ Sleep
    BY <1>0, <2>1 DEF Construct, InvokeRaises, Sleep, TodoInv
  <2>2. CASE TurnOver \/ UNCHANGED vars
    BY <1>0, <2>2 DEF TurnOver, vars, TodoInv
  <2>3. CASE ConstructRaises \/ InvokeReturns \/ GivesUp
    <3>1. todo # <<>> /\ todo' \in {Tail(todo), AfterError} /\ pc' = "construct" /\ made' = made + 1
      BY <1>0, <2>3 DEF ConstructRaises, InvokeReturns, GivesUp, Ended, TodoInv
    <3>. QED
      BY <1>0, <3>1, TodoFacts DEF TodoInv, GoesOn
  <2>. QED
    BY <2>1, <2>2, <2>3 DEF Next
<1>2. todo' = <<>> \/ GoesOn(Head(todo)') \/ made' = 0
  <2>1. todo' \in Seq(Contexts) /\ \A i \in DOMAIN todo' : GoesOn(todo'[i]) \/ (i = 1 /\ made' = 0)
    BY <1>1 DEF TodoInv, GoesOn
  <2>2. todo' # <<>> => 1 \in DOMAIN todo' /\ Head(todo') = todo'[1]
    BY <2>1
  <2>. QED
    BY <2>1, <2>2
<1>3. last' \in OutcomeType
  <2>1. last \in OutcomeType /\ NoCall \in OutcomeType
    BY <1>0, RetryAssumption DEF TypeOK, NoCall, OutcomeType
  <2>2. CASE ConstructRaises
    BY <2>1, <2>2 DEF ConstructRaises, Ended, OutcomeType
  <2>3. ASSUME NEW result \in {"answer", "error"}, last' = Outcome(result, attempt + 1, now' - started)
        PROVE  last' \in OutcomeType
    <3>1. attempt + 1 \in 0..MaxRetries /\ now' - started \in Nat /\ started \in Nat
      BY StepFacts
    <3>. QED
      BY <2>3, <3>1 DEF Outcome, OutcomeType
  <2>4. CASE last' = last
    BY <2>1, <2>4
  <2>. QED
    BY <2>2, <2>3, <2>4 DEF Next, Construct, InvokeReturns, GivesUp, InvokeRaises, Sleep, TurnOver, Ended, vars
<1>4. pc' \in {"construct", "invoke", "sleep"} /\ attempt' \in 0..(MaxRetries - 1) /\ started' \in Nat /\ started' <= now'
  <2>1. pc = "sleep" => attempt + 1 \in 0..(MaxRetries - 1)
    BY StepFacts DEF IInv, AttemptInv, LastAttempt
  <2>. QED
    BY <1>0, <2>1, StepFacts DEF TypeOK, Next, vars, Construct, ConstructRaises, InvokeReturns, GivesUp,
       InvokeRaises, Sleep, TurnOver
<1>. QED
  BY <1>0, <1>1, <1>2, <1>3, <1>4, StepFacts DEF TypeOK, OutcomeType

-----------------------------------------------------------------------------
(* One call                                                                *)

LEMMA AttemptStep == IInv /\ [Next]_vars => AttemptInv'
<1>. SUFFICES ASSUME IInv, [Next]_vars PROVE AttemptInv'
  OBVIOUS
<1>1. AttemptInv
  BY DEF IInv
<1>. QED
  BY <1>1, StepFacts DEF AttemptInv, Next, vars, Construct, ConstructRaises, InvokeReturns, GivesUp, InvokeRaises,
     Sleep, TurnOver, LastAttempt, IsRetryable

LEMMA CallStep == IInv /\ [Next]_vars => CallInv'
<1>. SUFFICES ASSUME IInv, [Next]_vars PROVE CallInv'
  OBVIOUS
<1>0. CallInv
  BY DEF IInv
<1>. DEFINE spent == attempt * Timeout
<1>1. /\ attempt \in Nat /\ spent \in Nat /\ (attempt + 1) * Timeout = spent + Timeout /\ 0 * Timeout = 0
      /\ now \in Nat /\ started \in Nat /\ Timeout \in Nat
  BY StepFacts
<1>2. /\ Slept(attempt) \in Nat /\ Slept(0) = 0 /\ Backoff(attempt) \in Nat
      /\ Slept(attempt + 1) = Slept(attempt) + Backoff(attempt)
  BY <1>1, SleptFacts
<1>3. \A t \in ErrorTimes : t \in Nat /\ t <= Timeout
  BY TimesAssumption, RetryAssumption
<1>4. CASE Construct
  <2>1. started' = now /\ now' = now /\ attempt' = 0 /\ pc' = "invoke"
    BY <1>4 DEF Construct
  <2>2. Slept(attempt)' = 0 /\ attempt' * Timeout = 0
    BY <1>1, <1>2, <2>1 DEF Slept
  <2>. QED
    BY <1>1, <2>1, <2>2 DEF CallInv
<1>5. CASE InvokeRaises
  <2>1. PICK t \in ErrorTimes : now' = now + t
    BY <1>5 DEF InvokeRaises
  <2>2. pc = "invoke" /\ pc' = "sleep" /\ attempt' = attempt /\ started' = started /\ Slept(attempt)' = Slept(attempt)
    BY <1>5 DEF InvokeRaises, Slept
  <2>. HIDE DEF spent
  <2>. QED
    BY <1>0, <1>1, <1>2, <1>3, <2>1, <2>2 DEF CallInv, spent
<1>6. CASE Sleep
  <2>1. pc = "sleep" /\ pc' = "invoke" /\ attempt' = attempt + 1 /\ started' = started /\ now' = now + Backoff(attempt)
    BY <1>6 DEF Sleep
  <2>2. Slept(attempt)' = Slept(attempt + 1)
    BY <2>1 DEF Slept
  <2>3. attempt' * Timeout = spent + Timeout
    BY <1>1, <2>1
  <2>. HIDE DEF spent
  <2>. QED
    BY <1>0, <1>1, <1>2, <2>1, <2>2, <2>3 DEF CallInv
<1>7. CASE ConstructRaises \/ InvokeReturns \/ GivesUp
  <2>1. pc' = "construct"
    BY <1>7 DEF ConstructRaises, InvokeReturns, GivesUp
  <2>. QED
    BY <2>1 DEF CallInv
<1>8. CASE TurnOver \/ UNCHANGED vars
  BY <1>0, <1>8 DEF TurnOver, vars, CallInv, Slept
<1>. QED
  BY <1>4, <1>5, <1>6, <1>7, <1>8 DEF Next

\* How a call ends: by an answer, by the error of a hopeless or a last attempt, or unmade.
LEMMA CallEnds ==
  ASSUME IInv, [Next]_vars
  PROVE  \/ last' = last /\ made' = made
         \/ last' = [NoCall EXCEPT !.result = "untried"] /\ made' = made + 1 /\ now' = now
         \/ /\ pc = "invoke" /\ pc' = "construct" /\ made' = made + 1
            /\ \/ /\ last' = Outcome("answer", attempt + 1, now' - started)
                  /\ ~ProviderFails /\ now' <= now + Longest(AnswerTimes)
               \/ /\ last' = Outcome("error", attempt + 1, now' - started)
                  /\ ProviderFails /\ (~IsRetryable(outage.exc) \/ LastAttempt(attempt))
            /\ now' <= now + Timeout
<1>0. now \in Nat
  BY StepFacts
<1>1. CASE InvokeReturns
  <2>1. PICK t \in AnswerTimes : now' = now + t
    BY <1>1 DEF InvokeReturns
  <2>2. /\ t \in Nat /\ t <= Longest(AnswerTimes) /\ t <= Timeout
        /\ Longest(AnswerTimes) \in Nat /\ Timeout \in Nat
    BY LongestFacts, RetryAssumption
  <2>3. /\ pc = "invoke" /\ pc' = "construct" /\ ~ProviderFails /\ made' = made + 1
        /\ last' = Outcome("answer", attempt + 1, now' - started)
    BY <1>1 DEF InvokeReturns, Ended
  <2>. QED
    BY <1>0, <2>1, <2>2, <2>3
<1>2. CASE GivesUp
  <2>1. PICK t \in ErrorTimes : now' = now + t
    BY <1>2 DEF GivesUp
  <2>2. t \in Nat /\ t <= Timeout /\ Timeout \in Nat
    BY TimesAssumption, RetryAssumption
  <2>. QED
    BY <1>0, <1>2, <2>1, <2>2 DEF GivesUp, Ended
<1>3. CASE ConstructRaises
  BY <1>3 DEF ConstructRaises, Ended
<1>4. CASE Construct \/ InvokeRaises \/ Sleep \/ TurnOver \/ UNCHANGED vars
  BY <1>4 DEF Construct, InvokeRaises, Sleep, TurnOver, vars
<1>. QED
  BY <1>1, <1>2, <1>3, <1>4 DEF Next

LEMMA BoundStep == IInv /\ [Next]_vars => CallIsBounded'
<1>. SUFFICES ASSUME IInv, [Next]_vars PROVE CallIsBounded'
  OBVIOUS
<1>. DEFINE spent == attempt * Timeout
            most  == Slept(MaxRetries - 1)
<1>0. CallIsBounded /\ CallInv
  BY DEF IInv
<1>1. pc' # "construct" => now' - started' <= (attempt' + 1) * Timeout + Slept(attempt)'
  <2>. DEFINE k == attempt'
              kept == k * Timeout
              more == (k + 1) * Timeout
              slept == Slept(attempt)'
              n == now'
              begun == started'
  <2>1. /\ k \in Nat /\ n \in Nat /\ begun \in Nat /\ Timeout \in Nat
        /\ kept \in Nat /\ more = kept + Timeout
    BY TypeStep, RetryAssumption DEF TypeOK
  <2>2. slept \in Nat
    <3>1. Slept(k) \in Nat
      BY <2>1, SleptFacts
    <3>. QED
      BY <3>1 DEF Slept
  <2>3. /\ pc' \in {"construct", "invoke", "sleep"}
        /\ pc' = "invoke" => n <= begun + kept + slept
        /\ pc' = "sleep" => n <= begun + more + slept
    BY TypeStep, CallStep DEF CallInv, TypeOK
  <2>. HIDE DEF k, kept, more, slept, n, begun
  <2>4. pc' # "construct" => n - begun <= more + slept
    BY <2>1, <2>2, <2>3
  <2>. QED
    BY <2>4 DEF k, more, slept, n, begun
<1>2. /\ attempt \in Nat /\ spent \in Nat /\ now \in Nat /\ started \in Nat /\ Timeout \in Nat /\ now' \in Nat
      /\ Slept(attempt) \in Nat /\ most \in Nat /\ Slept(attempt) <= most
  <2>1. /\ attempt \in Nat /\ MaxRetries - 1 \in Nat /\ attempt <= MaxRetries - 1
        /\ now \in Nat /\ started \in Nat /\ Timeout \in Nat /\ now' \in Nat
    BY StepFacts
  <2>2. Slept(attempt) \in Nat /\ most \in Nat /\ Slept(attempt) <= most
    BY <2>1, SleptFacts, SleptGrows
  <2>. QED
    BY <2>1, <2>2
<1>3. last'.seconds <= last'.attempts * Timeout + most
  <2>1. CASE last' = last
    BY <1>0, <2>1 DEF CallIsBounded
  <2>2. CASE last' = [NoCall EXCEPT !.result = "untried"]
    <3>1. last'.seconds = 0 /\ last'.attempts = 0
      BY <2>2 DEF NoCall
    <3>. QED
      BY <1>2, <3>1
  <2>3. CASE pc = "invoke" /\ now' <= now + Timeout /\ last'.seconds = now' - started /\ last'.attempts = attempt + 1
    <3>1. now <= started + spent + Slept(attempt)
      BY <1>0, <2>3 DEF CallInv
    <3>. DEFINE cost == last'.attempts * Timeout
                took == last'.seconds
                n == now'
    <3>2. cost = spent + Timeout
      BY <1>2, <2>3
    <3>3. n \in Nat /\ n <= now + Timeout /\ took = n - started
      BY <1>2, <2>3
    <3>. HIDE DEF spent, most, cost, took, n
    <3>4. took <= cost + most
      BY <1>2, <3>1, <3>2, <3>3
    <3>. QED
      BY <3>4 DEF most, cost, took
  <2>. QED
    BY <2>1, <2>2, <2>3, CallEnds DEF Outcome
<1>4. /\ last'.result = "untried" => last'.attempts = 0
      /\ last'.result = "error" => last'.attempts = IF Transient(outage.exc) THEN MaxRetries ELSE 1
  <2>1. CASE last' = last
    BY <1>0, <2>1 DEF CallIsBounded
  <2>2. CASE last' = [NoCall EXCEPT !.result = "untried"]
    BY <2>2 DEF NoCall
  <2>3. CASE last'.result = "answer"
    BY <2>3
  <2>4. CASE pc = "invoke" /\ last' = Outcome("error", attempt + 1, now' - started)
             /\ (~IsRetryable(outage.exc) \/ LastAttempt(attempt))
    <3>1. ~IsRetryable(outage.exc) => attempt = 0
      BY <1>2, <2>4 DEF IInv, AttemptInv
    <3>2. IsRetryable(outage.exc) <=> Transient(outage.exc)
      BY StepFacts, RetriesTransient
    <3>3. LastAttempt(attempt) => attempt + 1 = MaxRetries
      BY StepFacts DEF LastAttempt
    <3>4. last'.result = "error" /\ last'.attempts = attempt + 1
      BY <2>4 DEF Outcome
    <3>. QED
      BY <2>4, <3>1, <3>2, <3>3, <3>4
  <2>. QED
    BY <2>1, <2>2, <2>3, <2>4, CallEnds DEF Outcome
<1>5. Transient(outage.exc)' = Transient(outage.exc)
  BY StepFacts DEF Transient
<1>. QED
  BY <1>1, <1>3, <1>4, <1>5 DEF CallIsBounded

-----------------------------------------------------------------------------
(* The turn and the outage                                                 *)

LEMMA OutageStep == IInv /\ [Next]_vars => OutageInv'
<1>. SUFFICES ASSUME IInv, [Next]_vars PROVE OutageInv'
  OBVIOUS
<1>. DEFINE long     == Longest(AnswerTimes)
            answered == made * long
            most     == Slept(MaxRetries - 1)
<1>0. OutageInv
  BY DEF IInv
<1>1. /\ long \in Nat /\ answered \in Nat /\ (made + 1) * long = answered + long
      /\ made \in Nat /\ now \in Nat /\ now' \in Nat /\ Timeout \in Nat
      /\ outage' = outage /\ outage.from \in Nat /\ outage.until \in Nat /\ outage.from <= outage.until
  BY StepFacts, LongestFacts
<1>2. most \in Nat /\ (pc = "sleep" => Backoff(attempt) \in Nat /\ Backoff(attempt) <= most)
  <2>1. attempt \in Nat /\ MaxRetries - 1 \in Nat /\ (pc = "sleep" => attempt + 1 \in Nat /\ attempt + 1 <= MaxRetries - 1)
    BY StepFacts DEF IInv, AttemptInv, LastAttempt
  <2>2. /\ most \in Nat /\ Slept(attempt) \in Nat /\ Backoff(attempt) \in Nat
        /\ Slept(attempt + 1) = Slept(attempt) + Backoff(attempt)
    BY <2>1, SleptFacts
  <2>3. pc = "sleep" => Slept(attempt + 1) <= most
    BY <2>1, SleptGrows
  <2>. HIDE DEF most
  <2>. QED
    BY <2>2, <2>3
<1>3. CASE Construct \/ TurnOver \/ UNCHANGED vars
  BY <1>0, <1>3 DEF Construct, TurnOver, vars, OutageInv
<1>4. CASE InvokeRaises
  <2>1. PICK t \in ErrorTimes : now' = now + t
    BY <1>4 DEF InvokeRaises
  <2>2. t \in Nat /\ t <= Timeout
    BY <1>1, TimesAssumption
  <2>3. outage.from <= now /\ now < outage.until /\ made' = made
    BY <1>4 DEF InvokeRaises, ProviderFails
  <2>4. now <= answered \/ outage.from <= answered
    BY <1>0 DEF OutageInv
  <2>. HIDE DEF answered, most
  <2>5. outage.from <= answered /\ now' <= outage.until + Timeout
    BY <1>1, <2>1, <2>2, <2>3, <2>4
  <2>6. now' <= answered + outage.until - outage.from + Timeout + most
    BY <1>1, <1>2, <2>5
  <2>. QED
    BY <1>1, <2>3, <2>5, <2>6 DEF answered, most, OutageInv
<1>5. CASE Sleep
  <2>1. outage.from <= answered /\ now <= outage.until + Timeout
    BY <1>0, <1>5 DEF Sleep, OutageInv
  <2>2. now' = now + Backoff(attempt) /\ made' = made /\ pc = "sleep" /\ pc' = "invoke"
    BY <1>5 DEF Sleep
  <2>. HIDE DEF answered, most
  <2>3. now' <= answered + outage.until - outage.from + Timeout + most
    BY <1>1, <1>2, <2>1, <2>2
  <2>. QED
    BY <1>1, <2>1, <2>2, <2>3 DEF answered, most, OutageInv
<1>6. CASE ConstructRaises \/ InvokeReturns \/ GivesUp
  <2>0. pc' = "construct" /\ made' = made + 1
    BY <1>6 DEF ConstructRaises, InvokeReturns, GivesUp, Ended
  <2>1. \/ now <= answered
        \/ outage.from <= answered /\ now <= answered + outage.until - outage.from + Timeout + most
    BY <1>0 DEF OutageInv
  <2>2. \/ now' <= now + long
        \/ outage.from <= now /\ now < outage.until /\ now' <= now + Timeout
    <3>1. CASE ConstructRaises
      BY <1>1, <3>1 DEF ConstructRaises
    <3>2. CASE InvokeReturns
      BY <1>1, <3>2, LongestFacts DEF InvokeReturns
    <3>3. CASE GivesUp
      <4>1. PICK t \in ErrorTimes : now' = now + t
        BY <3>3 DEF GivesUp
      <4>2. t \in Nat /\ t <= Timeout
        BY <1>1, TimesAssumption
      <4>. QED
        BY <1>1, <3>3, <4>1, <4>2 DEF GivesUp, ProviderFails
    <3>. QED
      BY <1>6, <3>1, <3>2, <3>3
  <2>. HIDE DEF answered, most, long
  <2>3. \/ now' <= answered + long
        \/ /\ outage.from <= answered + long
           /\ now' <= answered + long + outage.until - outage.from + Timeout + most
    BY <1>1, <1>2, <2>1, <2>2
  <2>4. made' * long = answered + long
    BY <1>1, <2>0
  <2>. QED
    BY <1>1, <2>0, <2>3, <2>4 DEF most, long, OutageInv
<1>. QED
  BY <1>3, <1>4, <1>5, <1>6 DEF Next

LEMMA RiddenOutStep == IInv /\ [Next]_vars => OutagesAreRiddenOut'
<1>. SUFFICES ASSUME IInv, [Next]_vars PROVE OutagesAreRiddenOut'
  OBVIOUS
<1>. DEFINE long     == Longest(AnswerTimes)
            answered == made' * long
            most     == Slept(MaxRetries - 1)
<1>0. OutagesAreRiddenOut /\ CallInv
  BY DEF IInv
<1>1. /\ made' \in Nat /\ now' \in Nat /\ Timeout \in Nat /\ most \in Nat /\ answered \in Nat /\ outage' = outage
      /\ outage.from \in Nat /\ outage.until \in Nat /\ outage.from <= outage.until
  <2>1. MaxRetries - 1 \in Nat /\ made' \in Nat
    BY StepFacts, TypeStep
  <2>2. most \in Nat /\ long \in Nat
    BY <2>1, SleptFacts, LongestFacts
  <2>. QED
    BY <2>1, <2>2, StepFacts
<1>2. last'.result = "error" /\ Transient(outage.exc) => outage.until > last'.start + most
  <2>1. CASE last' = last
    BY <1>0, <2>1 DEF OutagesAreRiddenOut
  <2>2. CASE last'.result \in {"untried", "answer"}
    BY <2>2
  <2>3. CASE /\ pc = "invoke" /\ last' = Outcome("error", attempt + 1, now' - started)
             /\ ProviderFails /\ (~IsRetryable(outage.exc) \/ LastAttempt(attempt))
    <3>1. Transient(outage.exc) => attempt = MaxRetries - 1
      BY <2>3, StepFacts, RetriesTransient DEF LastAttempt
    <3>2. started + Slept(attempt) <= now /\ now < outage.until /\ last'.start = started
      BY <1>0, <2>3 DEF CallInv, ProviderFails, Outcome
    <3>3. Transient(outage.exc) => started + most <= now
      BY <3>1, <3>2
    <3>. HIDE DEF most
    <3>. QED
      BY <1>1, <3>2, <3>3, StepFacts
  <2>. QED
    BY <2>1, <2>2, <2>3, CallEnds DEF Outcome, NoCall
<1>3. now' <= answered + (IF now' < outage.from THEN 0 ELSE outage.until - outage.from + Timeout + most)
  <2>1. \/ now' <= answered
        \/ outage.from <= answered /\ now' <= answered + outage.until - outage.from + Timeout + most
    BY <1>1, OutageStep DEF OutageInv
  <2>. HIDE DEF answered, most
  <2>. QED
    BY <1>1, <2>1
<1>4. Transient(outage.exc)' = Transient(outage.exc)
  BY <1>1 DEF Transient
<1>. QED
  BY <1>1, <1>2, <1>3, <1>4 DEF OutagesAreRiddenOut

-----------------------------------------------------------------------------
(* The theorems                                                            *)

LEMMA InitInv == Init => IInv
<1>. SUFFICES ASSUME Init PROVE IInv
  OBVIOUS
<1>1. /\ todo \in Seq(Contexts) /\ \A i \in 2..Len(todo) : todo[i] # "understand_intent"
      /\ outage \in Outages /\ attempt = 0 /\ started = 0 /\ now = 0 /\ made = 0 /\ last = NoCall /\ pc = "construct"
      /\ key \in BOOLEAN
  BY TurnsAssumption DEF Init
<1>2. MaxRetries - 1 \in Nat /\ MaxRetries \in Nat \ {0} /\ Timeout \in Nat
  BY RetryAssumption
<1>3. TypeOK
  BY <1>1, <1>2 DEF TypeOK, NoCall
<1>4. TodoInv
  <2>1. \A i \in DOMAIN todo : i = 1 \/ i \in 2..Len(todo)
    BY <1>1
  <2>. QED
    BY <1>1, <2>1 DEF TodoInv, GoesOn
<1>5. Slept(MaxRetries - 1) \in Nat /\ Longest(AnswerTimes) \in Nat /\ 0 * Timeout = 0 /\ 0 * Longest(AnswerTimes) = 0
  BY <1>2, SleptFacts, LongestFacts
<1>6. outage.from \in Nat /\ outage.until \in Nat /\ outage.from <= outage.until
  BY <1>1, OutagesAssumption
<1>7. AttemptInv /\ CallInv /\ OutageInv
  BY <1>1, <1>5 DEF AttemptInv, CallInv, OutageInv
<1>8. CallIsBounded /\ OutagesAreRiddenOut
  BY <1>1, <1>2, <1>5, <1>6 DEF CallIsBounded, OutagesAreRiddenOut, NoCall
<1>. QED
  BY <1>1, <1>3, <1>4, <1>7, <1>8 DEF IInv

\* The invariant holds throughout: attempts go to retryable errors, a call takes its sleeps at
\* least and its attempts at most, and an outage is waited for in one call only.
THEOREM Invariance == Spec => []IInv
<1>1. IInv /\ [Next]_vars => IInv'
  BY TypeStep, AttemptStep, CallStep, OutageStep, BoundStep, RiddenOutStep DEF IInv
<1>. QED
  BY InitInv, <1>1, PTL DEF Spec

\* Every variable keeps its type, and only the first call may be understand_intent's.
THEOREM TypeCorrect == Spec => []TypeOK
<1>1. IInv => TypeOK
  BY DEF IInv
<1>. QED
  BY <1>1, Invariance, PTL

\* A call costs MaxRetries attempts and their sleeps at most, one when retrying cannot help.
THEOREM CallsAreBounded == Spec => []CallIsBounded
<1>1. IInv => CallIsBounded
  BY DEF IInv
<1>. QED
  BY <1>1, Invariance, PTL

\* An outage no longer than a call's sleeps fails no call, and any outage delays a turn by its
\* own length, one timeout and one call's sleeps at most.
THEOREM OutagesPass == Spec => []OutagesAreRiddenOut
<1>1. IInv => OutagesAreRiddenOut
  BY DEF IInv
<1>. QED
  BY <1>1, Invariance, PTL
=============================================================================
