-------------------------- MODULE ModelRegistryProofs --------------------------
(***************************************************************************)
(* The safety of the model caches, for any number of threads and models.   *)
(***************************************************************************)
EXTENDS ModelRegistry, TLAPS

\* The order of the warm-up: the required keys first, the embedding model last of them.
LEMMA WarmUpFacts ==
  /\ Required \in Seq(Keys) /\ WarmUp \in Seq(Keys)
  /\ Len(Required) \in Nat /\ Len(WarmUp) \in Nat
  /\ 1 <= Len(Required) /\ Len(Required) <= Len(WarmUp)
  /\ WarmUp[Len(Required)] = EmbeddingModel
  /\ \A i \in 1..Len(WarmUp) : WarmUp[i] \in Keys
<1>1. /\ DefaultPipelines \in Seq(Keys) /\ CandidatePipelines \in Seq(Keys)
      /\ EmbeddingModel \in Keys
  BY PipelinesAssumption DEF Keys
<1>2. /\ Required \in Seq(Keys) /\ Len(Required) = Len(DefaultPipelines) + 1
      /\ Required[Len(Required)] = EmbeddingModel
  BY <1>1 DEF Required
<1>3. /\ WarmUp \in Seq(Keys) /\ Len(WarmUp) = Len(Required) + Len(CandidatePipelines)
      /\ \A i \in 1..Len(Required) : WarmUp[i] = Required[i]
  BY <1>1, <1>2 DEF WarmUp
<1>. QED
  BY <1>1, <1>2, <1>3

\* The lengths alone, which is all that most steps need.
LEMMA WarmUpLength ==
  /\ Len(Required) \in Nat /\ Len(WarmUp) \in Nat
  /\ 1 <= Len(Required) /\ Len(Required) <= Len(WarmUp)
BY WarmUpFacts

LEMMA WarmUpKeys == ASSUME NEW i \in 1..Len(WarmUp) PROVE WarmUp[i] \in Keys
BY WarmUpFacts

LEMMA StepCases ==
  ASSUME [Next]_vars
  PROVE  \/ WarmNext \/ Warmed \/ WarmUpRaises \/ Serve
         \/ \E t \in Callers : GetModel(t)
         \/ \E t \in Threads : Call(t)
         \/ UNCHANGED vars
BY DEF Next, Done

-----------------------------------------------------------------------------

LEMMA TypeInit == Init => TypeOK
<1>. SUFFICES ASSUME Init PROVE TypeOK
  OBVIOUS
<1>1. phase = "warming_up" /\ warmed = 0
  BY DEF Init
<1>2. warmed \in 0..Len(WarmUp)
  BY <1>1, WarmUpLength
<1>3. EmbeddingModel \in Keys
  BY DEF Keys
<1>. QED
  BY <1>1, <1>2, <1>3 DEF Init, TypeOK, Steps

\* The index of the warm-up stays in range because a load is under way only below its end.
LEMMA TypeStep == TypeOK /\ WarmUpInv /\ [Next]_vars => TypeOK'
<1>. SUFFICES ASSUME TypeOK, WarmUpInv, [Next]_vars PROVE TypeOK'
  OBVIOUS
<1>. USE DEF TypeOK, Steps, Goto
<1>0. Len(Required) \in Nat /\ Len(WarmUp) \in Nat /\ Len(Required) <= Len(WarmUp)
  BY WarmUpLength
<1>1. CASE WarmNext
  <2>1. warmed < Len(WarmUp) /\ Startup \in Callers
    BY <1>1 DEF WarmNext, Callers
  <2>2. warmed + 1 \in 1..Len(WarmUp)
    BY <1>0, <2>1
  <2>3. WarmUp[warmed + 1] \in Keys
    BY <2>2, WarmUpKeys
  <2>. QED
    BY <1>1, <2>1, <2>3 DEF WarmNext
<1>2. CASE Warmed
  <2>1. warmed < Len(WarmUp) /\ warmed' = warmed + 1
    BY <1>2 DEF Warmed, WarmUpInv
  <2>2. warmed' \in 0..Len(WarmUp)
    BY <1>0, <2>1
  <2>. QED
    BY <1>2, <2>2 DEF Warmed
<1>3. CASE WarmUpRaises
  <2>1. warmed < Len(WarmUp) /\ (warmed' = warmed + 1 \/ warmed' = warmed)
    BY <1>3 DEF WarmUpRaises, WarmUpInv
  <2>2. warmed' \in 0..Len(WarmUp)
    BY <1>0, <2>1
  <2>. QED
    BY <1>3, <2>2 DEF WarmUpRaises
<1>4. CASE Serve
  BY <1>4 DEF Serve
<1>5. ASSUME NEW t \in Callers, GetModel(t) PROVE TypeOK'
  <2>1. CASE Construct(t)
    <3>1. key[t] \in Keys /\ cached' \subseteq Keys
      BY <2>1 DEF Construct
    <3>2. built' \in [Keys -> Nat]
      BY <2>1, <3>1 DEF Construct
    <3>. QED
      BY <2>1, <3>1, <3>2 DEF Construct
  <2>2. CASE Hit(t) \/ Miss(t) \/ Recheck(t)
    BY <2>2 DEF Hit, Miss, Recheck
  <2>3. CASE Acquire(t) \/ ConstructRaises(t) \/ Release(t)
    BY <2>3 DEF Acquire, ConstructRaises, Release
  <2>. QED
    BY <1>5, <2>1, <2>2, <2>3 DEF GetModel
<1>6. ASSUME NEW t \in Threads, Call(t) PROVE TypeOK'
  BY <1>6 DEF Call, Callers
<1>7. CASE UNCHANGED vars
  BY <1>7 DEF vars
<1>. QED
  BY <1>1, <1>2, <1>3, <1>4, <1>5, <1>6, <1>7, StepCases

-----------------------------------------------------------------------------

LEMMA LockInit == Init => LockInv
<1>. SUFFICES ASSUME Init PROVE LockInv
  OBVIOUS
<1>1. \A t \in Callers : pc[t] = "idle" /\ Guard(key[t]) \in Locks /\ lock[Guard(key[t])] # t
  BY CallersAssumption DEF Init, Guard, Locks
<1>2. \A l \in Locks : lock[l] = Nobody
  BY DEF Init
<1>. QED
  BY <1>1, <1>2 DEF LockInv, Inside

\* Outside the critical section a caller holds no lock, so it may move and change its key.
LEMMA OutsideStep ==
  ASSUME TypeOK, LockInv, NEW t \in Callers, ~Inside(t), ~Inside(t)', UNCHANGED lock,
         \A u \in Callers \ {t} : pc'[u] = pc[u] /\ key'[u] = key[u],
         TypeOK'
  PROVE  LockInv'
<1>. USE DEF Inside
<1>0. /\ Nobody \notin Callers /\ \A k : Guard(k) \in Locks
      /\ lock \in [Locks -> Callers \cup {Nobody}]
  BY CallersAssumption DEF Guard, Locks, TypeOK
<1>1. \A l \in Locks : lock[l] # t
  <2>. SUFFICES ASSUME NEW l \in Locks, lock[l] = t PROVE FALSE
    OBVIOUS
  <2>1. Guard(key[t]) = l
    BY <1>0 DEF LockInv
  <2>. QED
    BY <2>1 DEF LockInv
<1>2. \A u \in Callers : Inside(u)' <=> lock'[Guard(key'[u])] = u
  BY <1>0, <1>1 DEF LockInv
<1>3. \A l \in Locks : lock'[l] # Nobody => Guard(key'[lock'[l]]) = l
  <2>. SUFFICES ASSUME NEW l \in Locks, lock[l] # Nobody PROVE Guard(key'[lock[l]]) = l
    OBVIOUS
  <2>1. lock[l] \in Callers \ {t}
    BY <1>0, <1>1
  <2>. QED
    BY <2>1 DEF LockInv
<1>. QED
  BY <1>2, <1>3 DEF LockInv

\* A caller enters or leaves: its own lock is the only one that changes.
LEMMA InsideStep ==
  ASSUME TypeOK, LockInv, NEW t \in Callers, NEW holder \in {t, Nobody}, UNCHANGED key,
         lock[Guard(key[t])] \in {t, Nobody},
         lock' = [lock EXCEPT ![Guard(key[t])] = holder],
         Inside(t)' <=> holder = t,
         \A u \in Callers \ {t} : pc'[u] = pc[u]
  PROVE  LockInv'
<1>. USE DEF Inside
<1>0. /\ Nobody \notin Callers /\ Guard(key[t]) \in Locks /\ \A k : Guard(k) \in Locks
      /\ lock \in [Locks -> Callers \cup {Nobody}]
  BY CallersAssumption DEF Guard, Locks, TypeOK
<1>1. /\ lock'[Guard(key[t])] = holder
      /\ \A l \in Locks \ {Guard(key[t])} : lock'[l] = lock[l]
  BY <1>0
<1>2. ASSUME NEW u \in Callers
      PROVE  Inside(u)' <=> lock'[Guard(key'[u])] = u
  <2>1. CASE u = t
    BY <1>0, <1>1, <2>1
  <2>2. CASE u # t /\ Guard(key[u]) = Guard(key[t])
    <3>1. ~Inside(u)
      BY <1>0, <2>2 DEF LockInv
    <3>. QED
      BY <1>0, <1>1, <2>2, <3>1
  <2>3. CASE u # t /\ Guard(key[u]) # Guard(key[t])
    BY <1>0, <1>1, <2>3 DEF LockInv
  <2>. QED
    BY <2>1, <2>2, <2>3
<1>3. \A l \in Locks : lock'[l] # Nobody => Guard(key'[lock'[l]]) = l
  BY <1>0, <1>1 DEF LockInv
<1>. QED
  BY <1>2, <1>3 DEF LockInv

LEMMA LockStep == TypeOK /\ LockInv /\ [Next]_vars /\ TypeOK' => LockInv'
<1>. SUFFICES ASSUME TypeOK, LockInv, [Next]_vars, TypeOK' PROVE LockInv'
  OBVIOUS
<1>0. /\ Startup \in Callers /\ Threads \subseteq Callers
      /\ pc \in [Callers -> Steps] /\ key \in [Callers -> Keys]
  BY DEF Callers, TypeOK
<1>1. CASE WarmNext
  <2>1. /\ ~Inside(Startup) /\ ~Inside(Startup)' /\ UNCHANGED lock
        /\ \A u \in Callers \ {Startup} : pc'[u] = pc[u] /\ key'[u] = key[u]
    BY <1>0, <1>1 DEF WarmNext, Goto, Inside
  <2>. QED
    BY <1>0, <2>1, OutsideStep
<1>2. CASE Warmed \/ WarmUpRaises
  <2>1. /\ ~Inside(Startup) /\ ~Inside(Startup)' /\ UNCHANGED lock
        /\ \A u \in Callers \ {Startup} : pc'[u] = pc[u] /\ key'[u] = key[u]
    BY <1>0, <1>2 DEF Warmed, WarmUpRaises, Goto, Inside
  <2>. QED
    BY <1>0, <2>1, OutsideStep
<1>3. CASE Serve
  BY <1>3 DEF Serve, LockInv, Inside
<1>4. ASSUME NEW t \in Callers, GetModel(t) PROVE LockInv'
  <2>1. CASE Hit(t) \/ Miss(t)
    <3>1. /\ ~Inside(t) /\ ~Inside(t)' /\ UNCHANGED lock
          /\ \A u \in Callers \ {t} : pc'[u] = pc[u] /\ key'[u] = key[u]
      BY <1>0, <2>1 DEF Hit, Miss, Goto, Inside
    <3>. QED
      BY <3>1, OutsideStep
  <2>2. CASE Acquire(t)
    <3>1. /\ lock[Guard(key[t])] = Nobody /\ lock' = [lock EXCEPT ![Guard(key[t])] = t]
          /\ Inside(t)' /\ UNCHANGED key /\ \A u \in Callers \ {t} : pc'[u] = pc[u]
      BY <1>0, <2>2 DEF Acquire, Goto, Inside
    <3>. QED
      BY <3>1, InsideStep
  <2>3. CASE Recheck(t) \/ Construct(t)
    <3>1. /\ Inside(t) /\ Inside(t)' /\ UNCHANGED <<lock, key>>
          /\ \A u \in Callers \ {t} : pc'[u] = pc[u]
      BY <1>0, <2>3 DEF Recheck, Construct, Goto, Inside
    <3>2. \A u \in Callers : Inside(u)' <=> Inside(u)
      BY <3>1 DEF Inside
    <3>. QED
      BY <3>1, <3>2 DEF LockInv
  <2>4. CASE ConstructRaises(t) \/ Release(t)
    <3>1. /\ Inside(t) /\ ~Inside(t)' /\ UNCHANGED key
          /\ lock' = [lock EXCEPT ![Guard(key[t])] = Nobody]
          /\ \A u \in Callers \ {t} : pc'[u] = pc[u]
      BY <1>0, <2>4 DEF ConstructRaises, Release, Goto, Inside
    <3>2. lock[Guard(key[t])] = t
      BY <3>1 DEF LockInv
    <3>3. Nobody # t
      BY CallersAssumption
    <3>. QED
      BY <3>1, <3>2, <3>3, InsideStep
  <2>. QED
    BY <1>4, <2>1, <2>2, <2>3, <2>4 DEF GetModel
<1>5. ASSUME NEW t \in Threads, Call(t) PROVE LockInv'
  <2>1. /\ t \in Callers /\ ~Inside(t) /\ ~Inside(t)' /\ UNCHANGED lock
        /\ \A u \in Callers \ {t} : pc'[u] = pc[u] /\ key'[u] = key[u]
    BY <1>0, <1>5 DEF Call, Goto, Inside
  <2>. QED
    BY <2>1, OutsideStep
<1>6. CASE UNCHANGED vars
  BY <1>6 DEF vars, LockInv, Inside
<1>. QED
  BY <1>1, <1>2, <1>3, <1>4, <1>5, <1>6, StepCases

-----------------------------------------------------------------------------

LEMMA CacheInit == Init => CacheInv
BY DEF Init, CacheInv, ConstructedOnce

\* A step that constructs nothing and starts no construction or hit for a missing key.
LEMMA CacheKept ==
  ASSUME CacheInv, UNCHANGED <<cached, built>>,
         \A t \in Callers :
           \/ pc'[t] = pc[t] /\ key'[t] = key[t]
           \/ pc'[t] \notin {"construct", "release", "returned"}
           \/ pc'[t] = "construct" /\ key'[t] \notin cached
           \/ pc'[t] \in {"release", "returned"} /\ key'[t] \in cached
  PROVE  CacheInv'
BY DEF CacheInv, ConstructedOnce

LEMMA CacheStep == TypeOK /\ LockInv /\ CacheInv /\ [Next]_vars => CacheInv'
<1>. SUFFICES ASSUME TypeOK, LockInv, CacheInv, [Next]_vars PROVE CacheInv'
  OBVIOUS
<1>0. /\ Startup \in Callers /\ Threads \subseteq Callers
      /\ pc \in [Callers -> Steps] /\ key \in [Callers -> Keys] /\ built \in [Keys -> Nat]
      /\ cached \subseteq Keys
  BY DEF Callers, TypeOK
<1>1. CASE WarmNext
  BY <1>0, <1>1, CacheKept DEF WarmNext, Goto
<1>2. CASE Warmed \/ WarmUpRaises
  BY <1>0, <1>2, CacheKept DEF Warmed, WarmUpRaises, Goto
<1>3. CASE Serve
  BY <1>3, CacheKept DEF Serve
<1>4. ASSUME NEW t \in Callers, GetModel(t) PROVE CacheInv'
  <2>1. CASE Hit(t) \/ Miss(t) \/ Acquire(t) \/ Recheck(t) \/ ConstructRaises(t)
    BY <1>0, <2>1, CacheKept DEF Hit, Miss, Acquire, Recheck, ConstructRaises, Goto
  <2>2. CASE Release(t)
    <3>1. key[t] \in cached
      BY <2>2 DEF Release, Goto, CacheInv
    <3>. QED
      BY <1>0, <2>2, <3>1, CacheKept DEF Release, Goto
  <2>3. CASE Construct(t)
    <3>1. /\ pc[t] = "construct" /\ pc' = [pc EXCEPT ![t] = "release"] /\ key' = key
          /\ cached' = cached \cup {key[t]} /\ built' = [built EXCEPT ![key[t]] = @ + 1]
      BY <2>3 DEF Construct, Goto
    <3>2. key[t] \in Keys /\ key[t] \notin cached /\ built[key[t]] = 0
      BY <1>0, <3>1 DEF CacheInv, ConstructedOnce
    <3>3. ASSUME NEW u \in Callers, u # t, pc[u] = "construct" PROVE key[u] # key[t]
      <4>1. Inside(t) /\ Inside(u)
        BY <3>1, <3>3 DEF Inside
      <4>. QED
        BY <3>3, <4>1 DEF LockInv
    <3>4. \A u \in Callers : pc'[u] = "construct" => key'[u] \notin cached'
      BY <1>0, <3>1, <3>3 DEF CacheInv
    <3>5. \A u \in Callers : pc'[u] \in {"release", "returned"} => key'[u] \in cached'
      BY <1>0, <3>1 DEF CacheInv
    <3>6. ConstructedOnce'
      <4>1. built'[key[t]] = 1 /\ key[t] \in cached'
        BY <1>0, <3>1, <3>2
      <4>2. \A k \in Keys \ {key[t]} : built'[k] = built[k] /\ (k \in cached' <=> k \in cached)
        BY <1>0, <3>1
      <4>. QED
        BY <4>1, <4>2 DEF CacheInv, ConstructedOnce
    <3>. QED
      BY <3>4, <3>5, <3>6 DEF CacheInv
  <2>. QED
    BY <1>4, <2>1, <2>2, <2>3 DEF GetModel
<1>5. ASSUME NEW t \in Threads, Call(t) PROVE CacheInv'
  BY <1>0, <1>5, CacheKept DEF Call, Goto
<1>6. CASE UNCHANGED vars
  BY <1>6, CacheKept DEF vars
<1>. QED
  BY <1>1, <1>2, <1>3, <1>4, <1>5, <1>6, StepCases

-----------------------------------------------------------------------------

LEMMA WarmUpInit == Init => WarmUpInv
<1>. SUFFICES ASSUME Init PROVE WarmUpInv
  OBVIOUS
<1>1. phase = "warming_up" /\ warmed = 0 /\ \A t \in Callers : pc[t] = "idle"
  BY DEF Init
<1>2. 1..0 = {}
  OBVIOUS
<1>. QED
  BY <1>1, <1>2 DEF WarmUpInv, Callers

LEMMA WarmUpStep == TypeOK /\ CacheInv /\ WarmUpInv /\ [Next]_vars => WarmUpInv'
<1>. SUFFICES ASSUME TypeOK, CacheInv, WarmUpInv, [Next]_vars PROVE WarmUpInv'
  OBVIOUS
<1>0. /\ Startup \in Callers /\ Startup \notin Threads /\ Threads \subseteq Callers
      /\ Callers = Threads \cup {Startup}
      /\ pc \in [Callers -> Steps] /\ key \in [Callers -> Keys] /\ warmed \in Nat
      /\ Len(WarmUp) \in Nat /\ Len(Required) \in Nat
  BY CallersAssumption, WarmUpLength DEF Callers, TypeOK
<1>1. CASE WarmNext
  BY <1>0, <1>1 DEF WarmNext, Goto, WarmUpInv
<1>2. CASE Warmed
  <2>1. /\ pc[Startup] = "returned" /\ pc' = [pc EXCEPT ![Startup] = "idle"]
        /\ warmed' = warmed + 1 /\ UNCHANGED <<phase, cached>>
    BY <1>2 DEF Warmed, Goto
  <2>2. key[Startup] \in cached /\ key[Startup] = WarmUp[warmed + 1] /\ phase = "warming_up"
    BY <1>0, <2>1 DEF CacheInv, WarmUpInv, TypeOK
  <2>3. 1..(warmed + 1) = 1..warmed \cup {warmed + 1}
    BY <1>0
  <2>4. \A i \in 1..warmed' : i <= Len(Required) => WarmUp[i] \in cached'
    BY <2>1, <2>2, <2>3 DEF WarmUpInv
  <2>. QED
    BY <1>0, <2>1, <2>2, <2>4 DEF WarmUpInv
<1>3. CASE WarmUpRaises
  <2>1. /\ pc[Startup] = "raised" /\ pc' = [pc EXCEPT ![Startup] = "idle"] /\ UNCHANGED cached
        /\ \/ warmed < Len(Required) /\ phase' = "startup_failed" /\ UNCHANGED warmed
           \/ ~(warmed < Len(Required)) /\ warmed' = warmed + 1 /\ UNCHANGED phase
    BY <1>3 DEF WarmUpRaises, Goto
  <2>2. phase = "warming_up" /\ \A t \in Threads : pc[t] = "idle"
    BY <1>0, <2>1 DEF WarmUpInv, TypeOK
  <2>3. \A i \in 1..warmed' : i <= Len(Required) => i \in 1..warmed
    BY <1>0, <2>1
  <2>4. \A i \in 1..warmed' : i <= Len(Required) => WarmUp[i] \in cached'
    BY <2>1, <2>3 DEF WarmUpInv
  <2>5. \A t \in Callers : pc'[t] = "idle"
    BY <1>0, <2>1, <2>2
  <2>. QED
    BY <1>0, <2>1, <2>2, <2>4, <2>5 DEF WarmUpInv
<1>4. CASE Serve
  BY <1>0, <1>4 DEF Serve, WarmUpInv
<1>5. ASSUME NEW t \in Callers, GetModel(t) PROVE WarmUpInv'
  <2>1. /\ pc[t] # "idle" /\ \E to \in Steps \ {"idle"} : pc' = [pc EXCEPT ![t] = to]
        /\ UNCHANGED <<phase, warmed, key>> /\ cached \subseteq cached'
    BY <1>0, <1>5 DEF GetModel, Hit, Miss, Acquire, Recheck, Construct, ConstructRaises, Release,
                      Goto, Steps
  <2>2. phase # "startup_failed" /\ (phase = "warming_up" => t = Startup)
        /\ (phase = "serving" => t # Startup)
    BY <1>0, <2>1 DEF WarmUpInv
  <2>. QED
    BY <1>0, <2>1, <2>2 DEF WarmUpInv
<1>6. ASSUME NEW t \in Threads, Call(t) PROVE WarmUpInv'
  BY <1>0, <1>6 DEF Call, Goto, WarmUpInv
<1>7. CASE UNCHANGED vars
  BY <1>7 DEF vars, WarmUpInv
<1>. QED
  BY <1>1, <1>2, <1>3, <1>4, <1>5, <1>6, <1>7, StepCases

-----------------------------------------------------------------------------

(* The inductive invariant of the caches and the warm-up.                   *)
THEOREM Invariance == Spec => []IInv
<1>1. Init => IInv
  BY TypeInit, LockInit, CacheInit, WarmUpInit DEF IInv
<1>2. IInv /\ [Next]_vars => IInv'
  BY TypeStep, LockStep, CacheStep, WarmUpStep DEF IInv
<1>. QED
  BY <1>1, <1>2, PTL DEF Spec

(* Every variable keeps its type; the warm-up's index stays in its list.    *)
THEOREM TypeCorrect == Spec => []TypeOK
<1>1. IInv => TypeOK
  BY DEF IInv
<1>. QED
  BY <1>1, Invariance, PTL

(* "Constructing it at most once per process": whatever the number of       *)
(* threads, no key is constructed twice and none is lost from its cache.    *)
THEOREM AtMostOnce == Spec => []ConstructedOnce
<1>1. IInv => ConstructedOnce
  BY DEF IInv, CacheInv
<1>. QED
  BY <1>1, Invariance, PTL

(* No constructor raises while its lock stays behind.                       *)
THEOREM NoLockLeft == Spec => []LocksAreReleased
<1>1. IInv => LocksAreReleased
  <2>. SUFFICES ASSUME IInv, NEW l \in Locks, lock[l] # Nobody
                PROVE  /\ pc[lock[l]] \in {"recheck", "construct", "release"}
                       /\ Guard(key[lock[l]]) = l
    BY DEF LocksAreReleased
  <2>1. lock[l] \in Callers /\ Guard(key[lock[l]]) = l
    BY DEF IInv, TypeOK, LockInv
  <2>2. Inside(lock[l])
    BY <2>1 DEF IInv, LockInv
  <2>. QED
    BY <2>1, <2>2 DEF Inside
<1>. QED
  BY <1>1, Invariance, PTL

(* With two locks two constructors may run at once only if one of them is   *)
(* the embedding model's; the warm-up has that one cached before any        *)
(* request is served, so no two constructors ever run at once.              *)
THEOREM OneConstructorAtATime == Spec => []NoConcurrentConstruction
<1>1. IInv => NoConcurrentConstruction
  <2>. SUFFICES ASSUME IInv, NEW t \in Callers, NEW u \in Callers,
                       pc[t] = "construct", pc[u] = "construct", t # u
                PROVE  FALSE
    BY DEF NoConcurrentConstruction
  <2>1. Guard(key[t]) # Guard(key[u]) /\ key[t] \notin cached /\ key[u] \notin cached
    BY DEF IInv, LockInv, CacheInv, Inside
  <2>2. EmbeddingModel \notin cached
    BY <2>1 DEF Guard
  <2>3. phase = "serving" => EmbeddingModel \in cached
    <3>1. WarmUp[Len(Required)] = EmbeddingModel
      BY WarmUpFacts
    <3>2. Len(Required) \in 1..Len(WarmUp)
      BY WarmUpLength
    <3>. QED
      BY <3>1, <3>2, WarmUpLength DEF IInv, WarmUpInv
  <2>4. phase # "startup_failed"
    BY DEF IInv, WarmUpInv
  <2>5. phase = "warming_up" => t = Startup /\ u = Startup
    BY DEF IInv, WarmUpInv, Callers
  <2>. QED
    BY <2>2, <2>3, <2>4, <2>5 DEF IInv, TypeOK
<1>. QED
  BY <1>1, Invariance, PTL
=============================================================================
