----------------------- MODULE MainWorkScheduler_proofs -----------------------
(***************************************************************************)
(* The main work queue, for any set of submissions, lanes, keys, owners    *)
(* and limits: its counters are exact, its cap holds, its dedupe map is    *)
(* exact, no wake-up is lost, and it implements WorkPool.                  *)
(***************************************************************************)
EXTENDS MainWorkScheduler, FiniteSetTheorems, TLAPS

\* The map holds a live task under its own key, and every live task with a key
\* is the one the map holds.
DedupeInv ==
  /\ \A k \in Keys : dedupeMap[k] # None =>
       dedupeMap[k] \in Live /\ Key[dedupeMap[k]] = k
  /\ \A t \in Live : Key[t] # None => dedupeMap[Key[t]] = t

\* An armed timer belongs to a started task, and to an unsettled promise until
\* the run settles; a promise is made by the call and pending while queued.
TimerInv ==
  /\ \A t \in timer : t \in Started
  /\ \A t \in timer : phase[t] = "running" => promise[t] = "pending"
  /\ \A t \in Queued : promise[t] = "pending"
  /\ \A t \in Task : phase[t] = "idle" => promise[t] = "none"

\* The inductive invariant: the counters follow Started, and the rest of the
\* state follows the phases.
IInv ==
  /\ TypeOK
  /\ CountersExact
  /\ inflight <= MaxInflight
  /\ DedupeInv
  /\ NoLostWakeup
  /\ TimerInv

-----------------------------------------------------------------------------
\* What a key's share of the started tasks is, and how it moves.
Share(S, k) == {t \in S : ConcurrencyKey[t] = k}

LEMMA FiniteStarted ==
  ASSUME TypeOK
  PROVE  /\ IsFiniteSet(Started)
         /\ \A k : IsFiniteSet(Share(Started, k))
  BY TaskAssumption, FS_Subset DEF Started, Share

\* Adding a task to a finite set of tasks moves its key's share by one.
LEMMA ShareAdd ==
  ASSUME NEW S, NEW t, IsFiniteSet(S), t \notin S
  PROVE  /\ Cardinality(S \cup {t}) = Cardinality(S) + 1
         /\ Cardinality(Share(S \cup {t}, ConcurrencyKey[t])) = Cardinality(Share(S, ConcurrencyKey[t])) + 1
         /\ \A k : k # ConcurrencyKey[t] => Share(S \cup {t}, k) = Share(S, k)
<1>1. Cardinality(S \cup {t}) = Cardinality(S) + 1
  BY FS_AddElement
<1>2. Share(S \cup {t}, ConcurrencyKey[t]) = Share(S, ConcurrencyKey[t]) \cup {t}
  BY DEF Share
<1>3. IsFiniteSet(Share(S, ConcurrencyKey[t])) /\ t \notin Share(S, ConcurrencyKey[t])
  BY FS_Subset DEF Share
<1>4. Cardinality(Share(S \cup {t}, ConcurrencyKey[t])) = Cardinality(Share(S, ConcurrencyKey[t])) + 1
  BY <1>2, <1>3, FS_AddElement
<1>5. \A k : k # ConcurrencyKey[t] => Share(S \cup {t}, k) = Share(S, k)
  BY DEF Share
<1> QED BY <1>1, <1>4, <1>5

\* Removing one moves it back.
LEMMA ShareRemove ==
  ASSUME NEW S, NEW t \in S, IsFiniteSet(S)
  PROVE  /\ Cardinality(S) \in Nat \ {0}
         /\ Cardinality(S \ {t}) = Cardinality(S) - 1
         /\ Cardinality(Share(S, ConcurrencyKey[t])) \in Nat \ {0}
         /\ Cardinality(Share(S \ {t}, ConcurrencyKey[t])) = Cardinality(Share(S, ConcurrencyKey[t])) - 1
         /\ \A k : k # ConcurrencyKey[t] => Share(S \ {t}, k) = Share(S, k)
<1> DEFINE R == Share(S, ConcurrencyKey[t])
<1>1. IsFiniteSet(R) /\ t \in R
  BY FS_Subset DEF Share
<1>2. Cardinality(S) \in Nat \ {0} /\ Cardinality(R) \in Nat \ {0}
  BY <1>1, FS_CardinalityType, FS_EmptySet
<1>3. Cardinality(S \ {t}) = Cardinality(S) - 1 /\ Cardinality(R \ {t}) = Cardinality(R) - 1
  BY <1>1, FS_RemoveElement
<1>4. Share(S \ {t}, ConcurrencyKey[t]) = R \ {t}
  BY DEF Share
<1>5. \A k : k # ConcurrencyKey[t] => Share(S \ {t}, k) = Share(S, k)
  BY DEF Share
<1> QED BY <1>2, <1>3, <1>4, <1>5

-----------------------------------------------------------------------------
LEMMA InitIInv == Init => IInv
<1> SUFFICES ASSUME Init PROVE IInv
  OBVIOUS
<1>1. TypeOK
  BY DEF Init, TypeOK, Phases, Promises
<1>2. Started = {} /\ Queued = {}
  BY DEF Init, Started, Queued
<1>3. \A k : {t \in Started : ConcurrencyKey[t] = k} = {}
  BY <1>2
<1>4. CountersExact
  BY <1>2, <1>3, FS_EmptySet DEF Init, CountersExact
<1>5. inflight <= MaxInflight
  BY MaxInflightAssumption DEF Init
<1>6. DedupeInv
  BY <1>2 DEF Init, DedupeInv, Live
<1>7. NoLostWakeup /\ TimerInv
  BY <1>2 DEF Init, NoLostWakeup, Runnable, TimerInv
<1> QED BY <1>1, <1>4, <1>5, <1>6, <1>7 DEF IInv

LEMMA TypeStep == TypeOK /\ [Next]_vars => TypeOK'
<1> SUFFICES ASSUME TypeOK, [Next]_vars PROVE TypeOK'
  OBVIOUS
<1> USE DEF TypeOK, Phases, Promises
<1>1. ASSUME NEW t \in Task, Join(t) PROVE TypeOK'
  BY <1>1 DEF Join, Keys
<1>2. ASSUME NEW t \in Task, Push(t) PROVE TypeOK'
  BY <1>2 DEF Push
<1>3. ASSUME NEW t \in Task, StartTask(t) PROVE TypeOK'
  BY <1>3 DEF StartTask
<1>4. ASSUME NEW t \in Task, TimeOut(t) PROVE TypeOK'
  BY <1>4 DEF TimeOut
<1>5. ASSUME NEW t \in Task, NEW outcome \in {"resolved", "rejected"}, RunSettles(t, outcome)
      PROVE  TypeOK'
  BY <1>5 DEF RunSettles
<1>6. ASSUME NEW t \in Task, CompleteTask(t) PROVE TypeOK'
  BY <1>6 DEF CompleteTask, Release
<1>7. ASSUME NEW o, CancelOwner(o) PROVE TypeOK'
  BY <1>7 DEF CancelOwner
<1>8. CASE DrainBegin
  BY <1>8 DEF DrainBegin
<1>9. CASE DrainEnd
  BY <1>9 DEF DrainEnd
<1>10. CASE UNCHANGED vars
  BY <1>10 DEF vars
<1> QED BY <1>1, <1>2, <1>3, <1>4, <1>5, <1>6, <1>7, <1>8, <1>9, <1>10 DEF Next, Enqueue

-----------------------------------------------------------------------------
\* The counters, restated over Share.
LEMMA CountersShare ==
  CountersExact <=> /\ inflight = Cardinality(Started)
                    /\ \A k \in CKeys : inflightByKey[k] = Cardinality(Share(Started, k))
  BY DEF CountersExact, Share

\* The step that starts a task counts it.
LEMMA StartCounts ==
  ASSUME IInv, NEW t \in Task, StartTask(t)
  PROVE  CountersExact' /\ (inflight <= MaxInflight)'
<1>1. t \notin Started /\ Started' = Started \cup {t}
  BY DEF StartTask, IsNext, Runnable, Queued, Started, IInv, TypeOK
<1>2. IsFiniteSet(Started)
  BY FiniteStarted DEF IInv
<1>3. /\ Cardinality(Started') = Cardinality(Started) + 1
      /\ Cardinality(Share(Started', ConcurrencyKey[t])) = Cardinality(Share(Started, ConcurrencyKey[t])) + 1
      /\ \A k : k # ConcurrencyKey[t] => Share(Started', k) = Share(Started, k)
  BY <1>1, <1>2, ShareAdd
<1>4. /\ inflight = Cardinality(Started)
      /\ \A k \in CKeys : inflightByKey[k] = Cardinality(Share(Started, k))
  BY CountersShare DEF IInv
<1>5. inflight' = Cardinality(Started')
  BY <1>3, <1>4 DEF StartTask
<1>6. ASSUME NEW k \in CKeys PROVE inflightByKey'[k] = Cardinality(Share(Started', k))
  <2>1. CASE k = ConcurrencyKey[t]
    BY <2>1, <1>3, <1>4 DEF StartTask
  <2>2. CASE k # ConcurrencyKey[t]
    BY <2>2, <1>3, <1>4 DEF StartTask
  <2> QED BY <2>1, <2>2
<1>7. CountersExact'
  BY <1>5, <1>6 DEF CountersExact, Share
<1>8. inflight' <= MaxInflight
  BY MaxInflightAssumption DEF StartTask, IInv, TypeOK
<1> QED BY <1>7, <1>8

\* The step that completes a task discounts it, and the clamps at zero of
\* completeTask never bite.
LEMMA CompleteCounts ==
  ASSUME IInv, NEW t \in Task, CompleteTask(t)
  PROVE  CountersExact' /\ (inflight <= MaxInflight)'
<1>1. t \in Started /\ Started' = Started \ {t}
  BY DEF CompleteTask, Release, Started, IInv, TypeOK
<1>2. IsFiniteSet(Started)
  BY FiniteStarted DEF IInv
<1>3. /\ Cardinality(Started) \in Nat \ {0}
      /\ Cardinality(Started') = Cardinality(Started) - 1
      /\ Cardinality(Share(Started, ConcurrencyKey[t])) \in Nat \ {0}
      /\ Cardinality(Share(Started', ConcurrencyKey[t])) = Cardinality(Share(Started, ConcurrencyKey[t])) - 1
      /\ \A k : k # ConcurrencyKey[t] => Share(Started', k) = Share(Started, k)
  BY <1>1, <1>2, ShareRemove
<1>4. /\ inflight = Cardinality(Started)
      /\ \A k \in CKeys : inflightByKey[k] = Cardinality(Share(Started, k))
  BY CountersShare DEF IInv
<1>5. inflight' = Cardinality(Started') /\ inflight' <= inflight
  BY <1>3, <1>4 DEF CompleteTask, Release
<1>6. ASSUME NEW k \in CKeys PROVE inflightByKey'[k] = Cardinality(Share(Started', k))
  <2>1. CASE k = ConcurrencyKey[t]
    BY <2>1, <1>3, <1>4 DEF CompleteTask, Release
  <2>2. CASE k # ConcurrencyKey[t]
    BY <2>2, <1>3, <1>4 DEF CompleteTask, Release
  <2> QED BY <2>1, <2>2
<1>7. CountersExact'
  BY <1>5, <1>6 DEF CountersExact, Share
<1>8. inflight' <= MaxInflight
  BY <1>5, <1>4, <1>3, MaxInflightAssumption DEF IInv, TypeOK, CompleteTask, Release
<1> QED BY <1>7, <1>8

\* Every other step leaves the started tasks and their counters alone.
LEMMA CountersStep == IInv /\ [Next]_vars => CountersExact' /\ (inflight <= MaxInflight)'
<1> SUFFICES ASSUME IInv, [Next]_vars
             PROVE  CountersExact' /\ (inflight <= MaxInflight)'
  OBVIOUS
<1> DEFINE Same == Started' = Started /\ UNCHANGED <<inflight, inflightByKey>>
<1>0. Same => CountersExact' /\ (inflight <= MaxInflight)'
  BY DEF IInv, CountersExact
<1> USE DEF Started, IInv, TypeOK
<1>1. ASSUME NEW t \in Task, Join(t) PROVE Same
  BY <1>1 DEF Join
<1>2. ASSUME NEW t \in Task, Push(t) PROVE Same
  BY <1>2 DEF Push
<1>3. ASSUME NEW t \in Task, TimeOut(t) PROVE Same
  BY <1>3 DEF TimeOut
<1>4. ASSUME NEW t \in Task, NEW outcome, RunSettles(t, outcome) PROVE Same
  BY <1>4 DEF RunSettles
<1>5. ASSUME NEW o, CancelOwner(o) PROVE Same
  BY <1>5 DEF CancelOwner, Queued
<1>6. CASE DrainBegin \/ DrainEnd \/ UNCHANGED vars
  BY <1>6, <1>0 DEF DrainBegin, DrainEnd, vars
<1> QED BY <1>0, <1>1, <1>2, <1>3, <1>4, <1>5, <1>6, StartCounts, CompleteCounts
        DEF Next, Enqueue

-----------------------------------------------------------------------------
LEMMA DedupeStep == IInv /\ [Next]_vars => DedupeInv'
<1> SUFFICES ASSUME IInv, [Next]_vars PROVE DedupeInv'
  OBVIOUS
<1> USE TaskAssumption DEF IInv, TypeOK, DedupeInv, Live, Queued, Started
<1> DEFINE Same == Live' = Live /\ UNCHANGED dedupeMap
<1>0. Same => DedupeInv'
  BY DEF Same
<1>1. ASSUME NEW t \in Task, Join(t) PROVE Same
  BY <1>1 DEF Join
<1>2. ASSUME NEW t \in Task, Push(t) PROVE DedupeInv'
  <2>1. Live' = Live \cup {t} /\ t \notin Live
    BY <1>2 DEF Push
  <2>2. \A k \in Keys : dedupeMap'[k] = IF k = Key[t] THEN t ELSE dedupeMap[k]
    BY <1>2 DEF Push
  <2>3. \A k \in Keys : dedupeMap'[k] # None => dedupeMap'[k] \in Live' /\ Key[dedupeMap'[k]] = k
    BY <2>1, <2>2
  <2>4. \A u \in Live : Key[u] # None => Key[u] \in Keys /\ dedupeMap[Key[u]] = u
    BY DEF Keys
  <2>5. \A u \in Live : Key[u] # None => Key[u] # Key[t]
    BY <2>4, <1>2 DEF Push
  <2>6. Key[t] # None => Key[t] \in Keys
    BY DEF Keys
  <2>7. \A u \in Live' : Key[u] # None => dedupeMap'[Key[u]] = u
    BY <2>1, <2>2, <2>4, <2>5, <2>6
  <2> QED BY <2>3, <2>7
<1>3. ASSUME NEW t \in Task, StartTask(t) PROVE Same
  BY <1>3 DEF StartTask, IsNext, Runnable
<1>4. ASSUME NEW t \in Task, TimeOut(t) PROVE Same
  BY <1>4 DEF TimeOut
<1>5. ASSUME NEW t \in Task, NEW outcome, RunSettles(t, outcome) PROVE Same
  BY <1>5 DEF RunSettles
<1>6. ASSUME NEW t \in Task, CompleteTask(t) PROVE DedupeInv'
  <2>1. Live' = Live \ {t} /\ t \in Live
    BY <1>6 DEF CompleteTask, Release
  <2>2. \A k \in Keys : dedupeMap'[k] = IF k = Key[t] /\ dedupeMap[k] = t THEN None ELSE dedupeMap[k]
    BY <1>6 DEF CompleteTask, Release
  <2>3. \A u \in Live : Key[u] # None => Key[u] \in Keys /\ dedupeMap[Key[u]] = u
    BY DEF Keys
  <2>4. \A k \in Keys : dedupeMap'[k] # None => dedupeMap'[k] \in Live' /\ Key[dedupeMap'[k]] = k
    BY <2>1, <2>2
  <2>5. \A u \in Live' : Key[u] # None => dedupeMap'[Key[u]] = u
    BY <2>1, <2>2, <2>3
  <2> QED BY <2>4, <2>5
<1>7. ASSUME NEW o, CancelOwner(o) PROVE DedupeInv'
  <2> DEFINE hit == {t \in Queued : Owner[t] = o}
  <2>1. Live' = Live \ hit /\ hit \subseteq Live
    BY <1>7 DEF CancelOwner
  <2>2. \A k \in Keys : dedupeMap'[k] = IF dedupeMap[k] \in hit THEN None ELSE dedupeMap[k]
    BY <1>7 DEF CancelOwner
  <2>3. \A u \in Live : Key[u] # None => Key[u] \in Keys /\ dedupeMap[Key[u]] = u
    BY DEF Keys
  <2> QED BY <2>1, <2>2, <2>3
<1>8. CASE DrainBegin \/ DrainEnd \/ UNCHANGED vars
  BY <1>8 DEF DrainBegin, DrainEnd, vars
<1> QED BY <1>0, <1>1, <1>2, <1>3, <1>4, <1>5, <1>6, <1>7, <1>8 DEF Next, Enqueue

-----------------------------------------------------------------------------
\* A step makes work runnable, or frees a slot, only if it schedules a drain.
LEMMA WakeupStep == IInv /\ [Next]_vars => NoLostWakeup'
<1> SUFFICES ASSUME IInv, [Next]_vars PROVE NoLostWakeup'
  OBVIOUS
<1> USE DEF IInv, TypeOK, NoLostWakeup, Runnable, Queued, CanRun
<1>1. ASSUME NEW t \in Task, Join(t) PROVE NoLostWakeup'
  BY <1>1 DEF Join
<1>2. ASSUME NEW t \in Task, Push(t) PROVE NoLostWakeup'
  BY <1>2 DEF Push
<1>3. ASSUME NEW t \in Task, StartTask(t) PROVE NoLostWakeup'
  BY <1>3 DEF StartTask
<1>4. ASSUME NEW t \in Task, TimeOut(t) PROVE NoLostWakeup'
  BY <1>4 DEF TimeOut
<1>5. ASSUME NEW t \in Task, NEW outcome, RunSettles(t, outcome) PROVE NoLostWakeup'
  BY <1>5 DEF RunSettles
<1>6. ASSUME NEW t \in Task, CompleteTask(t) PROVE NoLostWakeup'
  BY <1>6 DEF CompleteTask
<1>7. ASSUME NEW o, CancelOwner(o) PROVE NoLostWakeup'
  BY <1>7 DEF CancelOwner
<1>8. CASE DrainBegin \/ DrainEnd \/ UNCHANGED vars
  BY <1>8 DEF DrainBegin, DrainEnd, vars
<1> QED BY <1>1, <1>2, <1>3, <1>4, <1>5, <1>6, <1>7, <1>8 DEF Next, Enqueue

LEMMA TimerStep == IInv /\ [Next]_vars => TimerInv'
<1> SUFFICES ASSUME IInv, [Next]_vars PROVE TimerInv'
  OBVIOUS
<1> USE DEF IInv, TypeOK, TimerInv, Started, Queued
<1>1. ASSUME NEW t \in Task, Join(t) PROVE TimerInv'
  BY <1>1 DEF Join
<1>2. ASSUME NEW t \in Task, Push(t) PROVE TimerInv'
  BY <1>2 DEF Push
<1>3. ASSUME NEW t \in Task, StartTask(t) PROVE TimerInv'
  BY <1>3 DEF StartTask, IsNext, Runnable
<1>4. ASSUME NEW t \in Task, TimeOut(t) PROVE TimerInv'
  BY <1>4 DEF TimeOut
<1>5. ASSUME NEW t \in Task, NEW outcome, RunSettles(t, outcome) PROVE TimerInv'
  BY <1>5 DEF RunSettles
<1>6. ASSUME NEW t \in Task, CompleteTask(t) PROVE TimerInv'
  BY <1>6 DEF CompleteTask, Release
<1>7. ASSUME NEW o, CancelOwner(o) PROVE TimerInv'
  BY <1>7 DEF CancelOwner
<1>8. CASE DrainBegin \/ DrainEnd \/ UNCHANGED vars
  BY <1>8 DEF DrainBegin, DrainEnd, vars
<1> QED BY <1>1, <1>2, <1>3, <1>4, <1>5, <1>6, <1>7, <1>8 DEF Next, Enqueue

-----------------------------------------------------------------------------
THEOREM Inductive == Spec => []IInv
<1>1. Init => IInv
  BY InitIInv
<1>2. IInv /\ [Next]_vars => IInv'
  BY TypeStep, CountersStep, DedupeStep, WakeupStep, TimerStep DEF IInv
<1> QED BY <1>1, <1>2, PTL DEF Spec

\* The state keeps its type.
THEOREM TypeCorrect == Spec => []TypeOK
<1>1. IInv => TypeOK
  BY DEF IInv
<1> QED BY <1>1, Inductive, PTL

\* The counters that admit a task are the number of runs under way.
THEOREM CountersAreExact == Spec => []CountersExact
<1>1. IInv => CountersExact
  BY DEF IInv
<1> QED BY <1>1, Inductive, PTL

\* Never more runs than slots, whatever timed out.
THEOREM CapHolds == Spec => []NoOverrun
<1>1. IInv => NoOverrun
  BY DEF IInv, CountersExact, NoOverrun
<1> QED BY <1>1, Inductive, PTL

\* The dedupe map is the function from keys to live tasks.
THEOREM DedupeIsExact == Spec => []DedupeExact
<1>1. IInv => DedupeExact
  BY TaskAssumption DEF IInv, DedupeInv, DedupeExact, TypeOK, Live, Queued, Started, Keys
<1> QED BY <1>1, Inductive, PTL

\* Whenever work could start, a drain is on its way.
THEOREM NoWakeupIsLost == Spec => []NoLostWakeup
<1>1. IInv => NoLostWakeup
  BY DEF IInv
<1> QED BY <1>1, Inductive, PTL

\* Promises settle once, and only a timeout answers before the run.
THEOREM AnsweredOnce == Spec => AnswerOnce
<1> DEFINE Once == \A t \in Task :
       /\ promise[t] \in {"resolved", "rejected"} => promise'[t] = promise[t]
       /\ phase[t] = "running" /\ promise[t] # promise'[t] =>
            t \in timer \ timer' \/ phase'[t] = "settling"
<1>1. IInv /\ [Next]_vars => [Once]_vars
  <2> SUFFICES ASSUME IInv, [Next]_vars PROVE [Once]_vars
    OBVIOUS
  <2> USE DEF IInv, TypeOK, TimerInv, Started, Queued
  <2>1. ASSUME NEW t \in Task, Join(t) PROVE Once
    BY <2>1 DEF Join
  <2>2. ASSUME NEW t \in Task, Push(t) PROVE Once
    BY <2>2 DEF Push
  <2>3. ASSUME NEW t \in Task, StartTask(t) PROVE Once
    BY <2>3 DEF StartTask
  <2>4. ASSUME NEW t \in Task, TimeOut(t) PROVE Once
    BY <2>4 DEF TimeOut, Macrotask
  <2>5. ASSUME NEW t \in Task, NEW outcome, RunSettles(t, outcome) PROVE Once
    BY <2>5 DEF RunSettles
  <2>6. ASSUME NEW t \in Task, CompleteTask(t) PROVE Once
    BY <2>6 DEF CompleteTask, Release
  <2>7. ASSUME NEW o, CancelOwner(o) PROVE Once
    BY <2>7 DEF CancelOwner
  <2>8. CASE DrainBegin \/ DrainEnd
    BY <2>8 DEF DrainBegin, DrainEnd
  <2>9. CASE UNCHANGED vars
    BY <2>9
  <2> QED BY <2>1, <2>2, <2>3, <2>4, <2>5, <2>6, <2>7, <2>8, <2>9 DEF Next, Enqueue
<1> QED BY <1>1, Inductive, PTL DEF Spec, AnswerOnce

-----------------------------------------------------------------------------
\* Every step of the queue is a step of the pool or changes nothing it sees.
THEOREM ImplementsPool == Spec => PoolSpec
<1> DEFINE gone == {t \in Task : phase[t] \in {"joined", "ended", "cancelled"}}
<1>1. Init => Pool!PoolInit
  BY DEF Init, Pool!PoolInit, Queued, Started
<1>2. IInv /\ IInv' /\ [Next]_vars => [Pool!PoolNext]_(Pool!poolVars)
  <2> SUFFICES ASSUME IInv, IInv', [Next]_vars
               PROVE  Pool!PoolNext \/ UNCHANGED Pool!poolVars
    OBVIOUS
  <2> DEFINE Same == UNCHANGED <<Queued, Started, gone>>
  <2>0. Same => UNCHANGED Pool!poolVars
    BY DEF Pool!poolVars
  <2>t. \A t \in Task : phase[t] \in Phases
    BY DEF IInv, TypeOK
  <2> USE DEF Queued, Started
  <2>d. \A u \in Queued \cup Started : Key[u] # None => dedupeMap[Key[u]] = u
    BY DEF IInv, DedupeInv, Live
  <2>1. ASSUME NEW t \in Task, Join(t) PROVE Pool!PoolNext
    <3>1. dedupeMap[Key[t]] \in Queued \cup Started /\ Key[dedupeMap[Key[t]]] = Key[t]
      BY <2>1 DEF Join, IInv, DedupeInv, Live, Keys
    <3>2. Pool!Join(t)
      BY <2>1, <2>t, <3>1 DEF Join, Pool!Join, Pool!SameKey, IInv, TypeOK
    <3> QED BY <3>2 DEF Pool!PoolNext
  <2>2. ASSUME NEW t \in Task, Push(t) PROVE Pool!PoolNext
    <3>1. \A u \in Queued \cup Started : ~Pool!SameKey(t, u)
      BY <2>2, <2>d, TaskAssumption DEF Push, Pool!SameKey
    <3>2. Pool!Accept(t)
      BY <2>2, <2>t, <3>1 DEF Push, Pool!Accept, IInv, TypeOK
    <3> QED BY <3>2 DEF Pool!PoolNext
  <2>3. ASSUME NEW t \in Task, StartTask(t) PROVE Pool!PoolNext
    <3>1. Cardinality(Started) < MaxInflight
      BY <2>3 DEF StartTask, IInv, CountersExact
    <3>2. Pool!Cardinality(Started) = Cardinality(Started)
      BY DEF Pool!Cardinality, Cardinality
    <3>3. Pool!Begin(t)
      BY <2>3, <2>t, <3>1, <3>2 DEF StartTask, IsNext, Runnable, Pool!Begin, IInv, TypeOK
    <3> QED BY <3>3 DEF Pool!PoolNext
  <2>4. ASSUME NEW t \in Task, CompleteTask(t) PROVE Pool!PoolNext
    <3>1. Pool!Finish(t)
      BY <2>4, <2>t DEF CompleteTask, Release, Pool!Finish, IInv, TypeOK
    <3> QED BY <3>1 DEF Pool!PoolNext
  <2>5. ASSUME NEW o, CancelOwner(o) PROVE Pool!PoolNext
    <3>1. PICK S \in SUBSET Task : S = {t \in Queued : Owner[t] = o}
      OBVIOUS
    <3>2. Pool!Withdraw(S)
      BY <2>5, <2>t, <3>1 DEF CancelOwner, Pool!Withdraw, IInv, TypeOK
    <3> QED BY <3>2 DEF Pool!PoolNext
  <2>6. ASSUME NEW t \in Task, TimeOut(t) PROVE Same
    BY <2>6 DEF TimeOut
  <2>7. ASSUME NEW t \in Task, NEW outcome, RunSettles(t, outcome) PROVE Same
    BY <2>7, <2>t DEF RunSettles, IInv, TypeOK
  <2>8. CASE DrainBegin \/ DrainEnd
    BY <2>8, <2>0 DEF DrainBegin, DrainEnd
  <2>9. CASE UNCHANGED vars
    BY <2>9, <2>0 DEF vars
  <2> QED BY <2>0, <2>1, <2>2, <2>3, <2>4, <2>5, <2>6, <2>7, <2>8, <2>9 DEF Next, Enqueue
<1> QED BY <1>1, <1>2, Inductive, PTL DEF Spec, PoolSpec, Pool!PoolSpec
=============================================================================
