-------------------------- MODULE MainWorkScheduler --------------------------
(***************************************************************************)
(* The main-process work queue, src/electron/main/main-work-scheduler.ts:  *)
(* lanes, dedupe keys, owners, per-key concurrency and task timeouts.      *)
(*                                                                         *)
(* A Task is one call of enqueue; its options are constants.  JavaScript   *)
(* runs a callback to completion, so the while loop of drainQueue is the   *)
(* steps StartTask* DrainEnd during which nothing else may happen, and a   *)
(* promise reaction is a microtask: between the settling of a run and the  *)
(* finally() that frees its slot only other reactions may run, never a     *)
(* timer or the setImmediate of a drain.                                   *)
(***************************************************************************)
EXTENDS Naturals, FiniteSets

CONSTANTS
  Task,          \* the calls of enqueue
  None,          \* no key, no owner, no task
  Rank,          \* laneRank(normalizeLane(options.lane)): 1..5
  Key,           \* options.key: dedupe
  Owner,         \* options.ownerId
  ConcurrencyKey,\* options.concurrencyKey
  Limit,         \* clampPositive(options.concurrencyLimit ?? 1, 1)
  Timed,         \* the tasks with timeoutMs > 0
  MaxInflight    \* DEFAULT_MAX_INFLIGHT

ASSUME TaskAssumption == IsFiniteSet(Task) /\ None \notin Task
ASSUME OptionsAssumption ==
  /\ Rank \in [Task -> Nat]
  /\ Limit \in [Task -> Nat \ {0}]
  /\ Timed \subseteq Task
ASSUME MaxInflightAssumption == MaxInflight \in Nat \ {0}

Keys  == {Key[t] : t \in Task} \ {None}
CKeys == {ConcurrencyKey[t] : t \in Task} \ {None}

VARIABLES
  phase,       \* where each task is
  order,       \* QueueTask.id, 0 before the call
  nextTaskId,
  inflight,
  inflightByKey,
  dedupeMap,
  draining,    \* a setImmediate is scheduled
  looping,     \* drainQueue is in its while loop
  handle,      \* the task whose promise the caller was given
  promise,     \* the state of each task's promise
  timer        \* the tasks whose timeout is armed

vars == <<phase, order, nextTaskId, inflight, inflightByKey, dedupeMap,
          draining, looping, handle, promise, timer>>

Phases == {"idle", "joined", "queued", "running", "settling", "ended", "cancelled"}
Promises == {"none", "pending", "resolved", "rejected"}

Queued  == {t \in Task : phase[t] = "queued"}
Started == {t \in Task : phase[t] \in {"running", "settling"}}
Live    == Queued \cup Started
\* No promise reaction is left to run: the event loop may take a macrotask.
Macrotask == ~looping /\ \A t \in Task : phase[t] # "settling"

TypeOK ==
  /\ phase \in [Task -> Phases]
  /\ order \in [Task -> Nat]
  /\ nextTaskId \in Nat
  /\ inflight \in Nat
  /\ inflightByKey \in [CKeys -> Nat]
  /\ dedupeMap \in [Keys -> Task \cup {None}]
  /\ draining \in BOOLEAN
  /\ looping \in BOOLEAN
  /\ handle \in [Task -> Task \cup {None}]
  /\ promise \in [Task -> Promises]
  /\ timer \in SUBSET Task

Init ==
  /\ phase = [t \in Task |-> "idle"]
  /\ order = [t \in Task |-> 0]
  /\ nextTaskId = 1
  /\ inflight = 0
  /\ inflightByKey = [k \in CKeys |-> 0]
  /\ dedupeMap = [k \in Keys |-> None]
  /\ draining = FALSE
  /\ looping = FALSE
  /\ handle = [t \in Task |-> None]
  /\ promise = [t \in Task |-> "none"]
  /\ timer = {}

-----------------------------------------------------------------------------
\* enqueue, a hit in dedupeMap: the caller gets the existing promise, whatever
\* its state.
Join(t) ==
  /\ ~looping
  /\ phase[t] = "idle"
  /\ Key[t] # None /\ dedupeMap[Key[t]] # None
  /\ handle' = [handle EXCEPT ![t] = dedupeMap[Key[t]]]
  /\ phase' = [phase EXCEPT ![t] = "joined"]
  /\ UNCHANGED <<order, nextTaskId, inflight, inflightByKey, dedupeMap, draining,
                 looping, promise, timer>>

\* enqueue, a miss: push, remember the promise under its key, scheduleDrain.
Push(t) ==
  /\ ~looping
  /\ phase[t] = "idle"
  /\ Key[t] # None => dedupeMap[Key[t]] = None
  /\ phase' = [phase EXCEPT ![t] = "queued"]
  /\ order' = [order EXCEPT ![t] = nextTaskId]
  /\ nextTaskId' = nextTaskId + 1
  /\ dedupeMap' = [k \in Keys |-> IF k = Key[t] THEN t ELSE dedupeMap[k]]
  /\ handle' = [handle EXCEPT ![t] = t]
  /\ promise' = [promise EXCEPT ![t] = "pending"]
  /\ draining' = TRUE
  /\ UNCHANGED <<inflight, inflightByKey, looping, timer>>

\* Mutation: the queued tasks are dropped and their callers never rejected.
CancelOwner_Silent(o) ==
  LET hit == {t \in Queued : Owner[t] = o} IN
  /\ ~looping
  /\ hit # {}
  /\ phase' = [t \in Task |-> IF t \in hit THEN "cancelled" ELSE phase[t]]
  /\ dedupeMap' = [k \in Keys |-> IF dedupeMap[k] \in hit THEN None ELSE dedupeMap[k]]
  /\ UNCHANGED <<order, nextTaskId, inflight, inflightByKey, draining, looping,
                 handle, promise, timer>>

\* Mutation: started tasks of the owner are cancelled with the queued ones.
CancelOwner_Started(o) ==
  LET hit == {t \in Live : Owner[t] = o} IN
  /\ ~looping
  /\ hit # {}
  /\ phase' = [t \in Task |-> IF t \in hit THEN "cancelled" ELSE phase[t]]
  /\ promise' = [t \in Task |-> IF t \in hit THEN "rejected" ELSE promise[t]]
  /\ dedupeMap' = [k \in Keys |-> IF dedupeMap[k] \in hit THEN None ELSE dedupeMap[k]]
  /\ UNCHANGED <<order, nextTaskId, inflight, inflightByKey, draining, looping,
                 handle, timer>>

\* cancelOwner: every queued task of the owner is rejected and forgotten.
CancelOwner(o) ==
  LET hit == {t \in Queued : Owner[t] = o} IN
  /\ ~looping
  /\ hit # {}
  /\ phase' = [t \in Task |-> IF t \in hit THEN "cancelled" ELSE phase[t]]
  /\ promise' = [t \in Task |-> IF t \in hit THEN "rejected" ELSE promise[t]]
  /\ dedupeMap' = [k \in Keys |-> IF dedupeMap[k] \in hit THEN None ELSE dedupeMap[k]]
  /\ UNCHANGED <<order, nextTaskId, inflight, inflightByKey, draining, looping,
                 handle, timer>>

-----------------------------------------------------------------------------
\* The setImmediate of scheduleDrain fires.
DrainBegin ==
  /\ Macrotask
  /\ draining
  /\ draining' = FALSE
  /\ looping' = TRUE
  /\ UNCHANGED <<phase, order, nextTaskId, inflight, inflightByKey, dedupeMap,
                 handle, promise, timer>>

CanRun(t) ==
  ConcurrencyKey[t] # None => inflightByKey[ConcurrencyKey[t]] < Limit[t]

\* pickNextRunnableTaskIndex: the highest lane, then the oldest.
Precedes(t, u) == Rank[t] > Rank[u] \/ (Rank[t] = Rank[u] /\ order[t] <= order[u])
Runnable == {t \in Queued : CanRun(t)}
IsNext(t) == t \in Runnable /\ \A u \in Runnable : Precedes(t, u)

\* One turn of drainQueue's loop: splice the task and startTask.
StartTask(t) ==
  /\ looping
  /\ inflight < MaxInflight
  /\ IsNext(t)
  /\ phase' = [phase EXCEPT ![t] = "running"]
  /\ inflight' = inflight + 1
  /\ inflightByKey' = [k \in CKeys |-> IF k = ConcurrencyKey[t] THEN inflightByKey[k] + 1
                                                              ELSE inflightByKey[k]]
  /\ timer' = IF t \in Timed THEN timer \cup {t} ELSE timer
  /\ UNCHANGED <<order, nextTaskId, dedupeMap, draining, looping, handle, promise>>

\* The loop's exit: no slot, or nothing runnable.
DrainEnd ==
  /\ looping
  /\ inflight >= MaxInflight \/ Runnable = {}
  /\ looping' = FALSE
  /\ UNCHANGED <<phase, order, nextTaskId, inflight, inflightByKey, dedupeMap,
                 draining, handle, promise, timer>>

-----------------------------------------------------------------------------
\* Mutation: the timeout gives the slot back while the run goes on.
TimeOut_FreesSlot(t) ==
  /\ Macrotask
  /\ t \in timer
  /\ timer' = timer \ {t}
  /\ promise' = [promise EXCEPT ![t] = "rejected"]
  /\ inflight' = inflight - 1
  /\ draining' = TRUE
  /\ UNCHANGED <<phase, order, nextTaskId, inflightByKey, dedupeMap, looping, handle>>

\* Mutation: the timeout forgets the dedupe key while the run goes on.
TimeOut_ForgetsKey(t) ==
  /\ Macrotask
  /\ t \in timer
  /\ timer' = timer \ {t}
  /\ promise' = [promise EXCEPT ![t] = "rejected"]
  /\ dedupeMap' = [k \in Keys |-> IF dedupeMap[k] = t THEN None ELSE dedupeMap[k]]
  /\ UNCHANGED <<phase, order, nextTaskId, inflight, inflightByKey, draining,
                 looping, handle>>

\* The timeout of startTask: the caller is rejected, the run goes on.
TimeOut(t) ==
  /\ Macrotask
  /\ t \in timer
  /\ timer' = timer \ {t}
  /\ promise' = [promise EXCEPT ![t] = "rejected"]
  /\ UNCHANGED <<phase, order, nextTaskId, inflight, inflightByKey, dedupeMap,
                 draining, looping, handle>>

\* run() settles: the then() or catch() reaction settles the task's promise,
\* which a timeout may have settled already.  Several runs can settle in one
\* macrotask.
RunSettles(t, outcome) ==
  /\ ~looping
  /\ phase[t] = "running"
  /\ phase' = [phase EXCEPT ![t] = "settling"]
  /\ promise' = [promise EXCEPT ![t] = IF @ = "pending" THEN outcome ELSE @]
  /\ UNCHANGED <<order, nextTaskId, inflight, inflightByKey, dedupeMap, draining,
                 looping, handle, timer>>

\* The slot and the key a completed task gives back, by amount.
Release(t, amount) ==
  /\ phase' = [phase EXCEPT ![t] = "ended"]
  /\ inflight' = IF inflight > 0 THEN inflight - amount ELSE 0
  /\ inflightByKey' = [k \in CKeys |->
       IF k = ConcurrencyKey[t] /\ inflightByKey[k] > 0 THEN inflightByKey[k] - 1
                                                        ELSE inflightByKey[k]]
  /\ dedupeMap' = [k \in Keys |-> IF k = Key[t] /\ dedupeMap[k] = t THEN None
                                                                  ELSE dedupeMap[k]]

\* Mutation: no scheduleDrain after a completion.
CompleteTask_NoDrain(t) ==
  /\ ~looping
  /\ phase[t] = "settling"
  /\ timer' = timer \ {t}
  /\ Release(t, 1)
  /\ UNCHANGED <<order, nextTaskId, draining, looping, handle, promise>>

\* The finally() reaction: the timer is cleared, then completeTask.
CompleteTask(t) ==
  /\ ~looping
  /\ phase[t] = "settling"
  /\ timer' = timer \ {t}
  /\ Release(t, 1)
  /\ draining' = TRUE
  /\ UNCHANGED <<order, nextTaskId, looping, handle, promise>>

Enqueue(t) == Join(t) \/ Push(t)

Next ==
  \/ \E t \in Task :
       \/ Enqueue(t)
       \/ StartTask(t)
       \/ TimeOut(t)
       \/ \E outcome \in {"resolved", "rejected"} : RunSettles(t, outcome)
       \/ CompleteTask(t)
  \/ \E o \in {Owner[t] : t \in Task} \ {None} : CancelOwner(o)
  \/ DrainBegin
  \/ DrainEnd

\* The event loop turns: reactions, timers and immediates that are due run.
\* Every run settles, because each is a request to a worker with a timeout of
\* its own (project-fs, sqlite, app-state) or a child process.
Fairness ==
  /\ WF_vars(DrainBegin)
  /\ WF_vars(DrainEnd)
  /\ \A t \in Task :
       /\ WF_vars(StartTask(t))
       /\ WF_vars(CompleteTask(t))
       /\ WF_vars(\E outcome \in {"resolved", "rejected"} : RunSettles(t, outcome))

Spec == Init /\ [][Next]_vars
FairSpec == Spec /\ Fairness

-----------------------------------------------------------------------------
\* The slots: the counters that admit a task are the number of runs under way,
\* in all and per concurrency key, after any sequence of timeouts,
\* cancellations and completions (startTask, completeTask).
CountersExact ==
  /\ inflight = Cardinality(Started)
  /\ \A k \in CKeys :
       inflightByKey[k] = Cardinality({t \in Started : ConcurrencyKey[t] = k})

\* A timed-out task still holds its slot: never more runs than the limit, even
\* while callers that were rejected submit again.
NoOverrun == Cardinality(Started) <= MaxInflight

\* The dedupe map holds exactly the live task of each key, so two runs of one
\* key never overlap (the check existing === task.promise in completeTask and
\* finishQueuedCancellation).
DedupeExact ==
  \A k \in Keys :
    /\ dedupeMap[k] = None => \A t \in Live : Key[t] # k
    /\ dedupeMap[k] # None => {t \in Live : Key[t] = k} = {dedupeMap[k]}

\* A lost wake-up: work that could start while no drain is scheduled.
NoLostWakeup ==
  looping \/ draining \/ inflight >= MaxInflight \/ Runnable = {}

\* A promise handed to a caller is settled in the end: by the run, by the
\* timeout or by a cancellation, whatever lane it waits in.
EveryCallerAnswered ==
  \A t \in Task : (handle[t] # None) ~> (handle[t] # None /\ promise[handle[t]] \in {"resolved", "rejected"})

\* No promise changes its mind, and only a timeout answers a caller before the
\* run does: a cancellation never rejects work that was started (cancelOwner
\* scans the queue only).
AnswerOnce ==
  [][\A t \in Task :
       /\ promise[t] \in {"resolved", "rejected"} => promise'[t] = promise[t]
       /\ phase[t] = "running" /\ promise[t] # promise'[t] =>
            t \in timer \ timer' \/ phase'[t] = "settling"]_vars

-----------------------------------------------------------------------------
\* The queue implements the promise of WorkPool.
Pool == INSTANCE WorkPool WITH
  NoKey <- None,
  DedupeKey <- Key,
  Capacity <- MaxInflight,
  waiting <- Queued,
  active <- Started,
  gone <- {t \in Task : phase[t] \in {"joined", "ended", "cancelled"}}

PoolSpec == Pool!PoolSpec
=============================================================================
