--------------------------- MODULE MirrorRecompute ---------------------------
(***************************************************************************)
(* The recompute loop of the Git-state mirror worker: every trigger that   *)
(* re-reads a repository (attach, file event, heartbeat, polling, refresh, *)
(* revalidation), the debounce, the queue of one behind the recompute in   *)
(* flight, the governor's admission and its retry timer, the non-git ->    *)
(* git reattach, and the mirror-update messages that set the router's      *)
(* latest snapshot.  (git-state-mirror-worker-entry.ts, -worker-core.ts,   *)
(* git-state-mirror-recompute-governor.ts, git-state-mirror-router.ts)     *)
(*                                                                         *)
(* A repository is its version number; version 0 is "not a repository      *)
(* yet".  A snapshot is the version git status saw, 0 if rev-parse found   *)
(* no repository, and the generation a refresh bumped.  Which watcher      *)
(* serves which cwd is MirrorWatcher's.                                    *)
(***************************************************************************)
EXTENDS Integers, Sequences, FiniteSets

CONSTANTS
  Cwd,
  MaxConcurrent,   \* the governor's budget
  Heartbeats,      \* does the reconcile heartbeat run
  MayMissEvents,   \* may the watcher silently miss a change
  MayFail,         \* may rev-parse and git status fail
  MaxPoke          \* bound: changes, refreshes, foreground diffs and failures in all

ASSUME ConstantsAssumption ==
  /\ IsFiniteSet(Cwd)
  /\ MaxConcurrent \in Nat \ {0}
  /\ {Heartbeats, MayMissEvents, MayFail} \subseteq BOOLEAN
  /\ MaxPoke \in Nat

VARIABLES
  data, gen,   \* the repository's version; currentGeneration(cwd)
  event,       \* file events the watcher has not delivered yet
  watch,       \* "none", "opening" or "live": the cwd's watcher
  run,         \* the recompute in flight of the cwd's entry
  state,       \* entry.state
  queued,      \* entry.recomputeQueued
  debounce,    \* entry.debounceTimer is armed
  retry,       \* governorRetryTimers: the deferred trigger the timer reruns
  running,     \* the governor's count
  yield,       \* foregroundBusyUntil: "no", "busy" or "grace"
  floor,       \* is the duty-cycle floor of the last recompute still ahead
  tail,        \* a recompute whose emit waits for the reattach it caused
  channel,     \* mirror-update messages on their way to the router
  latest,      \* the router's latest snapshot
  attached,    \* handleAttachWatch was called
  pokes,       \* how much of the bound is used
  excused,     \* a change was missed or a git call failed: only a heartbeat can help
  reattached   \* history: the cwds whose watcher a recompute opened before it emitted

vars == <<data, gen, event, watch, run, state, queued, debounce, retry, running,
          yield, floor, tail, channel, latest, attached, pokes, excused>>

None == [data |-> -2, gen |-> -2]      \* no snapshot
Unknown == -1                          \* git status failed: status 'unknown'
NotYet == -3                           \* git status has not read the tree yet
Versions == MaxPoke + 1
Snapshots == [data : Unknown..Versions, gen : 0..MaxPoke]
Reasons == {"attach", "watcher", "polling", "focus-resync", "reconcile"}

Idle == [why |-> "idle", gen |-> 0, seen |-> NotYet, inner |-> FALSE]
NoRetry == [why |-> "none", queue |-> FALSE]
NoTail == [phase |-> "none", snap |-> None]

TypeOK ==
  /\ data \in [Cwd -> 0..Versions] /\ gen \in [Cwd -> 0..MaxPoke]
  /\ event \in [Cwd -> BOOLEAN] /\ watch \in [Cwd -> {"none", "opening", "live"}]
  /\ run \in [Cwd -> {Idle} \cup [why : Reasons, gen : 0..MaxPoke,
                                  seen : NotYet..Versions, inner : BOOLEAN]]
  /\ state \in [Cwd -> Snapshots \cup {None}] /\ latest \in [Cwd -> Snapshots \cup {None}]
  /\ queued \in [Cwd -> BOOLEAN] /\ debounce \in [Cwd -> BOOLEAN]
  /\ retry \in [Cwd -> {NoRetry} \cup [why : Reasons, queue : BOOLEAN]]
  /\ running \in 0..Cardinality(Cwd)
  /\ yield \in [Cwd -> {"no", "busy", "grace"}] /\ floor \in [Cwd -> BOOLEAN]
  /\ tail \in [Cwd -> [phase : {"none", "opening", "inner", "ready"}, snap : Snapshots \cup {None}]]
  /\ channel \in Seq([cwd : Cwd, snap : Snapshots])
  /\ attached \in [Cwd -> BOOLEAN] /\ excused \in [Cwd -> BOOLEAN] /\ pokes \in 0..MaxPoke

Init ==
  /\ data \in [Cwd -> {0, 1}]
  /\ gen = [c \in Cwd |-> 0]
  /\ event = [c \in Cwd |-> FALSE] /\ watch = [c \in Cwd |-> "none"]
  /\ run = [c \in Cwd |-> Idle]
  /\ state = [c \in Cwd |-> None] /\ latest = [c \in Cwd |-> None]
  /\ queued = [c \in Cwd |-> FALSE] /\ debounce = [c \in Cwd |-> FALSE]
  /\ retry = [c \in Cwd |-> NoRetry]
  /\ running = 0
  /\ yield = [c \in Cwd |-> "no"] /\ floor = [c \in Cwd |-> FALSE]
  /\ tail = [c \in Cwd |-> NoTail]
  /\ channel = <<>>
  /\ attached = [c \in Cwd |-> FALSE]
  /\ pokes = 0 /\ excused = [c \in Cwd |-> FALSE]
  /\ reattached = {}

-----------------------------------------------------------------------------
(* Admission                                                               *)

\* admitKindForReason
Kind(why) == CASE why \in {"watcher", "polling"} -> "watcher"
               [] why = "reconcile" -> "reconcile"
               [] OTHER -> "user"

\* The governor's admit, negated.
Deferred(c, why) ==
  /\ Kind(why) # "user"
  /\ \/ yield[c] # "no"
     \/ running >= MaxConcurrent
     \/ Kind(why) = "watcher" /\ floor[c]

\* runRecompute past the governor: queued behind the recompute in flight (if the
\* caller lets it) or started.
QueueOrStart(c, why, queue, g, inner) ==
  \/ /\ run[c] # Idle
     /\ queued' = [queued EXCEPT ![c] = @ \/ queue]
     /\ UNCHANGED <<run, running>>
  \/ /\ run[c] = Idle
     /\ run' = [run EXCEPT ![c] = [why |-> why, gen |-> g, seen |-> NotYet, inner |-> inner]]
     /\ running' = running + 1
     /\ UNCHANGED queued

\* The synchronous part of runRecompute; g is the generation a started recompute
\* captures.  A deferred trigger arms the retry timer unless one is armed.
Run(c, why, queue, g, inner) ==
  \/ /\ run[c] = Idle /\ Deferred(c, why)
     /\ retry' = IF retry[c] = NoRetry THEN [retry EXCEPT ![c] = [why |-> why, queue |-> queue]]
                 ELSE retry
     /\ UNCHANGED <<queued, run, running>>
  \/ /\ run[c] # Idle \/ ~Deferred(c, why)
     /\ QueueOrStart(c, why, queue, g, inner)
     /\ UNCHANGED retry

-----------------------------------------------------------------------------
(* Triggers                                                                *)

\* Something happens that the bound counts.
Poke == pokes < MaxPoke /\ pokes' = pokes + 1

\* handleAttachWatch, up to its await.
Attach(c) ==
  /\ ~attached[c]
  /\ attached' = [attached EXCEPT ![c] = TRUE]
  /\ Run(c, "attach", TRUE, gen[c], FALSE)
  /\ UNCHANGED <<data, gen, event, watch, state, debounce, yield, floor, tail,
                 channel, latest, pokes, excused>>

\* The repository changes; version 1 of a directory is its git init.  A live
\* watcher has an event to deliver unless it misses it.
Change(c) ==
  /\ Poke
  /\ data' = [data EXCEPT ![c] = @ + 1]
  /\ \/ event' = [event EXCEPT ![c] = watch[c] = "live"] /\ UNCHANGED excused
     \/ /\ MayMissEvents /\ watch[c] = "live"
        /\ excused' = [excused EXCEPT ![c] = TRUE] /\ UNCHANGED event
  /\ UNCHANGED <<gen, watch, run, state, queued, debounce, retry, running, yield, floor,
                 tail, channel, latest, attached>>

\* The subscription's callback: scheduleRecompute arms the debounce timer.
Event(c) ==
  /\ event[c]
  /\ event' = [event EXCEPT ![c] = FALSE]
  /\ debounce' = [debounce EXCEPT ![c] = TRUE]
  /\ UNCHANGED <<data, gen, watch, run, state, queued, retry, running, yield, floor,
                 tail, channel, latest, attached, pokes, excused>>

DebounceFires(c) ==
  /\ debounce[c]
  /\ debounce' = [debounce EXCEPT ![c] = FALSE]
  /\ Run(c, "watcher", TRUE, gen[c], FALSE)
  /\ UNCHANGED <<data, gen, event, watch, state, yield, floor, tail, channel, latest,
                 attached, pokes, excused>>

\* The governor's retry timer reruns the FIRST deferred trigger with its own
\* reason and options; deferred again, it is armed again.
RetryFires(c) ==
  LET r == retry[c] IN
  /\ r # NoRetry
  /\ run[c] # Idle \/ ~Deferred(c, r.why)
  /\ QueueOrStart(c, r.why, r.queue, gen[c], FALSE)
  /\ retry' = [retry EXCEPT ![c] = NoRetry]
  /\ UNCHANGED <<data, gen, event, watch, state, debounce, yield, floor, tail, channel,
                 latest, attached, pokes, excused>>

\* runGroupReconcile and runDegradedPoll: background, never queued.
Background(c, why) ==
  /\ Heartbeats /\ watch[c] # "none"
  /\ Run(c, why, FALSE, gen[c], FALSE)
  /\ UNCHANGED <<data, gen, event, watch, state, debounce, yield, floor, tail, channel,
                 latest, attached, pokes, excused>>
Heartbeat(c) == Background(c, "reconcile")
Poll(c) == Background(c, "polling")

\* handleFocusResync: the generation is bumped, the debounce dropped.
FocusResync(c) ==
  /\ attached[c] /\ Poke
  /\ gen' = [gen EXCEPT ![c] = @ + 1]
  /\ debounce' = [debounce EXCEPT ![c] = FALSE]
  /\ Run(c, "focus-resync", TRUE, gen[c] + 1, FALSE)
  /\ UNCHANGED <<data, event, watch, state, yield, floor, tail, channel, latest,
                 attached, excused>>

\* handleRevalidate
Revalidate(c) ==
  /\ attached[c]
  /\ Run(c, "reconcile", TRUE, gen[c], FALSE)
  /\ UNCHANGED <<data, gen, event, watch, state, debounce, yield, floor, tail, channel,
                 latest, attached, pokes, excused>>

-----------------------------------------------------------------------------
(* The recompute itself                                                    *)

\* rev-parse looks for the repository and git status reads its working tree.
\* Either may fail: the snapshot has no repository, as of a directory that is none,
\* or no status.
Sample(c) ==
  /\ run[c] # Idle /\ run[c].seen = NotYet
  /\ \/ run' = [run EXCEPT ![c].seen = data[c]] /\ UNCHANGED <<pokes, excused>>
     \/ /\ MayFail /\ data[c] > 0 /\ Poke
        /\ excused' = [excused EXCEPT ![c] = TRUE]
        /\ \E seen \in {0, Unknown} : run' = [run EXCEPT ![c].seen = seen]
  /\ UNCHANGED <<data, gen, event, watch, state, queued, debounce, retry, running, yield,
                 floor, tail, channel, latest, attached>>

Emit(c, snap) == Append(channel, [cwd |-> c, snap |-> snap])

\* Mutation: the governor is not told that the recompute ended.
Ends_KeepsBudget(c) ==
  /\ run' = [run EXCEPT ![c] = Idle]
  /\ queued' = [queued EXCEPT ![c] = FALSE]
  /\ debounce' = [debounce EXCEPT ![c] = @ \/ queued[c]]
  /\ UNCHANGED <<running, floor>>

\* Mutation: the recompute queued meanwhile is forgotten.
Ends_ForgetsQueue(c) ==
  /\ run' = [run EXCEPT ![c] = Idle]
  /\ running' = running - 1
  /\ queued' = [queued EXCEPT ![c] = FALSE]
  /\ UNCHANGED <<debounce, floor>>

\* onEnd, and the recompute queued meanwhile is debounced; the floor stays ahead
\* unless the recompute was quick.
Ends(c) ==
  /\ run' = [run EXCEPT ![c] = Idle]
  /\ running' = IF running = 0 THEN 0 ELSE running - 1
  /\ queued' = [queued EXCEPT ![c] = FALSE]
  /\ debounce' = [debounce EXCEPT ![c] = @ \/ queued[c]]
  /\ \E slow \in BOOLEAN : floor' = [floor EXCEPT ![c] = slow]

\* finishMirrorRecomputeIfCurrent: the snapshot is kept; is there a delta?
Snap(c) == [data |-> run[c].seen, gen |-> run[c].gen]
Emission(c) == IF Snap(c) # state[c] THEN Append(channel, [cwd |-> c, snap |-> Snap(c)])
               ELSE channel

\* Mutation: an entry that has a watcher group is not left alone.
BecameGit_IgnoresGroup(c) == run[c].why \in {"focus-resync", "reconcile"} /\ run[c].seen # 0

\* shouldReattachWatcherAfterRecompute, for the reasons that ask.
BecameGit(c) == /\ run[c].why \in {"focus-resync", "reconcile"}
                /\ run[c].seen # 0 /\ watch[c] = "none"

\* Mutation: the refresh after the subscription is skipped, as for a directory
\* that joins a group.
Subscribed_NoRefresh(c) ==
  /\ watch[c] = "opening"
  /\ watch' = [watch EXCEPT ![c] = "live"]
  /\ tail' = [tail EXCEPT ![c].phase = IF @ = "opening" THEN "ready" ELSE @]
  /\ UNCHANGED <<data, gen, event, run, state, queued, debounce, retry, running, yield, floor,
                 channel, latest, attached, pokes, excused>>

\* ensureWatcherForGroup past the subscribe: the directory is re-read, for the
\* changes the subscription was too late for.
Subscribed(c) ==
  LET why == IF tail[c].phase = "opening" THEN "watcher" ELSE "attach" IN
  /\ watch[c] = "opening"
  /\ watch' = [watch EXCEPT ![c] = "live"]
  /\ Run(c, why, TRUE, gen[c], TRUE)
  /\ tail' = [tail EXCEPT ![c].phase =
       IF @ = "opening" THEN (IF run' # run THEN "inner" ELSE "ready") ELSE @]
  /\ UNCHANGED <<data, gen, event, state, debounce, yield, floor, channel, latest,
                 attached, pokes, excused>>

\* The recompute ends: an attach emits and then opens the watcher of a
\* repository; a user-driven one that finds a repository opens it and emits when
\* that is done; any other emits.
Finish(c) ==
  /\ run[c] # Idle /\ run[c].seen # NotYet
  /\ state' = [state EXCEPT ![c] = Snap(c)]
  /\ Ends(c)
  /\ \/ /\ BecameGit(c)
        /\ watch' = [watch EXCEPT ![c] = "opening"]
        /\ tail' = [tail EXCEPT ![c] = [phase |-> "opening",
                                        snap |-> IF Snap(c) # state[c] THEN Snap(c) ELSE None]]
        /\ UNCHANGED channel
     \/ /\ ~BecameGit(c)
        /\ channel' = Emission(c)
        /\ watch' = [watch EXCEPT ![c] =
             IF @ = "none" /\ run[c].why = "attach" /\ run[c].seen # 0 THEN "opening" ELSE @]
        /\ tail' = [tail EXCEPT ![c].phase = IF @ = "inner" /\ run[c].inner THEN "ready" ELSE @]
  /\ UNCHANGED <<data, gen, event, retry, yield, latest, attached, pokes, excused>>

\* The recompute that caused a reattach emits at last.
TailResumes(c) ==
  /\ tail[c].phase = "ready"
  /\ channel' = IF tail[c].snap = None THEN channel
                ELSE Append(channel, [cwd |-> c, snap |-> tail[c].snap])
  /\ tail' = [tail EXCEPT ![c] = NoTail]
  /\ UNCHANGED <<data, gen, event, watch, run, state, queued, debounce, retry, running,
                 yield, floor, latest, attached, pokes, excused>>

\* The router handles mirror-update.
RouterReceives ==
  /\ channel # <<>>
  /\ latest' = [latest EXCEPT ![Head(channel).cwd] = Head(channel).snap]
  /\ channel' = Tail(channel)
  /\ UNCHANGED <<data, gen, event, watch, run, state, queued, debounce, retry, running,
                 yield, floor, tail, attached, pokes, excused>>

-----------------------------------------------------------------------------
(* The governor's clock                                                    *)

\* setForegroundBusy: a getDiff of the repository begins, ends, and its grace is over.
YieldBegins(c) ==
  /\ attached[c] /\ yield[c] # "busy" /\ Poke
  /\ yield' = [yield EXCEPT ![c] = "busy"]
  /\ UNCHANGED <<data, gen, event, watch, run, state, queued, debounce, retry, running,
                 floor, tail, channel, latest, attached, excused>>
YieldEnds(c) ==
  /\ yield[c] # "no"
  /\ yield' = [yield EXCEPT ![c] = IF @ = "busy" THEN "grace" ELSE "no"]
  /\ UNCHANGED <<data, gen, event, watch, run, state, queued, debounce, retry, running,
                 floor, tail, channel, latest, attached, pokes, excused>>

\* The duty-cycle floor passes.
FloorPasses(c) ==
  /\ floor[c]
  /\ floor' = [floor EXCEPT ![c] = FALSE]
  /\ UNCHANGED <<data, gen, event, watch, run, state, queued, debounce, retry, running,
                 yield, tail, channel, latest, attached, pokes, excused>>

Next ==
  \/ \E c \in Cwd :
       \/ Attach(c) \/ Change(c) \/ Event(c) \/ DebounceFires(c) \/ RetryFires(c)
       \/ Heartbeat(c) \/ Poll(c) \/ FocusResync(c) \/ Revalidate(c)
       \/ Sample(c) \/ Finish(c) \/ Subscribed(c) \/ TailResumes(c)
       \/ YieldBegins(c) \/ YieldEnds(c) \/ FloorPasses(c)
  \/ RouterReceives

\* git commands end, timers fire, messages arrive, a foreground diff ends and the
\* subscription settles; nobody has to change, refresh or revalidate anything.
\* A timer that fires again and again meets an idle entry and a free budget
\* again and again, which is all RetryFires and Heartbeat can count on.
Fairness ==
  /\ WF_vars(RouterReceives)
  /\ \A c \in Cwd :
       /\ WF_vars(Event(c)) /\ WF_vars(DebounceFires(c)) /\ SF_vars(RetryFires(c))
       /\ WF_vars(Heartbeat(c))
       /\ WF_vars(Sample(c)) /\ WF_vars(Finish(c)) /\ WF_vars(Subscribed(c))
       /\ WF_vars(TailResumes(c)) /\ WF_vars(YieldEnds(c)) /\ WF_vars(FloorPasses(c))

\* Recorded at every step, read by the properties only.
History == reattached' = reattached \cup {c \in Cwd : watch[c] = "none" /\ tail'[c] # NoTail}

specVars == <<vars, reattached>>
Spec == Init /\ [][Next /\ History]_specVars
FairSpec == Spec /\ Fairness

-----------------------------------------------------------------------------
(* Properties                                                              *)

Truth(c) == [data |-> data[c], gen |-> gen[c]]

\* What is still going to look at the directory, or to tell the router.
Pending(c) ==
  \/ event[c] \/ debounce[c] \/ queued[c] \/ retry[c] # NoRetry \/ run[c] # Idle
  \/ watch[c] = "opening" \/ tail[c] # NoTail
  \/ \E i \in DOMAIN channel : channel[i].cwd = c

\* No refresh is lost: when nothing is pending for a watched directory, the
\* router's snapshot is the repository, whatever was queued behind, deferred,
\* debounced or raced on the way.  (A directory whose watcher was opened by a
\* user-driven recompute, after git init or a failed rev-parse, is told in the wrong
\* order: README.md, section 6.  QuietStateIsFresh covers it.)
QuietIsFresh ==
  \A c \in Cwd \ reattached : watch[c] = "live" /\ ~Pending(c) /\ ~excused[c] => latest[c] = Truth(c)

\* The same for the worker's own snapshot, wherever the watcher came from.
\* The state is well typed.
QuietStateIsFresh ==
  /\ TypeOK
  /\ \A c \in Cwd : watch[c] = "live" /\ ~Pending(c) /\ ~excused[c] => state[c] = Truth(c)

\* The router never goes back to a snapshot older than the one it serves
\* ("latest snapshot per cwd"), with the same exception.
NeverBackwards ==
  [][\A c \in Cwd \ reattached' :
       /\ latest'[c].gen >= latest[c].gen
       /\ latest[c].data > 0 /\ latest'[c].data > 0 => latest'[c].data >= latest[c].data]_specVars

\* Once nothing changes any more the router has every watched directory's
\* current snapshot, in spite of missed events and failed git calls, with the
\* same exception.
BecomesFresh ==
  \A c \in Cwd : <>[](c \in reattached \/ (watch[c] = "live" => latest[c] = Truth(c)))
=============================================================================
