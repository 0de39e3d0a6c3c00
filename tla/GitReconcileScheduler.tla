------------------------ MODULE GitReconcileScheduler ------------------------
(***************************************************************************)
(* The reconcile heartbeat (git-reconcile-scheduler.ts) with the host that *)
(* drives it in the mirror worker (reconcileTick and runGroupReconcile):   *)
(* when each repository is re-read although no watcher event asked for it, *)
(* how a slow git status stretches the gap, and what a system sleep in the *)
(* middle of one does to the measurement.                                  *)
(*                                                                         *)
(* The clock advances by one tick of the worker's interval.  A repository  *)
(* keeps the age of its last reconcile instead of its time, and ages at or *)
(* above Never are one.  Every duration is in ticks.                       *)
(***************************************************************************)
EXTENDS Integers, FiniteSets

CONSTANTS
  Root, NoRoot,
  FocusedInterval, VisibleInterval,   \* RECONCILE_FOCUSED_/VISIBLE_INTERVAL_MS
  BackoffFactor, MaxBackoff,          \* RECONCILE_BACKOFF_FACTOR, _MAX_BACKOFF_INTERVAL_MS
  Ceiling,                            \* MIRROR_DURATION_SANITY_CEILING_MS
  SleepLength,                        \* how long the system sleeps
  MaxAwake, MaxRuns, MaxSleep         \* bounds: a run's length, runs of a repository, sleeps

ASSUME ReconcileAssumption ==
  /\ NoRoot \notin Root
  /\ {FocusedInterval, VisibleInterval, BackoffFactor, MaxBackoff, Ceiling,
      SleepLength, MaxAwake, MaxRuns} \subseteq Nat \ {0}
  /\ FocusedInterval <= VisibleInterval
  /\ MaxSleep \in Nat

VARIABLES
  live,      \* the repositories with a live watcher group
  focus,     \* focusedRepoRootKey
  repos,     \* the scheduler's repos: Untracked or a RepoState
  runs,      \* the runGroupReconcile calls under way
  sleeps     \* how much of its bound is used

vars == <<live, focus, repos, runs, sleeps>>

Never == MaxBackoff + VisibleInterval + 1   \* NEGATIVE_INFINITY, and anything as old

Untracked == [vis |-> "none", dirty |-> FALSE, inFlight |-> FALSE, age |-> Never, lastDuration |-> 0]
Tracked(r) == repos[r].vis # "none"

TypeOK ==
  /\ live \subseteq Root /\ focus \in Root \cup {NoRoot}
  /\ repos \in [Root -> [vis : {"none", "focused", "visible"}, dirty : BOOLEAN, inFlight : BOOLEAN,
                         age : 0..Never, lastDuration : 0..Ceiling]]
  /\ runs \subseteq [repo : Root, awake : 0..MaxAwake, wall : Nat, mono : Nat, n : 1..MaxRuns]

Init ==
  /\ live = {} /\ focus = NoRoot
  /\ repos = [r \in Root |-> Untracked]
  /\ runs = {} /\ sleeps = 0

Least(a, b) == IF a <= b THEN a ELSE b
Most(a, b) == IF a >= b THEN a ELSE b

-----------------------------------------------------------------------------
(* The pure functions                                                      *)

\* computeEffectiveIntervalMs
EffectiveInterval(base, lastDuration) ==
  IF lastDuration = 0 THEN base
  ELSE Most(base, Least(lastDuration * BackoffFactor, MaxBackoff))

\* Mutation: the wall clock is believed.
Sanitized_WallOnly(wall, mono) == Least(wall, Ceiling)

\* sanitizeMeasuredDurationMs: the smaller clock, or nothing above the ceiling.
Sanitized(wall, mono) == IF Least(wall, mono) > Ceiling THEN 0 ELSE Least(wall, mono)

Base(vis) == IF vis = "focused" THEN FocusedInterval ELSE VisibleInterval

\* Mutation: the gap is measured against twice the cadence.
Due_Late(s) ==
  ~s.inFlight /\ (s.dirty \/ s.age >= 2 * EffectiveInterval(Base(s.vis), s.lastDuration))

\* tick, for one repository
Due(s) ==
  /\ ~s.inFlight
  /\ s.dirty \/ s.age >= EffectiveInterval(Base(s.vis), s.lastDuration)

-----------------------------------------------------------------------------
(* The host                                                                *)

\* Time passes: everything ages, on both clocks.
Older(s, d) == [s EXCEPT !.age = Least(@ + d, Never)]

\* setTaskState for each live group, removeTask for the others: a new repository
\* has never been reconciled, a removed one is forgotten.
Membership(r) ==
  IF r \in live THEN [Older(repos[r], IF Tracked(r) THEN 1 ELSE 0) EXCEPT
                         !.vis = IF focus = r THEN "focused" ELSE "visible"]
  ELSE Untracked

\* onReconcileStart: the dirty mark is consumed.
Started(s) == [s EXCEPT !.inFlight = TRUE, !.dirty = FALSE]

RunsOf(r) == {x \in runs : x.repo = r}
Spare(r) == (1..MaxRuns) \ {x.n : x \in RunsOf(r)}

\* reconcileTick: membership first, then a run for each repository that is due.
Tick ==
  LET next == [r \in Root |-> Membership(r)]
      due == {r \in live : Due(next[r])} IN
  /\ \A x \in runs : x.awake < MaxAwake
  /\ \A r \in due : Spare(r) # {}
  /\ repos' = [r \in Root |-> IF r \in due THEN Started(next[r]) ELSE next[r]]
  /\ runs' = {[x EXCEPT !.awake = @ + 1, !.wall = @ + 1, !.mono = @ + 1] : x \in runs}
             \cup {[repo |-> r, awake |-> 0, wall |-> 0, mono |-> 0,
                    n |-> CHOOSE n \in Spare(r) : TRUE] : r \in due}
  /\ UNCHANGED <<live, focus, sleeps>>

\* Mutation: a run whose group has gone is not reported as done.
RunDone_OnlyIfLive(x) ==
  /\ x \in runs
  /\ runs' = runs \ {x}
  /\ repos' = IF Tracked(x.repo) /\ x.repo \in live
              THEN [repos EXCEPT ![x.repo] = [@ EXCEPT !.inFlight = FALSE, !.age = 0,
                                                       !.lastDuration = Sanitized(x.wall, x.mono)]]
              ELSE repos
  /\ UNCHANGED <<live, focus, sleeps>>

\* runGroupReconcile ends: onReconcileDone, for whatever the scheduler holds now.
RunDone(x) ==
  /\ x \in runs
  /\ runs' = runs \ {x}
  /\ repos' = IF Tracked(x.repo)
              THEN [repos EXCEPT ![x.repo] = [@ EXCEPT !.inFlight = FALSE, !.age = 0,
                                                       !.lastDuration = Sanitized(x.wall, x.mono)]]
              ELSE repos
  /\ UNCHANGED <<live, focus, sleeps>>

\* A watcher group appears or goes (MirrorWatcher).
GroupAppears(r) == r \notin live /\ live' = live \cup {r} /\ UNCHANGED <<focus, repos, runs, sleeps>>
GroupGoes(r) == r \in live /\ live' = live \ {r} /\ UNCHANGED <<focus, repos, runs, sleeps>>

\* reconcile-focus: the cwd is looked up in the groups of this moment, and the
\* repository found is marked dirty if the scheduler has it.
Focus(r) ==
  /\ focus' = IF r \in live THEN r ELSE NoRoot
  /\ repos' = IF r \in live /\ Tracked(r) THEN [repos EXCEPT ![r].dirty = TRUE] ELSE repos
  /\ UNCHANGED <<live, runs, sleeps>>

\* The system sleeps: the wall clock jumps, the monotonic one on some platforms.
Sleep ==
  /\ sleeps < MaxSleep
  /\ sleeps' = sleeps + 1
  /\ repos' = [r \in Root |-> Older(repos[r], IF Tracked(r) THEN SleepLength ELSE 0)]
  /\ \E counted \in {0, SleepLength} :
       runs' = {[x EXCEPT !.wall = @ + SleepLength, !.mono = @ + counted] : x \in runs}
  /\ UNCHANGED <<live, focus>>

Next ==
  \/ Tick \/ Sleep
  \/ \E x \in runs : RunDone(x)
  \/ \E r \in Root : GroupAppears(r) \/ GroupGoes(r)
  \/ \E r \in Root \cup {NoRoot} : Focus(r)

\* The worker's interval keeps firing and every git status ends, each of its own.
Fairness ==
  /\ WF_vars(Tick)
  /\ \A r \in Root, n \in 1..MaxRuns : WF_vars(\E x \in runs : x.repo = r /\ x.n = n /\ RunDone(x))

Spec == Init /\ [][Next]_vars
FairSpec == Spec /\ Fairness

-----------------------------------------------------------------------------
(* Properties                                                              *)

\* After each tick every live repository is being re-read or was re-read less
\* than its gap ago, whatever focus, sleeps, slow runs and re-attaches went before:
\* the bounded self-correction the heartbeat promises.
HeartbeatOnTime ==
  [][\A r \in live : Tick =>
       repos'[r].inFlight
       \/ repos'[r].age < Most(VisibleInterval, Most(FocusedInterval, MaxBackoff))]_vars

\* A repository the scheduler takes to be in flight has a run under way: a mark
\* left behind would stop its heartbeat for ever.
\* The state is well typed.
InFlightHonest == TypeOK /\ \A r \in Root : repos[r].inFlight => RunsOf(r) # {}

\* A run slept through is never taken for a slow one: the gap grows only with
\* time a run really took, or with a sleep too short to be told from one.
SleepIsNotSlow == [][\A x \in runs :
  RunDone(x) /\ Tracked(x.repo) /\ SleepLength > Ceiling => repos'[x.repo].lastDuration <= x.awake]_vars

\* A live repository is re-read again and again.
NeverStarves == \A r \in Root : []<>(r \notin live \/ (Tracked(r) /\ repos[r].age = 0))

=============================================================================
