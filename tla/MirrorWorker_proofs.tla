------------------------- MODULE MirrorWorker_proofs -------------------------
(***************************************************************************)
(* Proofs about the two parts of the mirror worker that keep a repository  *)
(* watched: the reconcile heartbeat and the watcher supervisor.            *)
(*                                                                         *)
(* Heartbeat (any repositories, intervals and run lengths, sleeps          *)
(* included): TypeOK is inductive but for one thing the code never says    *)
(* aloud, that what has left the scheduler left nothing behind, so a group *)
(* that comes back starts with no run in flight (Forgotten).  A run's two  *)
(* clocks only ever jump by a whole sleep, which is what makes the ceiling *)
(* a test for one (ClocksJump).                                            *)
(*                                                                         *)
(* Watcher supervisor (any directories and repositories, any bounds, every *)
(* behaviour): an attach during the await of a detach, and a second probe  *)
(* of a group before the first has answered, break what the properties say *)
(* of the cwd or the group they happen to.  What is proved is that nothing *)
(* else does, and that the damage stays there.  So each invariant is a     *)
(* global part, kept by every step, and a part for one cwd or one group,   *)
(* kept unless that one is marked.  A directory is absent, in a group,     *)
(* waiting for its attach, idle or leaving (Roster); a group with members  *)
(* is the one in the map (Serving); it is resting, attached or has exactly *)
(* one handler under way, which its flags match, while what it holds or    *)
(* opens is its own even when it is marked (Watching).  One lemma per      *)
(* action follows, most of them instances of one of two frames: a step of  *)
(* one directory, a step of one group.                                     *)
(***************************************************************************)
EXTENDS GitReconcileScheduler, MirrorWatcher, TLAPS

RepoState == [vis : {"none", "focused", "visible"}, dirty : BOOLEAN, inFlight : BOOLEAN,
              age : 0..Never, lastDuration : 0..Ceiling]
Run == [repo : Root, awake : 0..MaxAwake, wall : Nat, mono : Nat, n : 1..MaxRuns]

Forgotten == \A r \in Root : ~Tracked(r) => ~repos[r].inFlight

\* a clock shows the time awake, or that and at least one sleep
Jumps(clock, awake) == clock = awake \/ clock >= awake + SleepLength
ClocksJump == \A x \in runs : Jumps(x.wall, x.awake) /\ Jumps(x.mono, x.awake)

HasRun == \A r \in Root : repos[r].inFlight => RunsOf(r) # {}

IInv == TypeOK /\ Forgotten /\ ClocksJump /\ HasRun

-----------------------------------------------------------------------------
(* The pure functions *)

LEMMA ConstantTypes ==
  /\ FocusedInterval \in Nat /\ FocusedInterval > 0 /\ VisibleInterval \in Nat /\ VisibleInterval > 0
  /\ BackoffFactor \in Nat /\ MaxBackoff \in Nat /\ MaxBackoff > 0
  /\ Ceiling \in Nat /\ SleepLength \in Nat /\ SleepLength > 0
  /\ MaxAwake \in Nat /\ MaxAwake > 0 /\ MaxRuns \in Nat
  /\ NoRoot \notin Root /\ Never \in Nat /\ FocusedInterval <= VisibleInterval
BY ReconcileAssumption DEF Never

\* a gap is shorter than a repository's age when it was never reconciled, and at
\* most the longest of the two intervals and the backoff's cap
LEMMA GapBounded ==
  ASSUME NEW base \in {FocusedInterval, VisibleInterval}, NEW d \in Nat
  PROVE  EffectiveInterval(base, d) \in Nat
         /\ EffectiveInterval(base, d) <= Most(VisibleInterval, Most(FocusedInterval, MaxBackoff))
<1> DEFINE P == d * BackoffFactor
<1>1. P \in Int
  BY ConstantTypes
<1> HIDE DEF P
<1>2. Least(P, MaxBackoff) \in Int /\ Least(P, MaxBackoff) <= MaxBackoff
  BY <1>1, ConstantTypes DEF Least
<1>3. EffectiveInterval(base, d) = IF d = 0 THEN base ELSE Most(base, Least(P, MaxBackoff))
  BY DEF EffectiveInterval, P
<1> QED
  BY <1>2, <1>3, ConstantTypes DEF Most

LEMMA SanitizedBounded ==
  ASSUME NEW wall \in Nat, NEW mono \in Nat
  PROVE  Sanitized(wall, mono) \in 0..Ceiling
BY ConstantTypes DEF Sanitized, Least

\* with sleeps longer than the ceiling, what is believed is at most the time awake
LEMMA SanitizedHonest ==
  ASSUME NEW wall \in Nat, NEW mono \in Nat, NEW awake \in Nat, SleepLength > Ceiling,
         Jumps(wall, awake), Jumps(mono, awake)
  PROVE  Sanitized(wall, mono) <= awake
BY ConstantTypes DEF Sanitized, Least, Jumps

LEMMA OlderTyped ==
  ASSUME NEW s \in RepoState, NEW d \in Nat
  PROVE  /\ Older(s, d) \in RepoState
         /\ Older(s, d).inFlight = s.inFlight /\ Older(s, d).vis = s.vis
         /\ Older(s, d).dirty = s.dirty /\ Older(s, d).lastDuration = s.lastDuration
<1>1. Least(s.age + d, Never) \in 0..Never
  BY ConstantTypes DEF RepoState, Least
<1> QED
  BY <1>1 DEF Older, RepoState

-----------------------------------------------------------------------------
(* Each step *)

LEMMA TypeSplit ==
  TypeOK <=> /\ live \subseteq Root /\ focus \in Root \cup {NoRoot}
             /\ repos \in [Root -> RepoState] /\ runs \subseteq Run
BY DEF TypeOK, RepoState, Run

LEMMA InitIInv == Init => IInv
<1> SUFFICES ASSUME Init PROVE IInv
  OBVIOUS
<1>1. Untracked \in RepoState
  BY ConstantTypes DEF Untracked, RepoState
<1>2. TypeOK
  BY <1>1, TypeSplit DEF Init
<1>3. \A r \in Root : ~repos[r].inFlight
  BY DEF Init, Untracked
<1> QED
  BY <1>2, <1>3 DEF IInv, Forgotten, ClocksJump, HasRun, Init

\* what the scheduler holds of a repository once the groups are told it
LEMMA MembershipTyped ==
  ASSUME IInv, NEW r \in Root
  PROVE  /\ Membership(r) \in RepoState
         /\ r \in live => /\ Membership(r).vis \in {"focused", "visible"}
                           /\ Membership(r).inFlight = repos[r].inFlight
         /\ r \notin live => Membership(r) = Untracked
<1>1. repos[r] \in RepoState
  BY TypeSplit DEF IInv
<1>2. CASE r \notin live
  <2>1. Untracked \in RepoState
    BY ConstantTypes DEF Untracked, RepoState
  <2> QED
    BY <1>2, <2>1 DEF Membership
<1>3. CASE r \in live
  <2> DEFINE d == IF Tracked(r) THEN 1 ELSE 0
             v == IF focus = r THEN "focused" ELSE "visible"
  <2>1. d \in Nat /\ v \in {"focused", "visible"}
    OBVIOUS
  <2> HIDE DEF d, v
  <2>2. Membership(r) = [Older(repos[r], d) EXCEPT !.vis = v]
    BY <1>3 DEF Membership, d, v
  <2>3. Older(repos[r], d) \in RepoState /\ Older(repos[r], d).inFlight = repos[r].inFlight
    BY <1>1, <2>1, OlderTyped
  <2> QED
    BY <1>3, <2>1, <2>2, <2>3 DEF RepoState
<1> QED
  BY <1>2, <1>3

\* a step that changes the runs' clocks only
LEMMA TickStep == IInv /\ Tick => IInv'
<1> SUFFICES ASSUME IInv, Tick PROVE IInv'
  OBVIOUS
<1> DEFINE next == [r \in Root |-> Membership(r)]
           due == {r \in live : Due(next[r])}
           Aged(x) == [x EXCEPT !.awake = @ + 1, !.wall = @ + 1, !.mono = @ + 1]
           New(r) == [repo |-> r, awake |-> 0, wall |-> 0, mono |-> 0,
                      n |-> CHOOSE n \in Spare(r) : TRUE]
<1>t. /\ live \subseteq Root /\ focus \in Root \cup {NoRoot}
      /\ repos \in [Root -> RepoState] /\ runs \subseteq Run
  BY TypeSplit DEF IInv
<1>a. /\ \A x \in runs : x.awake < MaxAwake
      /\ \A r \in due : Spare(r) # {}
      /\ repos' = [r \in Root |-> IF r \in due THEN Started(next[r]) ELSE next[r]]
      /\ runs' = {Aged(x) : x \in runs} \cup {New(r) : r \in due}
      /\ live' = live /\ focus' = focus
  BY DEF Tick
<1>d. due \subseteq Root
  BY <1>t
<1>n. \A r \in Root : next[r] = Membership(r)
  OBVIOUS
<1> HIDE DEF next, due
<1>1. \A x \in runs : /\ Aged(x) \in Run /\ Aged(x).repo = x.repo /\ Aged(x).awake = x.awake + 1
                      /\ Aged(x).wall = x.wall + 1 /\ Aged(x).mono = x.mono + 1
  <2> TAKE x \in runs
  <2>1. x \in Run /\ x.awake < MaxAwake
    BY <1>t, <1>a
  <2>2. x.awake + 1 \in 0..MaxAwake /\ x.wall + 1 \in Nat /\ x.mono + 1 \in Nat
    BY <2>1, ConstantTypes DEF Run
  <2> QED
    BY <2>1, <2>2 DEF Run
<1>2. \A r \in due : /\ New(r) \in Run /\ New(r).repo = r /\ New(r).awake = 0
                     /\ New(r).wall = 0 /\ New(r).mono = 0
  <2> TAKE r \in due
  <2>1. (CHOOSE n \in Spare(r) : TRUE) \in 1..MaxRuns
    BY <1>a DEF Spare
  <2> QED
    BY <2>1, <1>d, ConstantTypes DEF Run
<1> HIDE DEF Aged, New
<1>3. runs' \subseteq Run
  BY <1>a, <1>1, <1>2
<1>4. \A r \in Root : /\ repos'[r] \in RepoState
                      /\ r \notin live => repos'[r] = Untracked
                      /\ r \in live => repos'[r].vis # "none"
                      /\ r \notin due /\ repos'[r].inFlight => repos[r].inFlight
  <2> TAKE r \in Root
  <2>1. /\ next[r] \in RepoState
        /\ r \in live => /\ next[r].vis \in {"focused", "visible"}
                          /\ next[r].inFlight = repos[r].inFlight
        /\ r \notin live => next[r] = Untracked
    BY <1>n, MembershipTyped
  <2>2. CASE r \in due
    <3>1. r \in live
      BY <2>2 DEF due
    <3>2. repos'[r] = Started(next[r])
      BY <1>a, <2>2
    <3>3. Started(next[r]) \in RepoState /\ Started(next[r]).vis = next[r].vis
      BY <2>1 DEF Started, RepoState
    <3> QED
      BY <3>1, <3>2, <3>3, <2>1, <2>2
  <2>3. CASE r \notin due
    <3>1. repos'[r] = next[r]
      BY <1>a, <2>3
    <3>2. ~Untracked.inFlight
      BY DEF Untracked
    <3> QED
      BY <3>1, <3>2, <2>1, <2>3
  <2> QED
    BY <2>2, <2>3
<1>5. TypeOK'
  <2>1. repos' \in [Root -> RepoState]
    BY <1>a, <1>4
  <2>2. live' \subseteq Root /\ focus' \in Root \cup {NoRoot}
    BY <1>t, <1>a
  <2> QED
    BY <2>1, <2>2, <1>3 DEF TypeOK, RepoState, Run
<1>6. Forgotten'
  BY <1>4 DEF Forgotten, Tracked, Untracked
<1>7. ClocksJump'
  <2> SUFFICES ASSUME NEW y \in runs'
               PROVE  Jumps(y.wall, y.awake) /\ Jumps(y.mono, y.awake)
    BY DEF ClocksJump, Jumps
  <2>1. CASE \E x \in runs : y = Aged(x)
    <3>1. PICK x \in runs : y = Aged(x)
      BY <2>1
    <3>2. x \in Run /\ Jumps(x.wall, x.awake) /\ Jumps(x.mono, x.awake)
      BY <1>t DEF IInv, ClocksJump
    <3>3. y.awake = x.awake + 1 /\ y.wall = x.wall + 1 /\ y.mono = x.mono + 1
      BY <3>1, <1>1
    <3> QED
      BY <3>2, <3>3, ConstantTypes DEF Jumps, Run
  <2>2. CASE \E r \in due : y = New(r)
    BY <2>2, <1>2 DEF Jumps
  <2> QED
    BY <2>1, <2>2, <1>a
<1>8. HasRun'
  <2> SUFFICES ASSUME NEW r \in Root, repos'[r].inFlight
               PROVE  \E y \in runs' : y.repo = r
    BY DEF HasRun, RunsOf
  <2>1. CASE r \in due
    BY <2>1, <1>2, <1>a
  <2>2. CASE r \notin due
    <3>1. repos[r].inFlight
      BY <2>2, <1>4
    <3>2. PICK x \in runs : x.repo = r
      BY <3>1 DEF IInv, HasRun, RunsOf
    <3> QED
      BY <3>2, <1>1, <1>a
  <2> QED
    BY <2>1, <2>2
<1> QED
  BY <1>5, <1>6, <1>7, <1>8 DEF IInv

LEMMA SleepStep == IInv /\ Sleep => IInv'
<1> SUFFICES ASSUME IInv, Sleep PROVE IInv'
  OBVIOUS
<1>t. /\ live \subseteq Root /\ focus \in Root \cup {NoRoot}
      /\ repos \in [Root -> RepoState] /\ runs \subseteq Run
  BY TypeSplit DEF IInv
<1>1. PICK counted \in {0, SleepLength} :
        runs' = {[x EXCEPT !.wall = @ + SleepLength, !.mono = @ + counted] : x \in runs}
  BY DEF Sleep
<1> DEFINE Later(x) == [x EXCEPT !.wall = @ + SleepLength, !.mono = @ + counted]
<1>2. \A x \in runs : /\ Later(x) \in Run /\ Later(x).repo = x.repo /\ Later(x).awake = x.awake
                      /\ Later(x).wall = x.wall + SleepLength /\ Later(x).mono = x.mono + counted
  <2> TAKE x \in runs
  <2>1. x \in Run
    BY <1>t
  <2>2. x.wall + SleepLength \in Nat /\ x.mono + counted \in Nat
    BY <2>1, ConstantTypes DEF Run
  <2> QED
    BY <2>1, <2>2 DEF Run
<1>3. runs' = {Later(x) : x \in runs}
  BY <1>1
<1> HIDE DEF Later
<1>4. \A r \in Root : /\ repos'[r] \in RepoState
                      /\ repos'[r].inFlight = repos[r].inFlight /\ repos'[r].vis = repos[r].vis
  <2> TAKE r \in Root
  <2>1. repos[r] \in RepoState
    BY <1>t
  <2>2. repos'[r] = Older(repos[r], IF Tracked(r) THEN SleepLength ELSE 0)
    BY DEF Sleep
  <2>3. (IF Tracked(r) THEN SleepLength ELSE 0) \in Nat
    BY ConstantTypes
  <2> QED
    BY <2>1, <2>2, <2>3, OlderTyped
<1>5. TypeOK'
  <2>1. repos' \in [Root -> RepoState]
    BY <1>4 DEF Sleep
  <2>2. live' \subseteq Root /\ focus' \in Root \cup {NoRoot} /\ runs' \subseteq Run
    BY <1>t, <1>2, <1>3 DEF Sleep
  <2> QED
    BY <2>1, <2>2 DEF TypeOK, RepoState, Run
<1>6. Forgotten'
  BY <1>4 DEF Forgotten, Tracked, IInv
<1>7. ClocksJump'
  <2> SUFFICES ASSUME NEW y \in runs'
               PROVE  Jumps(y.wall, y.awake) /\ Jumps(y.mono, y.awake)
    BY DEF ClocksJump, Jumps
  <2>1. PICK x \in runs : y = Later(x)
    BY <1>3
  <2>2. x \in Run /\ Jumps(x.wall, x.awake) /\ Jumps(x.mono, x.awake)
    BY <1>t DEF IInv, ClocksJump
  <2>3. y.awake = x.awake /\ y.wall = x.wall + SleepLength /\ y.mono = x.mono + counted
    BY <2>1, <1>2
  <2> QED
    BY <2>2, <2>3, ConstantTypes DEF Jumps, Run
<1>8. HasRun'
  <2> SUFFICES ASSUME NEW r \in Root, repos'[r].inFlight
               PROVE  \E y \in runs' : y.repo = r
    BY DEF HasRun, RunsOf
  <2>1. PICK x \in runs : x.repo = r
    BY <1>4 DEF IInv, HasRun, RunsOf
  <2> QED
    BY <2>1, <1>2, <1>3
<1> QED
  BY <1>5, <1>6, <1>7, <1>8 DEF IInv

\* what onReconcileDone makes of a tracked repository
LEMMA DoneTyped ==
  ASSUME IInv, NEW x \in runs, Tracked(x.repo), RunDone(x)
  PROVE  /\ repos' \in [Root -> RepoState]
         /\ repos'[x.repo].lastDuration = Sanitized(x.wall, x.mono)
         /\ ~repos'[x.repo].inFlight /\ repos'[x.repo].vis = repos[x.repo].vis
         /\ \A r \in Root \ {x.repo} : repos'[r] = repos[r]
<1>t. repos \in [Root -> RepoState] /\ x \in Run
  BY TypeSplit DEF IInv
<1> DEFINE r == x.repo
           s == [repos[r] EXCEPT !.inFlight = FALSE, !.age = 0,
                                 !.lastDuration = Sanitized(x.wall, x.mono)]
<1>1. r \in Root /\ repos[r] \in RepoState
  BY <1>t DEF Run
<1>2. Sanitized(x.wall, x.mono) \in 0..Ceiling
  BY <1>t, SanitizedBounded DEF Run
<1>3. /\ s \in RepoState /\ ~s.inFlight /\ s.vis = repos[r].vis
      /\ s.lastDuration = Sanitized(x.wall, x.mono)
  <2>1. 0 \in 0..Never
    BY ConstantTypes
  <2>2. \A q \in RepoState, d \in 0..Ceiling :
          LET e == [q EXCEPT !.inFlight = FALSE, !.age = 0, !.lastDuration = d]
          IN e \in RepoState /\ ~e.inFlight /\ e.vis = q.vis /\ e.lastDuration = d
    BY <2>1 DEF RepoState
  <2> QED
    BY <1>1, <1>2, <2>2
<1>4. repos' = [repos EXCEPT ![r] = s]
  BY DEF RunDone
<1> HIDE DEF s
<1> QED
  BY <1>1, <1>3, <1>4, <1>t

LEMMA RunDoneStep == ASSUME IInv, NEW x \in runs, RunDone(x) PROVE IInv'
<1>t. /\ live \subseteq Root /\ focus \in Root \cup {NoRoot}
      /\ repos \in [Root -> RepoState] /\ runs \subseteq Run
  BY TypeSplit DEF IInv
<1>1. x.repo \in Root
  BY <1>t DEF Run
<1>a. runs' = runs \ {x} /\ live' = live /\ focus' = focus
  BY DEF RunDone
<1>2. /\ repos' \in [Root -> RepoState] /\ ~repos'[x.repo].inFlight
      /\ \A r \in Root \ {x.repo} : repos'[r] = repos[r]
  <2>1. CASE Tracked(x.repo)
    BY <2>1, DoneTyped
  <2>2. CASE ~Tracked(x.repo)
    <3>1. repos' = repos
      BY <2>2 DEF RunDone
    <3>2. ~repos[x.repo].inFlight
      BY <2>2, <1>1 DEF IInv, Forgotten
    <3> QED
      BY <3>1, <3>2, <1>t
  <2> QED
    BY <2>1, <2>2
<1>3. TypeOK'
  BY <1>2, <1>a, <1>t DEF TypeOK, RepoState, Run
<1>4. Forgotten'
  BY <1>2 DEF IInv, Forgotten, Tracked
<1>5. ClocksJump'
  BY <1>a DEF IInv, ClocksJump, Jumps
<1>6. HasRun'
  <2> SUFFICES ASSUME NEW r \in Root, repos'[r].inFlight
               PROVE  \E y \in runs' : y.repo = r
    BY DEF HasRun, RunsOf
  <2>1. r # x.repo /\ repos[r].inFlight
    BY <1>2
  <2>2. PICK y \in runs : y.repo = r
    BY <2>1 DEF IInv, HasRun, RunsOf
  <2> QED
    BY <2>1, <2>2, <1>a
<1> QED
  BY <1>3, <1>4, <1>5, <1>6 DEF IInv

LEMMA FocusStep ==
  ASSUME IInv, NEW r \in Root \cup {NoRoot}, Focus(r)
  PROVE  IInv'
<1>t. /\ live \subseteq Root /\ focus \in Root \cup {NoRoot}
      /\ repos \in [Root -> RepoState] /\ runs \subseteq Run
  BY TypeSplit DEF IInv
<1>a. runs' = runs /\ live' = live /\ focus' \in Root \cup {NoRoot}
  BY <1>t DEF Focus
<1>1. /\ repos' \in [Root -> RepoState]
      /\ \A q \in Root : repos'[q].inFlight = repos[q].inFlight /\ repos'[q].vis = repos[q].vis
  <2>1. CASE r \in live /\ Tracked(r)
    <3> DEFINE s == [repos[r] EXCEPT !.dirty = TRUE]
    <3>1. r \in Root /\ repos[r] \in RepoState
      BY <2>1, <1>t
    <3>2. s \in RepoState /\ s.inFlight = repos[r].inFlight /\ s.vis = repos[r].vis
      BY <3>1 DEF RepoState
    <3>3. repos' = [repos EXCEPT ![r] = s]
      BY <2>1 DEF Focus
    <3> HIDE DEF s
    <3> QED
      BY <3>1, <3>2, <3>3, <1>t
  <2>2. CASE ~(r \in live /\ Tracked(r))
    BY <2>2, <1>t DEF Focus
  <2> QED
    BY <2>1, <2>2
<1>2. TypeOK'
  BY <1>1, <1>a, <1>t DEF TypeOK, RepoState, Run
<1>3. Forgotten' /\ HasRun'
  BY <1>1, <1>a DEF IInv, Forgotten, HasRun, Tracked, RunsOf
<1>4. ClocksJump'
  BY <1>a DEF IInv, ClocksJump, Jumps
<1> QED
  BY <1>2, <1>3, <1>4 DEF IInv

LEMMA GroupStep ==
  ASSUME IInv, live' \subseteq Root, UNCHANGED <<focus, repos, runs>>
  PROVE  IInv'
BY DEF IInv, TypeOK, Forgotten, ClocksJump, HasRun, Tracked, RunsOf, Jumps

LEMMA NextIInv == IInv /\ [Next]_vars => IInv'
<1> SUFFICES ASSUME IInv, [Next]_vars PROVE IInv'
  OBVIOUS
<1>t. live \subseteq Root
  BY DEF IInv, TypeOK
<1>1. CASE Tick
  BY <1>1, TickStep
<1>2. CASE Sleep
  BY <1>2, SleepStep
<1>3. CASE \E x \in runs : RunDone(x)
  BY <1>3, RunDoneStep
<1>4. CASE \E r \in Root : GroupAppears(r) \/ GroupGoes(r)
  BY <1>4, <1>t, GroupStep DEF GroupAppears, GroupGoes
<1>5. CASE \E r \in Root \cup {NoRoot} : Focus(r)
  BY <1>5, FocusStep
<1>6. CASE UNCHANGED vars
  BY <1>6, <1>t, GroupStep DEF vars
<1> QED
  BY <1>1, <1>2, <1>3, <1>4, <1>5, <1>6 DEF Next

-----------------------------------------------------------------------------
(* The theorems *)

\* The invariant the other theorems rest on.
THEOREM Invariant == Spec => []IInv
BY InitIInv, NextIInv, PTL DEF Spec

\* The state is well typed, and a repository the scheduler takes to be in flight
\* has a run under way (onReconcileStart, onReconcileDone, removeTask): whatever
\* re-attaches, sleeps and overlapping runs there were, no mark is left behind to
\* stop its heartbeat.
THEOREM InFlightTheorem == Spec => []InFlightHonest
<1>1. IInv => InFlightHonest
  BY DEF IInv, HasRun, InFlightHonest
<1> QED
  BY <1>1, Invariant, PTL

LEMMA NextOnTime == IInv /\ [Next]_vars => [\A r \in live : Tick =>
       repos'[r].inFlight
       \/ repos'[r].age < Most(VisibleInterval, Most(FocusedInterval, MaxBackoff))]_vars
<1> SUFFICES ASSUME IInv, Tick, NEW r \in live
             PROVE  repos'[r].inFlight
                    \/ repos'[r].age < Most(VisibleInterval, Most(FocusedInterval, MaxBackoff))
  OBVIOUS
<1> DEFINE next == [q \in Root |-> Membership(q)]
           due == {q \in live : Due(next[q])}
           s == Membership(r)
<1>1. r \in Root
  BY DEF IInv, TypeOK
<1>2. repos'[r] = IF r \in due THEN Started(s) ELSE s
  BY <1>1 DEF Tick
<1>3. r \in due <=> Due(s)
  BY <1>1
<1>4. s \in RepoState
  BY <1>1, MembershipTyped
<1> HIDE DEF s, next, due
<1>5. CASE r \in due
  BY <1>2, <1>4, <1>5 DEF Started, RepoState
<1>6. CASE r \notin due
  <2> DEFINE gap == EffectiveInterval(Base(s.vis), s.lastDuration)
  <2>1. gap \in Nat /\ gap <= Most(VisibleInterval, Most(FocusedInterval, MaxBackoff))
    <3>1. Base(s.vis) \in {FocusedInterval, VisibleInterval} /\ s.lastDuration \in Nat
      BY <1>4, ConstantTypes DEF Base, RepoState
    <3> QED
      BY <3>1, GapBounded
  <2>2. s.inFlight \/ ~(s.age >= gap)
    BY <1>3, <1>6 DEF Due
  <2>3. s.age \in Int
    BY <1>4, ConstantTypes DEF RepoState
  <2>4. Most(VisibleInterval, Most(FocusedInterval, MaxBackoff)) \in Nat
    BY ConstantTypes DEF Most
  <2> HIDE DEF gap
  <2> QED
    BY <1>2, <1>6, <2>1, <2>2, <2>3, <2>4
<1> QED
  BY <1>5, <1>6

\* After each tick (tick, computeEffectiveIntervalMs) a live repository is being
\* re-read or was within its gap, and no gap exceeds the longest interval.
THEOREM OnTimeTheorem == Spec => HeartbeatOnTime
BY NextOnTime, Invariant, PTL DEF Spec, HeartbeatOnTime

LEMMA NextNotSlow == IInv /\ [Next]_vars => [\A x \in runs :
  RunDone(x) /\ Tracked(x.repo) /\ SleepLength > Ceiling => repos'[x.repo].lastDuration <= x.awake]_vars
<1> SUFFICES ASSUME IInv, NEW x \in runs, RunDone(x), Tracked(x.repo), SleepLength > Ceiling
             PROVE  repos'[x.repo].lastDuration <= x.awake
  OBVIOUS
<1>1. repos'[x.repo].lastDuration = Sanitized(x.wall, x.mono)
  BY DoneTyped
<1>2. x \in Run /\ Jumps(x.wall, x.awake) /\ Jumps(x.mono, x.awake)
  BY TypeSplit DEF IInv, ClocksJump
<1>3. x.wall \in Nat /\ x.mono \in Nat /\ x.awake \in Nat
  BY <1>2, ConstantTypes DEF Run
<1> QED
  BY <1>1, <1>2, <1>3, SanitizedHonest

\* A run slept through is never taken for a slow one (sanitizeMeasuredDurationMs):
\* with sleeps longer than the ceiling the gap grows with time awake only.
THEOREM NotSlowTheorem == Spec => SleepIsNotSlow
BY NextNotSlow, Invariant, PTL DEF Spec, SleepIsNotSlow

-----------------------------------------------------------------------------
(* The watcher supervisor: records and operands *)


EntryRec == [cwd : Cwd, known : BOOLEAN, attached : BOOLEAN, attaching : BOOLEAN,
             detaching : BOOLEAN, group : Repo \cup {NoRepo}, busy : BOOLEAN,
             queued : BOOLEAN, debounce : BOOLEAN]
GroupRec == [repo : Repo, members : SUBSET Cwd, dispose : Nat, attaching : BOOLEAN,
             health : Healths, restart : BOOLEAN, poll : BOOLEAN, probe : BOOLEAN]
SubStates == {"opening", "live", "closing", "closed"}

\* A suspended handler holds the objects its kind needs, out of E entries, G
\* groups and S subscriptions.
Recomputes == {"attach", "revalidate", "recompute"}
OpTyped(o, E, G, S) ==
  /\ o.kind \in OpKinds
  /\ o.kind \in Recomputes => o.e \in 1..E /\ o.g = 0 /\ o.s = 0
  /\ o.kind = "detach" => o.e \in 1..E /\ o.g = 0 /\ o.s \in 1..S /\ o.x \in Repo \cup {NoRepo}
  /\ o.kind \in {"access", "probe"} => o.e = 0 /\ o.g \in 1..G /\ o.s = 0
  /\ o.kind \in {"subscribe", "fault", "suspend"} => o.e = 0 /\ o.g \in 1..G /\ o.s \in 1..S

WorldTyped ==
  /\ wanted \in [Cwd -> BOOLEAN]
  /\ pathUp \subseteq Repo
EntriesTyped ==
  /\ entry \in Seq(EntryRec) /\ Len(entry) <= MaxEntry
  /\ entries \in [Cwd -> 0..Len(entry)]
  /\ keyOf \in [Cwd -> Repo \cup {NoRepo}]
GroupsTyped ==
  /\ group \in Seq(GroupRec) /\ Len(group) <= MaxGroup
  /\ groups \in [Repo -> 0..Len(group)]
  /\ \A g \in Groups : group[g].dispose <= Len(sub)
SubsTyped == sub \in Seq(SubStates) /\ Len(sub) <= MaxSub
OpsTyped == \A o \in ops : OpTyped(o, Len(entry), Len(group), Len(sub))

Typed == WorldTyped /\ EntriesTyped /\ GroupsTyped /\ SubsTyped /\ OpsTyped

-----------------------------------------------------------------------------
(* Sequences of objects *)

Put(G, g, a) == [G EXCEPT ![g] = a]

LEMMA SeqAdd ==
  ASSUME NEW T, NEW G \in Seq(T), NEW a \in T, NEW F, F = Append(G, a)
  PROVE  /\ F \in Seq(T) /\ Len(F) = Len(G) + 1 /\ F[Len(G) + 1] = a
         /\ \A h \in 1..Len(G) : F[h] = G[h]
OBVIOUS

\* F is G but for the object g.
ButFor(T, G, F, g) ==
  /\ F \in Seq(T) /\ Len(F) = Len(G)
  /\ \A h \in 1..Len(G) : h # g => F[h] = G[h]

LEMMA PutAt ==
  ASSUME NEW T, NEW G \in Seq(T), NEW g \in 1..Len(G), NEW a \in T
  PROVE  ButFor(T, G, Put(G, g, a), g) /\ Put(G, g, a)[g] = a
BY DEF Put, ButFor

LEMMA ButForTwice ==
  ASSUME NEW T, NEW G \in Seq(T), NEW F, NEW H, NEW g, ButFor(T, G, F, g), ButFor(T, F, H, g)
  PROVE  ButFor(T, G, H, g)
BY DEF ButFor

-----------------------------------------------------------------------------
(* What each operator does to a group *)

\* Nothing but the state of its subscription changes.
Keeps(a, b) == b \in GroupRec /\ b.repo = a.repo /\ b.members = a.members

\* The unnamed updates of a group.
Freed(G, g) == [G EXCEPT ![g].attaching = FALSE]
Quiet(G, g) == [G EXCEPT ![g].restart = FALSE, ![g].poll = FALSE]
Released(G, g) == [G EXCEPT ![g].dispose = 0]
Healthy(G, g, s) ==
  [G EXCEPT ![g].dispose = s, ![g].poll = FALSE, ![g].probe = FALSE, ![g].health = "healthy"]

LEMMA FreedGroup ==
  ASSUME NEW G \in Seq(GroupRec), NEW g \in 1..Len(G), NEW F,
         F = Freed(G, g)
  PROVE  /\ ButFor(GroupRec, G, F, g) /\ Keeps(G[g], F[g])
         /\ ~F[g].attaching
         /\ F[g].dispose = G[g].dispose /\ F[g].restart = G[g].restart /\ F[g].poll = G[g].poll
         /\ F[g].probe = G[g].probe /\ F[g].health = G[g].health
<1> DEFINE a == [G[g] EXCEPT !.attaching = FALSE]
<1>1. G[g] \in GroupRec
  OBVIOUS
<1>2. /\ a \in GroupRec /\ a.repo = G[g].repo /\ a.members = G[g].members /\ ~a.attaching
      /\ a.dispose = G[g].dispose /\ a.restart = G[g].restart /\ a.poll = G[g].poll
      /\ a.probe = G[g].probe /\ a.health = G[g].health
  BY <1>1 DEF GroupRec
<1>3. F = Put(G, g, a)
  BY DEF Put, Freed
<1> HIDE DEF a
<1>4. ButFor(GroupRec, G, F, g) /\ F[g] = a
  BY <1>2, <1>3, PutAt
<1> QED
  BY <1>2, <1>4 DEF Keeps

LEMMA EnsuredGroup ==
  ASSUME NEW G \in Seq(GroupRec), NEW g \in 1..Len(G), NEW health \in Healths, NEW F,
         F = Ensured(G, g, health), ~G[g].attaching
  PROVE  /\ ButFor(GroupRec, G, F, g) /\ Keeps(G[g], F[g])
         /\ F[g].attaching /\ ~F[g].restart /\ F[g].health = health
         /\ F[g].dispose = G[g].dispose /\ F[g].poll = G[g].poll /\ F[g].probe = G[g].probe
<1> DEFINE a == [G[g] EXCEPT !.attaching = TRUE, !.restart = FALSE, !.health = health]
<1>1. G[g] \in GroupRec
  OBVIOUS
<1>2. /\ a \in GroupRec /\ a.repo = G[g].repo /\ a.members = G[g].members
      /\ a.attaching /\ ~a.restart /\ a.health = health
      /\ a.dispose = G[g].dispose /\ a.poll = G[g].poll /\ a.probe = G[g].probe
  BY <1>1 DEF GroupRec
<1>3. F = Put(G, g, a)
  BY DEF Put, Ensured
<1> HIDE DEF a
<1>4. ButFor(GroupRec, G, F, g) /\ F[g] = a
  BY <1>2, <1>3, PutAt
<1> QED
  BY <1>2, <1>4 DEF Keeps

LEMMA SuspendedGroup ==
  ASSUME NEW G \in Seq(GroupRec), NEW g \in 1..Len(G), NEW F, F = Suspended(G, g)
  PROVE  /\ ButFor(GroupRec, G, F, g) /\ Keeps(G[g], F[g])
         /\ F[g].probe /\ F[g].health = "suspended"
         /\ F[g].attaching = G[g].attaching /\ F[g].restart = G[g].restart
         /\ F[g].dispose = G[g].dispose /\ F[g].poll = G[g].poll
<1> DEFINE a == [G[g] EXCEPT !.health = "suspended", !.probe = TRUE]
<1>1. G[g] \in GroupRec
  OBVIOUS
<1>2. /\ a \in GroupRec /\ a.repo = G[g].repo /\ a.members = G[g].members
      /\ a.probe /\ a.health = "suspended" /\ a.attaching = G[g].attaching
      /\ a.restart = G[g].restart /\ a.dispose = G[g].dispose /\ a.poll = G[g].poll
  BY <1>1 DEF GroupRec, Healths
<1>3. F = Put(G, g, a)
  BY DEF Put, Suspended
<1> HIDE DEF a
<1>4. ButFor(GroupRec, G, F, g) /\ F[g] = a
  BY <1>2, <1>3, PutAt
<1> QED
  BY <1>2, <1>4 DEF Keeps

LEMMA DegradedGroup ==
  ASSUME NEW G \in Seq(GroupRec), NEW g \in 1..Len(G), NEW F, F = Degraded(G, g)
  PROVE  /\ ButFor(GroupRec, G, F, g) /\ Keeps(G[g], F[g])
         /\ F[g].health = "degraded-polling"
         /\ (F[g].restart <=> G[g].restart \/ G[g].members # {})
         /\ F[g].attaching = G[g].attaching /\ F[g].probe = G[g].probe
         /\ F[g].dispose = G[g].dispose
<1> DEFINE b == G[g].restart \/ G[g].members # {}
           a == [G[g] EXCEPT !.health = "degraded-polling", !.poll = TRUE, !.restart = b]
<1>1. G[g] \in GroupRec /\ b \in BOOLEAN
  OBVIOUS
<1>2. F = Put(G, g, a)
  BY DEF Put, Degraded
<1> HIDE DEF b
<1>3. /\ a \in GroupRec /\ a.repo = G[g].repo /\ a.members = G[g].members
      /\ a.health = "degraded-polling" /\ a.restart = b /\ a.attaching = G[g].attaching
      /\ a.probe = G[g].probe /\ a.dispose = G[g].dispose
  BY <1>1 DEF GroupRec, Healths
<1> HIDE DEF a
<1>4. ButFor(GroupRec, G, F, g) /\ F[g] = a
  BY <1>2, <1>3, PutAt
<1> QED
  BY <1>3, <1>4 DEF Keeps, b

LEMMA QuietGroup ==
  ASSUME NEW G \in Seq(GroupRec), NEW g \in 1..Len(G), NEW F,
         F = Quiet(G, g)
  PROVE  /\ ButFor(GroupRec, G, F, g) /\ Keeps(G[g], F[g])
         /\ ~F[g].restart /\ F[g].attaching = G[g].attaching /\ F[g].probe = G[g].probe
         /\ F[g].dispose = G[g].dispose /\ F[g].health = G[g].health
<1> DEFINE a == [G[g] EXCEPT !.restart = FALSE, !.poll = FALSE]
<1>1. G[g] \in GroupRec
  OBVIOUS
<1>2. /\ a \in GroupRec /\ a.repo = G[g].repo /\ a.members = G[g].members
      /\ ~a.restart /\ a.attaching = G[g].attaching /\ a.probe = G[g].probe
      /\ a.dispose = G[g].dispose /\ a.health = G[g].health
  BY <1>1 DEF GroupRec
<1>3. F = Put(G, g, a)
  BY DEF Put, Quiet
<1> HIDE DEF a
<1>4. ButFor(GroupRec, G, F, g) /\ F[g] = a
  BY <1>2, <1>3, PutAt
<1> QED
  BY <1>2, <1>4 DEF Keeps

LEMMA ReleasedGroup ==
  ASSUME NEW G \in Seq(GroupRec), NEW g \in 1..Len(G), NEW F,
         F = Released(G, g)
  PROVE  /\ ButFor(GroupRec, G, F, g) /\ Keeps(G[g], F[g])
         /\ F[g].dispose = 0 /\ F[g].attaching = G[g].attaching /\ F[g].restart = G[g].restart
         /\ F[g].probe = G[g].probe /\ F[g].health = G[g].health
<1> DEFINE a == [G[g] EXCEPT !.dispose = 0]
<1>1. G[g] \in GroupRec
  OBVIOUS
<1>2. /\ a \in GroupRec /\ a.repo = G[g].repo /\ a.members = G[g].members
      /\ a.dispose = 0 /\ a.attaching = G[g].attaching /\ a.restart = G[g].restart
      /\ a.probe = G[g].probe /\ a.health = G[g].health
  BY <1>1 DEF GroupRec
<1>3. F = Put(G, g, a)
  BY DEF Put, Released
<1> HIDE DEF a
<1>4. ButFor(GroupRec, G, F, g) /\ F[g] = a
  BY <1>2, <1>3, PutAt
<1> QED
  BY <1>2, <1>4 DEF Keeps

LEMMA HealthyGroup ==
  ASSUME NEW G \in Seq(GroupRec), NEW g \in 1..Len(G), NEW s \in Nat, NEW F,
         F = Healthy(G, g, s)
  PROVE  /\ ButFor(GroupRec, G, F, g) /\ Keeps(G[g], F[g])
         /\ F[g].dispose = s /\ ~F[g].probe /\ F[g].health = "healthy"
         /\ F[g].attaching = G[g].attaching /\ F[g].restart = G[g].restart
<1> DEFINE a == [G[g] EXCEPT !.dispose = s, !.poll = FALSE, !.probe = FALSE, !.health = "healthy"]
<1>1. G[g] \in GroupRec
  OBVIOUS
<1>2. /\ a \in GroupRec /\ a.repo = G[g].repo /\ a.members = G[g].members
      /\ a.dispose = s /\ ~a.probe /\ a.health = "healthy"
      /\ a.attaching = G[g].attaching /\ a.restart = G[g].restart
  BY <1>1 DEF GroupRec, Healths
<1>3. F = Put(G, g, a)
  BY DEF Put, Healthy
<1> HIDE DEF a
<1>4. ButFor(GroupRec, G, F, g) /\ F[g] = a
  BY <1>2, <1>3, PutAt
<1> QED
  BY <1>2, <1>4 DEF Keeps

-----------------------------------------------------------------------------
(* What each operator does to an entry *)

\* Only the recompute slots of the entry change.
SameRole(a, b) ==
  /\ b.cwd = a.cwd /\ b.group = a.group
  /\ b.attached = a.attached /\ b.attaching = a.attaching /\ b.detaching = a.detaching

\* The unnamed updates of an entry.
Queue(E, e) == [E EXCEPT ![e].queued = TRUE]
Begin(E, e) == [E EXCEPT ![e].busy = TRUE]
Undebounce(E, e) == [E EXCEPT ![e].debounce = FALSE]
Clean(E, e) == [E EXCEPT ![e].queued = FALSE, ![e].debounce = FALSE]
Resumed(E, e) == [E EXCEPT ![e].detaching = FALSE]
Wait(E, e) == [E EXCEPT ![e].detaching = FALSE, ![e].attaching = TRUE]
EndWait(E, e) == [E EXCEPT ![e].attaching = FALSE]
Join(E, e, r) == [E EXCEPT ![e].group = r, ![e].attaching = FALSE, ![e].attached = TRUE]
Drop(E, e) == [E EXCEPT ![e].attached = FALSE]
Leave(E, e) == [E EXCEPT ![e].group = NoRepo]

LEMMA QueuedEntry ==
  ASSUME NEW E \in Seq(EntryRec), NEW e \in 1..Len(E), NEW F,
         F = Queue(E, e)
  PROVE  /\ ButFor(EntryRec, E, F, e)
         /\ SameRole(E[e], F[e])
<1> DEFINE a == [E[e] EXCEPT !.queued = TRUE]
<1>1. E[e] \in EntryRec
  OBVIOUS
<1>2. /\ a \in EntryRec
      /\ SameRole(E[e], a)
  BY <1>1 DEF EntryRec, SameRole
<1>3. F = Put(E, e, a)
  BY DEF Put, Queue
<1> HIDE DEF a
<1>4. ButFor(EntryRec, E, F, e) /\ F[e] = a
  BY <1>2, <1>3, PutAt
<1> QED
  BY <1>2, <1>4

LEMMA BegunEntry ==
  ASSUME NEW E \in Seq(EntryRec), NEW e \in 1..Len(E), NEW F,
         F = Begin(E, e)
  PROVE  /\ ButFor(EntryRec, E, F, e)
         /\ SameRole(E[e], F[e])
<1> DEFINE a == [E[e] EXCEPT !.busy = TRUE]
<1>1. E[e] \in EntryRec
  OBVIOUS
<1>2. /\ a \in EntryRec
      /\ SameRole(E[e], a)
  BY <1>1 DEF EntryRec, SameRole
<1>3. F = Put(E, e, a)
  BY DEF Put, Begin
<1> HIDE DEF a
<1>4. ButFor(EntryRec, E, F, e) /\ F[e] = a
  BY <1>2, <1>3, PutAt
<1> QED
  BY <1>2, <1>4

LEMMA UndebouncedEntry ==
  ASSUME NEW E \in Seq(EntryRec), NEW e \in 1..Len(E), NEW F,
         F = Undebounce(E, e)
  PROVE  /\ ButFor(EntryRec, E, F, e)
         /\ SameRole(E[e], F[e])
<1> DEFINE a == [E[e] EXCEPT !.debounce = FALSE]
<1>1. E[e] \in EntryRec
  OBVIOUS
<1>2. /\ a \in EntryRec
      /\ SameRole(E[e], a)
  BY <1>1 DEF EntryRec, SameRole
<1>3. F = Put(E, e, a)
  BY DEF Put, Undebounce
<1> HIDE DEF a
<1>4. ButFor(EntryRec, E, F, e) /\ F[e] = a
  BY <1>2, <1>3, PutAt
<1> QED
  BY <1>2, <1>4

LEMMA CleanEntry ==
  ASSUME NEW E \in Seq(EntryRec), NEW e \in 1..Len(E), NEW F,
         F = Clean(E, e)
  PROVE  /\ ButFor(EntryRec, E, F, e)
         /\ SameRole(E[e], F[e])
<1> DEFINE a == [E[e] EXCEPT !.queued = FALSE, !.debounce = FALSE]
<1>1. E[e] \in EntryRec
  OBVIOUS
<1>2. /\ a \in EntryRec
      /\ SameRole(E[e], a)
  BY <1>1 DEF EntryRec, SameRole
<1>3. F = Put(E, e, a)
  BY DEF Put, Clean
<1> HIDE DEF a
<1>4. ButFor(EntryRec, E, F, e) /\ F[e] = a
  BY <1>2, <1>3, PutAt
<1> QED
  BY <1>2, <1>4

LEMMA ResumedEntry ==
  ASSUME NEW E \in Seq(EntryRec), NEW e \in 1..Len(E), NEW F,
         F = Resumed(E, e)
  PROVE  /\ ButFor(EntryRec, E, F, e)
         /\ F[e].cwd = E[e].cwd /\ F[e].group = E[e].group /\ F[e].attached = E[e].attached
         /\ F[e].attaching = E[e].attaching /\ ~F[e].detaching /\ F[e].known = E[e].known
<1> DEFINE a == [E[e] EXCEPT !.detaching = FALSE]
<1>1. E[e] \in EntryRec
  OBVIOUS
<1>2. /\ a \in EntryRec
      /\ a.cwd = E[e].cwd /\ a.group = E[e].group /\ a.attached = E[e].attached
      /\ a.attaching = E[e].attaching /\ ~a.detaching /\ a.known = E[e].known
  BY <1>1 DEF EntryRec, SameRole
<1>3. F = Put(E, e, a)
  BY DEF Put, Resumed
<1> HIDE DEF a
<1>4. ButFor(EntryRec, E, F, e) /\ F[e] = a
  BY <1>2, <1>3, PutAt
<1> QED
  BY <1>2, <1>4

LEMMA WaitingEntry ==
  ASSUME NEW E \in Seq(EntryRec), NEW e \in 1..Len(E), NEW F,
         F = Wait(E, e)
  PROVE  /\ ButFor(EntryRec, E, F, e)
         /\ F[e].cwd = E[e].cwd /\ F[e].group = E[e].group /\ F[e].attached = E[e].attached
         /\ F[e].attaching /\ ~F[e].detaching /\ F[e].known = E[e].known
<1> DEFINE a == [E[e] EXCEPT !.detaching = FALSE, !.attaching = TRUE]
<1>1. E[e] \in EntryRec
  OBVIOUS
<1>2. /\ a \in EntryRec
      /\ a.cwd = E[e].cwd /\ a.group = E[e].group /\ a.attached = E[e].attached
      /\ a.attaching /\ ~a.detaching /\ a.known = E[e].known
  BY <1>1 DEF EntryRec, SameRole
<1>3. F = Put(E, e, a)
  BY DEF Put, Wait
<1> HIDE DEF a
<1>4. ButFor(EntryRec, E, F, e) /\ F[e] = a
  BY <1>2, <1>3, PutAt
<1> QED
  BY <1>2, <1>4

LEMMA EndedEntry ==
  ASSUME NEW E \in Seq(EntryRec), NEW e \in 1..Len(E), NEW F,
         F = EndWait(E, e)
  PROVE  /\ ButFor(EntryRec, E, F, e)
         /\ F[e].cwd = E[e].cwd /\ F[e].group = E[e].group /\ F[e].attached = E[e].attached
         /\ ~F[e].attaching /\ F[e].detaching = E[e].detaching /\ F[e].known = E[e].known
<1> DEFINE a == [E[e] EXCEPT !.attaching = FALSE]
<1>1. E[e] \in EntryRec
  OBVIOUS
<1>2. /\ a \in EntryRec
      /\ a.cwd = E[e].cwd /\ a.group = E[e].group /\ a.attached = E[e].attached
      /\ ~a.attaching /\ a.detaching = E[e].detaching /\ a.known = E[e].known
  BY <1>1 DEF EntryRec, SameRole
<1>3. F = Put(E, e, a)
  BY DEF Put, EndWait
<1> HIDE DEF a
<1>4. ButFor(EntryRec, E, F, e) /\ F[e] = a
  BY <1>2, <1>3, PutAt
<1> QED
  BY <1>2, <1>4

LEMMA JoinedEntry ==
  ASSUME NEW E \in Seq(EntryRec), NEW e \in 1..Len(E), NEW F, NEW r \in Repo,
         F = Join(E, e, r)
  PROVE  /\ ButFor(EntryRec, E, F, e)
         /\ F[e].cwd = E[e].cwd /\ F[e].group = r /\ F[e].attached
         /\ ~F[e].attaching /\ F[e].detaching = E[e].detaching /\ F[e].known = E[e].known
<1> DEFINE a == [E[e] EXCEPT !.group = r, !.attaching = FALSE, !.attached = TRUE]
<1>1. E[e] \in EntryRec
  OBVIOUS
<1>2. /\ a \in EntryRec
      /\ a.cwd = E[e].cwd /\ a.group = r /\ a.attached
      /\ ~a.attaching /\ a.detaching = E[e].detaching /\ a.known = E[e].known
  BY <1>1 DEF EntryRec, SameRole
<1>3. F = Put(E, e, a)
  BY DEF Put, Join
<1> HIDE DEF a
<1>4. ButFor(EntryRec, E, F, e) /\ F[e] = a
  BY <1>2, <1>3, PutAt
<1> QED
  BY <1>2, <1>4

LEMMA DroppedEntry ==
  ASSUME NEW E \in Seq(EntryRec), NEW e \in 1..Len(E), NEW F,
         F = Drop(E, e)
  PROVE  /\ ButFor(EntryRec, E, F, e)
         /\ F[e].cwd = E[e].cwd /\ F[e].group = E[e].group /\ ~F[e].attached
         /\ F[e].attaching = E[e].attaching /\ F[e].detaching = E[e].detaching /\ F[e].known = E[e].known
<1> DEFINE a == [E[e] EXCEPT !.attached = FALSE]
<1>1. E[e] \in EntryRec
  OBVIOUS
<1>2. /\ a \in EntryRec
      /\ a.cwd = E[e].cwd /\ a.group = E[e].group /\ ~a.attached
      /\ a.attaching = E[e].attaching /\ a.detaching = E[e].detaching /\ a.known = E[e].known
  BY <1>1 DEF EntryRec, SameRole
<1>3. F = Put(E, e, a)
  BY DEF Put, Drop
<1> HIDE DEF a
<1>4. ButFor(EntryRec, E, F, e) /\ F[e] = a
  BY <1>2, <1>3, PutAt
<1> QED
  BY <1>2, <1>4

LEMMA LeftEntry ==
  ASSUME NEW E \in Seq(EntryRec), NEW e \in 1..Len(E), NEW F,
         F = Leave(E, e)
  PROVE  /\ ButFor(EntryRec, E, F, e)
         /\ F[e].cwd = E[e].cwd /\ F[e].group = NoRepo /\ F[e].attached = E[e].attached
         /\ F[e].attaching = E[e].attaching /\ F[e].detaching = E[e].detaching /\ F[e].known = E[e].known
<1> DEFINE a == [E[e] EXCEPT !.group = NoRepo]
<1>1. E[e] \in EntryRec
  OBVIOUS
<1>2. /\ a \in EntryRec
      /\ a.cwd = E[e].cwd /\ a.group = NoRepo /\ a.attached = E[e].attached
      /\ a.attaching = E[e].attaching /\ a.detaching = E[e].detaching /\ a.known = E[e].known
  BY <1>1 DEF EntryRec, SameRole
<1>3. F = Put(E, e, a)
  BY DEF Put, Leave
<1> HIDE DEF a
<1>4. ButFor(EntryRec, E, F, e) /\ F[e] = a
  BY <1>2, <1>3, PutAt
<1> QED
  BY <1>2, <1>4

LEMMA DetachingEntry ==
  ASSUME entry \in Seq(EntryRec), NEW e \in 1..Len(entry), NEW F, F = Detaching(e)
  PROVE  /\ ButFor(EntryRec, entry, F, e)
         /\ F[e].cwd = entry[e].cwd /\ F[e].group = entry[e].group
         /\ F[e].attached = entry[e].attached /\ F[e].attaching = entry[e].attaching
         /\ F[e].detaching
<1> DEFINE a == [entry[e] EXCEPT !.detaching = TRUE, !.queued = FALSE, !.debounce = FALSE]
<1>1. entry[e] \in EntryRec
  OBVIOUS
<1>2. /\ a \in EntryRec /\ a.cwd = entry[e].cwd /\ a.group = entry[e].group
      /\ a.attached = entry[e].attached /\ a.attaching = entry[e].attaching /\ a.detaching
  BY <1>1 DEF EntryRec
<1>3. F = Put(entry, e, a)
  BY DEF Put, Detaching
<1> HIDE DEF a
<1>4. ButFor(EntryRec, entry, F, e) /\ F[e] = a
  BY <1>2, <1>3, PutAt
<1> QED
  BY <1>2, <1>4

LEMMA RecomputedEntry ==
  ASSUME entry \in Seq(EntryRec), NEW e \in 1..Len(entry), NEW found \in BOOLEAN,
         NEW F, F = Recomputed(e, found)
  PROVE  /\ ButFor(EntryRec, entry, F, e) /\ SameRole(entry[e], F[e])
         /\ ~entry[e].detaching => F[e].known = found
<1> DEFINE k == IF entry[e].detaching THEN entry[e].known ELSE found
           q == entry[e].queued /\ entry[e].detaching
           b == entry[e].debounce \/ (entry[e].queued /\ ~entry[e].detaching)
           a == [entry[e] EXCEPT !.busy = FALSE, !.known = k, !.queued = q, !.debounce = b]
<1>1. entry[e] \in EntryRec
  OBVIOUS
<1>2. k \in BOOLEAN /\ q \in BOOLEAN /\ b \in BOOLEAN /\ (~entry[e].detaching => k = found)
  BY <1>1 DEF EntryRec
<1>3. F = Put(entry, e, a)
  BY DEF Put, Recomputed
<1> HIDE DEF k, q, b
<1>4. a \in EntryRec /\ SameRole(entry[e], a) /\ a.known = k
  BY <1>1, <1>2 DEF EntryRec, SameRole
<1> HIDE DEF a
<1>5. ButFor(EntryRec, entry, F, e) /\ F[e] = a
  BY <1>3, <1>4, PutAt
<1> QED
  BY <1>2, <1>4, <1>5

-----------------------------------------------------------------------------
(* What handling a fault does, whatever the state of the group             *)

\* Only group g and its handlers change: at most one handler is added, to
\* await the unsubscribe of what the group was attached to.
Settles(G, S, O, g) ==
  /\ ButFor(GroupRec, G, group', g) /\ Keeps(G[g], group'[g])
  /\ group'[g].dispose \in {0, G[g].dispose}
  /\ sub' \in Seq(SubStates) /\ Len(sub') = Len(S)
  /\ O \subseteq ops'
  /\ \A o \in ops' \ O : /\ o.kind \in {"fault", "suspend"} /\ o.e = 0 /\ o.g = g
                         /\ o.s = G[g].dispose /\ o.s # 0

LEMMA ButForSame ==
  ASSUME NEW T, NEW G \in Seq(T), NEW g
  PROVE  ButFor(T, G, G, g)
BY DEF ButFor

LEMMA KeepsSame ==
  ASSUME NEW a \in GroupRec
  PROVE  Keeps(a, a)
BY DEF Keeps

LEMMA KeepsTwice ==
  ASSUME NEW a, NEW b, NEW c, Keeps(a, b), Keeps(b, c)
  PROVE  Keeps(a, c)
BY DEF Keeps

LEMMA ClosedSub ==
  ASSUME NEW S \in Seq(SubStates), NEW s \in 1..Len(S), NEW z \in SubStates
  PROVE  /\ [S EXCEPT ![s] = z] \in Seq(SubStates) /\ Len([S EXCEPT ![s] = z]) = Len(S)
         /\ [S EXCEPT ![s] = z][s] = z
         /\ \A t \in 1..Len(S) : t # s => [S EXCEPT ![s] = z][t] = S[t]
OBVIOUS

LEMMA DisposeNat ==
  ASSUME NEW G \in Seq(GroupRec), NEW g \in 1..Len(G)
  PROVE  /\ G[g] \in GroupRec /\ G[g].dispose \in Nat /\ G[g].members \subseteq Cwd
         /\ G[g].repo \in Repo /\ G[g].health \in Healths
         /\ {G[g].attaching, G[g].restart, G[g].poll, G[g].probe} \subseteq BOOLEAN
<1>1. G[g] \in GroupRec
  OBVIOUS
<1> QED
  BY <1>1 DEF GroupRec

LEMMA AfterDisposeSettles ==
  ASSUME NEW G \in Seq(GroupRec), NEW g \in 1..Len(G), NEW S \in Seq(SubStates),
         G[g].dispose <= Len(S), NEW O, NEW cause, AfterDispose(G, S, O, g, cause)
  PROVE  Settles(G, S, O, g)
<1>1. CASE cause # "path-missing" /\ group' = Degraded(G, g) /\ sub' = S /\ ops' = O
  BY <1>1, DegradedGroup DEF Settles
<1>2. CASE cause = "path-missing"
  <2> DEFINE H == Quiet(G, g)
  <2>1. /\ ButFor(GroupRec, G, H, g) /\ Keeps(G[g], H[g]) /\ H[g].dispose = G[g].dispose
        /\ H \in Seq(GroupRec) /\ g \in 1..Len(H)
    BY QuietGroup DEF ButFor
  <2>2. \/ H[g].dispose = 0 /\ group' = Suspended(H, g) /\ sub' = S /\ ops' = O
        \/ /\ H[g].dispose # 0
           /\ group' = Released(H, g)
           /\ sub' = [S EXCEPT ![H[g].dispose] = "closing"]
           /\ ops' = O \cup {Op("suspend", 0, g, H[g].dispose, NoRepo)}
    BY <1>2 DEF AfterDispose, Quiet, Released
  <2> HIDE DEF H
  <2>3. CASE H[g].dispose = 0 /\ group' = Suspended(H, g) /\ sub' = S /\ ops' = O
    <3>1. ButFor(GroupRec, H, group', g) /\ Keeps(H[g], group'[g]) /\ group'[g].dispose = H[g].dispose
      BY <2>1, <2>3, SuspendedGroup
    <3> QED
      BY <2>1, <2>3, <3>1, ButForTwice, KeepsTwice DEF Settles
  <2>4. CASE /\ H[g].dispose # 0
             /\ group' = Released(H, g)
             /\ sub' = [S EXCEPT ![H[g].dispose] = "closing"]
             /\ ops' = O \cup {Op("suspend", 0, g, H[g].dispose, NoRepo)}
    <3>1. ButFor(GroupRec, H, group', g) /\ Keeps(H[g], group'[g]) /\ group'[g].dispose = 0
      BY <2>1, <2>4, ReleasedGroup
    <3>2. G[g].dispose \in 1..Len(S)
      BY <2>1, <2>4, DisposeNat
    <3>3. sub' \in Seq(SubStates) /\ Len(sub') = Len(S)
      BY <2>1, <2>4, <3>2, ClosedSub DEF SubStates
    <3>4. ButFor(GroupRec, G, group', g) /\ Keeps(G[g], group'[g])
      BY <2>1, <3>1, ButForTwice, KeepsTwice
    <3> QED
      BY <2>1, <2>4, <3>1, <3>3, <3>4 DEF Settles, Op
  <2> QED
    BY <2>2, <2>3, <2>4
<1> QED
  BY <1>1, <1>2 DEF AfterDispose

LEMMA FaultSettles ==
  ASSUME NEW G \in Seq(GroupRec), NEW g \in 1..Len(G), NEW S \in Seq(SubStates),
         G[g].dispose <= Len(S), NEW O, NEW cause, Fault(G, S, O, g, cause)
  PROVE  Settles(G, S, O, g)
<1>1. CASE group' = G /\ sub' = S /\ ops' = O
  BY <1>1, ButForSame, KeepsSame, DisposeNat DEF Settles
<1>2. CASE AfterDispose(G, S, O, g, cause)
  BY <1>2, AfterDisposeSettles
<1>3. CASE /\ G[g].dispose # 0
           /\ group' = Released(G, g)
           /\ sub' = [S EXCEPT ![G[g].dispose] = "closing"]
           /\ ops' = O \cup {Op("fault", 0, g, G[g].dispose, cause)}
  <2>1. ButFor(GroupRec, G, group', g) /\ Keeps(G[g], group'[g]) /\ group'[g].dispose = 0
    BY <1>3, ReleasedGroup
  <2>2. G[g].dispose \in 1..Len(S)
    BY <1>3, DisposeNat
  <2>3. sub' \in Seq(SubStates) /\ Len(sub') = Len(S)
    BY <1>3, <2>2, ClosedSub DEF SubStates
  <2> QED
    BY <1>3, <2>1, <2>3 DEF Settles, Op
<1> QED
  BY <1>1, <1>2, <1>3 DEF Fault, Released

-----------------------------------------------------------------------------
(* Every step keeps the state well typed                                   *)

LEMMA OpGrows ==
  ASSUME NEW o, NEW E \in Nat, NEW G \in Nat, NEW S \in Nat, OpTyped(o, E, G, S),
         NEW E1 \in Nat, NEW G1 \in Nat, NEW S1 \in Nat, E <= E1, G <= G1, S <= S1
  PROVE  OpTyped(o, E1, G1, S1)
BY DEF OpTyped

LEMMA TypedStep ==
  ASSUME Typed, WorldTyped',
         entry' \in Seq(EntryRec), Len(entry) <= Len(entry'), Len(entry') <= MaxEntry,
         entries' \in [Cwd -> 0..Len(entry')], keyOf' \in [Cwd -> Repo \cup {NoRepo}],
         group' \in Seq(GroupRec), Len(group) <= Len(group'), Len(group') <= MaxGroup,
         groups' \in [Repo -> 0..Len(group')],
         \A g \in 1..Len(group') : group'[g].dispose <= Len(sub'),
         sub' \in Seq(SubStates), Len(sub) <= Len(sub'), Len(sub') <= MaxSub,
         \A o \in ops' \ ops : OpTyped(o, Len(entry'), Len(group'), Len(sub'))
  PROVE  Typed'
<1>1. /\ Len(entry) \in Nat /\ Len(group) \in Nat /\ Len(sub) \in Nat
      /\ Len(entry') \in Nat /\ Len(group') \in Nat /\ Len(sub') \in Nat
  BY DEF Typed, EntriesTyped, GroupsTyped, SubsTyped
<1>2. OpsTyped'
  BY <1>1, OpGrows DEF Typed, OpsTyped
<1> QED
  BY <1>2 DEF Typed, EntriesTyped, GroupsTyped, SubsTyped, Groups

LEMMA TypedFacts ==
  ASSUME Typed
  PROVE  /\ entry \in Seq(EntryRec) /\ group \in Seq(GroupRec) /\ sub \in Seq(SubStates)
         /\ Len(entry) \in Nat /\ Len(group) \in Nat /\ Len(sub) \in Nat
         /\ Entries = 1..Len(entry) /\ Groups = 1..Len(group) /\ Subs = 1..Len(sub)
         /\ Len(entry) <= MaxEntry /\ Len(group) <= MaxGroup /\ Len(sub) <= MaxSub
         /\ entries \in [Cwd -> 0..Len(entry)] /\ keyOf \in [Cwd -> Repo \cup {NoRepo}]
         /\ groups \in [Repo -> 0..Len(group)]
         /\ \A g \in 1..Len(group) : group[g].dispose <= Len(sub)
         /\ \A o \in ops : OpTyped(o, Len(entry), Len(group), Len(sub))
         /\ \A e \in 1..Len(entry) : entry[e] \in EntryRec /\ entry[e].cwd \in Cwd
<1>1. entry \in Seq(EntryRec)
  BY DEF Typed, EntriesTyped
<1>2. \A e \in 1..Len(entry) : entry[e] \in EntryRec /\ entry[e].cwd \in Cwd
  <2> TAKE e \in 1..Len(entry)
  <2>1. entry[e] \in EntryRec
    BY <1>1
  <2> QED
    BY <2>1 DEF EntryRec
<1> QED
  BY <1>1, <1>2 DEF Typed, EntriesTyped, GroupsTyped, SubsTyped, OpsTyped, Entries, Groups, Subs

\* A step of group g's watcher: nothing of the entries or of the membership
\* changes, and every handler that comes or goes is one of a group.
WatcherStep(g) ==
  /\ UNCHANGED <<wanted, entries, entry, keyOf, groups>> /\ pathUp' \subseteq Repo
  /\ ButFor(GroupRec, group, group', g) /\ Keeps(group[g], group'[g])
  /\ group'[g].dispose <= Len(sub')
  /\ sub' \in Seq(SubStates) /\ Len(sub) <= Len(sub') /\ Len(sub') <= MaxSub
  /\ \A o \in ops' \ ops : o.e = 0 /\ OpTyped(o, Len(entry), Len(group), Len(sub'))
  /\ \A o \in ops \ ops' : o.e = 0

LEMMA WatcherStepTyped ==
  ASSUME Typed, NEW g \in 1..Len(group), WatcherStep(g)
  PROVE  Typed'
<1>0. /\ UNCHANGED <<wanted, entries, entry, keyOf, groups>> /\ pathUp' \subseteq Repo
      /\ ButFor(GroupRec, group, group', g) /\ group'[g].dispose <= Len(sub')
      /\ sub' \in Seq(SubStates) /\ Len(sub) <= Len(sub') /\ Len(sub') <= MaxSub
      /\ \A o \in ops' \ ops : OpTyped(o, Len(entry), Len(group), Len(sub'))
  BY DEF WatcherStep
<1>1. WorldTyped' /\ Len(sub) \in Nat /\ Len(sub') \in Nat
  BY <1>0, TypedFacts DEF Typed, WorldTyped
<1>2. group' \in Seq(GroupRec) /\ Len(group') = Len(group)
  BY <1>0 DEF ButFor
<1>3. \A h \in 1..Len(group') : group'[h].dispose <= Len(sub')
  <2> TAKE h \in 1..Len(group')
  <2>1. CASE h = g
    BY <1>0, <2>1
  <2>2. CASE h # g
    <3>1. group'[h] = group[h] /\ group[h].dispose \in Nat /\ group[h].dispose <= Len(sub)
      BY <1>0, <1>2, <2>2, TypedFacts, DisposeNat DEF ButFor
    <3> QED
      BY <1>0, <1>1, <3>1
  <2> QED
    BY <2>1, <2>2
<1> QED
  BY <1>0, <1>1, <1>2, <1>3, TypedStep, TypedFacts

LEMMA SettlesStep ==
  ASSUME Typed, NEW g \in 1..Len(group),
         UNCHANGED <<wanted, entries, entry, keyOf, groups>>, pathUp' \subseteq Repo,
         NEW O, O \subseteq ops, \A o \in ops \ O : o.e = 0,
         NEW S, S \in Seq(SubStates), Len(S) = Len(sub),
         NEW G, ButFor(GroupRec, group, G, g), Keeps(group[g], G[g]), G[g].dispose <= Len(sub),
         Settles(G, S, O, g)
  PROVE  WatcherStep(g)
<1>0. Len(sub) \in Nat /\ Len(sub) <= MaxSub
  BY TypedFacts
<1>1. G \in Seq(GroupRec) /\ g \in 1..Len(G)
  BY DEF ButFor
<1>2. G[g].dispose \in 0..Len(sub)
  BY <1>0, <1>1, DisposeNat
<1>3. /\ ButFor(GroupRec, group, group', g) /\ Keeps(group[g], group'[g])
      /\ group'[g].dispose <= Len(sub') /\ sub' \in Seq(SubStates) /\ Len(sub') = Len(sub)
  BY <1>0, <1>2, ButForTwice, KeepsTwice, TypedFacts DEF Settles
<1>4. \A o \in ops' \ ops : o.e = 0 /\ OpTyped(o, Len(entry), Len(group), Len(sub'))
  BY <1>0, <1>2, <1>3 DEF Settles, OpTyped, OpKinds, Recomputes
<1>5. \A o \in ops \ ops' : o.e = 0
  BY DEF Settles
<1> QED
  BY <1>0, <1>3, <1>4, <1>5 DEF WatcherStep

LEMMA AccessOp ==
  ASSUME NEW E \in Nat, NEW G \in Nat, NEW S \in Nat, NEW H, NEW g \in 1..G
  PROVE  \A o \in EnsureOps(H, g) : OpTyped(o, E, G, S) /\ o.kind = "access" /\ o.e = 0 /\ o.g = g
BY DEF EnsureOps, Op, OpTyped, OpKinds, Recomputes

\* EnsuredGroup without its hypothesis.
LEMMA EnsuredKeeps ==
  ASSUME NEW G \in Seq(GroupRec), NEW g \in 1..Len(G), NEW health \in Healths
  PROVE  LET F == Ensured(G, g, health) IN
         /\ ButFor(GroupRec, G, F, g) /\ Keeps(G[g], F[g]) /\ F[g].dispose = G[g].dispose
<1>1. CASE G[g].attaching
  BY <1>1, ButForSame, KeepsSame, DisposeNat DEF Ensured
<1>2. CASE ~G[g].attaching
  BY <1>2, EnsuredGroup
<1> QED
  BY <1>1, <1>2

LEMMA AccessStep ==
  ASSUME Typed, NEW o, AccessResumes(o)
  PROVE  o.g \in 1..Len(group) /\ WatcherStep(o.g)
<1> DEFINE g == o.g  F == Freed(group, g)
<1>1. /\ g \in 1..Len(group) /\ ops \ {o} \subseteq ops /\ pathUp' \subseteq Repo /\ o.e = 0
      /\ UNCHANGED <<wanted, entries, entry, keyOf, groups>>
  BY TypedFacts DEF AccessResumes, OpTyped, Typed, WorldTyped, env
<1>0. ButFor(GroupRec, group, F, g) /\ F[g].dispose = group[g].dispose /\ Keeps(group[g], F[g])
  BY <1>1, FreedGroup, TypedFacts
<1>2. /\ ButFor(GroupRec, group, F, g) /\ F[g].dispose = group[g].dispose
      /\ F \in Seq(GroupRec) /\ g \in 1..Len(F) /\ Keeps(group[g], F[g])
  BY <1>0, <1>1 DEF ButFor
<1>3. \/ Fault(F, sub, ops \ {o}, g, "path-missing")
      \/ group' = F /\ ops' = ops \ {o} /\ UNCHANGED sub
      \/ /\ Len(sub) < MaxSub
         /\ sub' = Append(sub, "opening")
         /\ ops' = (ops \ {o}) \cup {Op("subscribe", 0, g, Len(sub) + 1, NoRepo)}
         /\ UNCHANGED group
  BY DEF AccessResumes, Freed
<1> SUFFICES g \in 1..Len(group) /\ WatcherStep(g)
  OBVIOUS
<1> HIDE DEF g, F
<1>4. CASE Fault(F, sub, ops \ {o}, g, "path-missing")
  <2>1. Settles(F, sub, ops \ {o}, g)
    BY <1>1, <1>2, <1>4, FaultSettles, TypedFacts
  <2> QED
    BY <1>1, <1>2, <2>1, SettlesStep, TypedFacts
<1>5. CASE group' = F /\ ops' = ops \ {o} /\ UNCHANGED sub
  <2>1. F[g].dispose <= Len(sub) /\ \A p \in ops \ (ops \ {o}) : p.e = 0
    BY <1>1, <1>2, TypedFacts
  <2> QED
    BY <1>1, <1>2, <1>5, <2>1, TypedFacts DEF WatcherStep
<1>6. CASE /\ Len(sub) < MaxSub
           /\ sub' = Append(sub, "opening")
           /\ ops' = (ops \ {o}) \cup {Op("subscribe", 0, g, Len(sub) + 1, NoRepo)}
           /\ UNCHANGED group
  <2>1. sub' \in Seq(SubStates) /\ Len(sub') = Len(sub) + 1
    BY <1>6, SeqAdd, TypedFacts DEF SubStates
  <2>2. \A p \in ops' \ ops : p.e = 0 /\ OpTyped(p, Len(entry), Len(group), Len(sub'))
    BY <1>1, <1>6, <2>1, TypedFacts DEF Op, OpTyped, OpKinds, Recomputes
  <2>3. /\ ButFor(GroupRec, group, group', g) /\ Keeps(group[g], group'[g])
        /\ group'[g].dispose <= Len(sub) /\ group'[g].dispose \in Nat
    BY <1>1, <1>6, ButForSame, KeepsSame, TypedFacts, DisposeNat
  <2>4. Len(sub) <= Len(sub') /\ Len(sub') <= MaxSub /\ group'[g].dispose <= Len(sub')
    BY <1>1, <1>6, <2>1, <2>3, TypedFacts, WatchAssumption
  <2>5. \A p \in ops \ ops' : p.e = 0
    BY <1>1, <1>6
  <2> QED
    BY <1>1, <2>1, <2>2, <2>3, <2>4, <2>5 DEF WatcherStep
<1> QED
  BY <1>1, <1>3, <1>4, <1>5, <1>6

LEMMA SubscribeStep ==
  ASSUME Typed, NEW o, SubscribeResumes(o)
  PROVE  o.g \in 1..Len(group) /\ WatcherStep(o.g)
<1> DEFINE g == o.g  F == Freed(group, g)  S == [sub EXCEPT ![o.s] = "closed"]
<1>1. /\ g \in 1..Len(group) /\ ops \ {o} \subseteq ops /\ pathUp' \subseteq Repo /\ o.e = 0
      /\ UNCHANGED <<wanted, entries, entry, keyOf, groups>> /\ o.s \in 1..Len(sub)
  BY TypedFacts DEF SubscribeResumes, OpTyped, Typed, WorldTyped
<1>0. ButFor(GroupRec, group, F, g) /\ F[g].dispose = group[g].dispose /\ Keeps(group[g], F[g])
  BY <1>1, FreedGroup, TypedFacts
<1>2. /\ ButFor(GroupRec, group, F, g) /\ F[g].dispose = group[g].dispose
      /\ F \in Seq(GroupRec) /\ g \in 1..Len(F) /\ Keeps(group[g], F[g])
  BY <1>0, <1>1 DEF ButFor
<1>3. \/ group' = Healthy(F, g, o.s) /\ sub' = [sub EXCEPT ![o.s] = "live"] /\ ops' = ops \ {o}
      \/ group' = F /\ sub' = [sub EXCEPT ![o.s] = "closing"] /\ ops' = ops \ {o}
      \/ Fault(F, S, ops \ {o}, g, "subscribe-error")
  BY DEF SubscribeResumes, Freed, Healthy
<1>4. \A z \in SubStates : /\ [sub EXCEPT ![o.s] = z] \in Seq(SubStates)
                           /\ Len([sub EXCEPT ![o.s] = z]) = Len(sub)
  BY <1>1, ClosedSub, TypedFacts
<1>5. \A p \in ops \ (ops \ {o}) : p.e = 0
  BY <1>1
<1>6. S \in Seq(SubStates) /\ Len(S) = Len(sub) /\ Len(sub) \in Nat /\ Len(sub) <= MaxSub
  BY <1>4, TypedFacts DEF SubStates
<1> SUFFICES g \in 1..Len(group) /\ WatcherStep(g)
  OBVIOUS
<1> HIDE DEF g, F, S
<1>7. CASE group' = Healthy(F, g, o.s) /\ sub' = [sub EXCEPT ![o.s] = "live"] /\ ops' = ops \ {o}
  <2>1. sub' \in Seq(SubStates) /\ Len(sub') = Len(sub)
    BY <1>4, <1>7 DEF SubStates
  <2>2. /\ ButFor(GroupRec, F, group', g) /\ Keeps(F[g], group'[g]) /\ group'[g].dispose = o.s
    BY <1>1, <1>2, <1>7, HealthyGroup
  <2>3. ButFor(GroupRec, group, group', g) /\ Keeps(group[g], group'[g])
    BY <1>2, <2>2, ButForTwice, KeepsTwice, TypedFacts
  <2> QED
    BY <1>1, <1>5, <1>6, <1>7, <2>1, <2>2, <2>3 DEF WatcherStep
<1>8. CASE group' = F /\ sub' = [sub EXCEPT ![o.s] = "closing"] /\ ops' = ops \ {o}
  <2>1. sub' \in Seq(SubStates) /\ Len(sub') = Len(sub)
    BY <1>4, <1>8 DEF SubStates
  <2> QED
    BY <1>1, <1>2, <1>5, <1>6, <1>8, <2>1, TypedFacts DEF WatcherStep
<1>9. CASE Fault(F, S, ops \ {o}, g, "subscribe-error")
  <2>1. F[g].dispose <= Len(sub)
    BY <1>1, <1>2, TypedFacts
  <2>2. Settles(F, S, ops \ {o}, g)
    BY <1>2, <1>6, <1>9, <2>1, FaultSettles
  <2> QED
    BY <1>1, <1>2, <1>5, <1>6, <2>1, <2>2, SettlesStep
<1> QED
  BY <1>1, <1>3, <1>7, <1>8, <1>9

LEMMA FaultStep ==
  ASSUME Typed, NEW o, FaultResumes(o)
  PROVE  o.g \in 1..Len(group) /\ WatcherStep(o.g)
<1> DEFINE g == o.g
<1>1. /\ g \in 1..Len(group) /\ ops \ {o} \subseteq ops /\ pathUp' \subseteq Repo /\ o.e = 0
      /\ UNCHANGED <<wanted, entries, entry, keyOf, groups>>
  BY TypedFacts DEF FaultResumes, OpTyped, Typed, WorldTyped, env
<1>2. /\ ButFor(GroupRec, group, group, g) /\ Keeps(group[g], group[g])
      /\ group[g].dispose <= Len(sub)
  BY <1>1, ButForSame, KeepsSame, DisposeNat, TypedFacts
<1>3. \/ AfterDispose(group, sub, ops \ {o}, g, o.x)
      \/ group' = Suspended(group, g) /\ ops' = ops \ {o} /\ UNCHANGED sub
  BY DEF FaultResumes
<1>4. \A p \in ops \ (ops \ {o}) : p.e = 0
  BY <1>1
<1> SUFFICES g \in 1..Len(group) /\ WatcherStep(g)
  OBVIOUS
<1> HIDE DEF g
<1>5. CASE AfterDispose(group, sub, ops \ {o}, g, o.x)
  <2>1. Settles(group, sub, ops \ {o}, g)
    BY <1>1, <1>2, <1>5, AfterDisposeSettles, TypedFacts
  <2> QED
    BY <1>1, <1>2, <1>4, <2>1, SettlesStep, TypedFacts
<1>6. CASE group' = Suspended(group, g) /\ ops' = ops \ {o} /\ UNCHANGED sub
  <2>1. /\ ButFor(GroupRec, group, group', g) /\ Keeps(group[g], group'[g])
        /\ group'[g].dispose = group[g].dispose
    BY <1>1, <1>6, SuspendedGroup, TypedFacts
  <2> QED
    BY <1>1, <1>2, <1>4, <1>6, <2>1, TypedFacts DEF WatcherStep
<1> QED
  BY <1>1, <1>3, <1>5, <1>6

LEMMA CallbackStep ==
  ASSUME Typed, NEW g \in Groups, NEW s, NEW cause, CallbackError(g, s, cause)
  PROVE  g \in 1..Len(group) /\ WatcherStep(g)
<1>1. /\ g \in 1..Len(group) /\ pathUp' \subseteq Repo
      /\ UNCHANGED <<wanted, entries, entry, keyOf, groups>>
  BY TypedFacts DEF CallbackError, Typed, WorldTyped
<1>2. /\ ButFor(GroupRec, group, group, g) /\ Keeps(group[g], group[g])
      /\ group[g].dispose <= Len(sub)
  BY <1>1, ButForSame, KeepsSame, DisposeNat, TypedFacts
<1>3. Settles(group, sub, ops, g)
  BY <1>1, <1>2, FaultSettles, TypedFacts DEF CallbackError
<1> QED
  BY <1>1, <1>2, <1>3, SettlesStep, TypedFacts

LEMMA RestartStep ==
  ASSUME Typed, NEW g \in Groups, RestartFires(g)
  PROVE  g \in 1..Len(group) /\ WatcherStep(g)
<1> DEFINE G == [group EXCEPT ![g].restart = FALSE]
<1>1. /\ g \in 1..Len(group) /\ pathUp' \subseteq Repo /\ UNCHANGED sub
      /\ UNCHANGED <<wanted, entries, entry, keyOf, groups>>
  BY TypedFacts DEF RestartFires, Typed, WorldTyped, env
<1>2. /\ ButFor(GroupRec, group, G, g) /\ Keeps(group[g], G[g]) /\ G[g].dispose = group[g].dispose
  <2> DEFINE a == [group[g] EXCEPT !.restart = FALSE]
  <2>1. a \in GroupRec /\ Keeps(group[g], a) /\ a.dispose = group[g].dispose
    BY <1>1, DisposeNat, TypedFacts DEF GroupRec, Keeps
  <2>2. G = Put(group, g, a)
    BY DEF Put
  <2> HIDE DEF a, G
  <2> QED
    BY <1>1, <2>1, <2>2, PutAt, TypedFacts
<1>3. /\ group' = Ensured(G, g, "recovering") \/ group' = G
      /\ ops \subseteq ops' /\ \A o \in ops' \ ops : o \in EnsureOps(G, g)
  BY DEF RestartFires
<1> HIDE DEF G
<1>4. G \in Seq(GroupRec) /\ g \in 1..Len(G)
  BY <1>1, <1>2 DEF ButFor
<1>5. /\ ButFor(GroupRec, group, group', g) /\ Keeps(group[g], group'[g])
      /\ group'[g].dispose = group[g].dispose
  <2>1. CASE group' = G
    BY <1>2, <2>1
  <2>2. CASE group' = Ensured(G, g, "recovering")
    BY <1>2, <1>4, <2>2, EnsuredKeeps, ButForTwice, KeepsTwice, TypedFacts DEF Healths
  <2> QED
    BY <1>3, <2>1, <2>2
<1>6. \A o \in ops' \ ops : o.e = 0 /\ OpTyped(o, Len(entry), Len(group), Len(sub))
  <2> TAKE o \in ops' \ ops
  <2>1. o \in EnsureOps(G, g)
    BY <1>3
  <2>2. \A p \in EnsureOps(G, g) : p.e = 0 /\ OpTyped(p, Len(entry), Len(group), Len(sub))
    BY <1>1, AccessOp, TypedFacts
  <2> QED
    BY <2>1, <2>2
<1> QED
  BY <1>1, <1>3, <1>5, <1>6, TypedFacts DEF WatcherStep

LEMMA ProbeTickStep ==
  ASSUME Typed, NEW g \in Groups, ProbeTick(g)
  PROVE  g \in 1..Len(group) /\ WatcherStep(g)
<1>1. /\ g \in 1..Len(group) /\ pathUp' \subseteq Repo /\ UNCHANGED <<sub, group>>
      /\ UNCHANGED <<wanted, entries, entry, keyOf, groups>>
  BY TypedFacts DEF ProbeTick, Typed, WorldTyped, env
<1>2. ButFor(GroupRec, group, group, g) /\ Keeps(group[g], group[g])
  BY <1>1, ButForSame, KeepsSame, DisposeNat, TypedFacts
<1>3. PICK n : ops' = ops \cup {Op("probe", 0, g, 0, n)}
  BY DEF ProbeTick
<1>4. \A o \in ops' \ ops : o.e = 0 /\ OpTyped(o, Len(entry), Len(group), Len(sub))
  BY <1>1, <1>3, TypedFacts DEF Op, OpTyped, OpKinds, Recomputes
<1>5. group[g].dispose <= Len(sub) /\ \A o \in ops \ ops' : o.e = 0
  BY <1>1, <1>3, TypedFacts
<1> QED
  BY <1>1, <1>2, <1>4, <1>5, TypedFacts DEF WatcherStep

LEMMA ProbeResumesStep ==
  ASSUME Typed, NEW o, ProbeResumes(o)
  PROVE  o.g \in 1..Len(group) /\ WatcherStep(o.g)
<1> DEFINE g == o.g  G == [group EXCEPT ![g].probe = FALSE, ![g].health = "recovering"]
<1>1. /\ g \in 1..Len(group) /\ pathUp' \subseteq Repo /\ UNCHANGED sub /\ o.e = 0
      /\ UNCHANGED <<wanted, entries, entry, keyOf, groups>>
  BY TypedFacts DEF ProbeResumes, OpTyped, Typed, WorldTyped, env
<1>2. /\ ButFor(GroupRec, group, G, g) /\ Keeps(group[g], G[g]) /\ G[g].dispose = group[g].dispose
  <2> DEFINE a == [group[g] EXCEPT !.probe = FALSE, !.health = "recovering"]
  <2>1. a \in GroupRec /\ Keeps(group[g], a) /\ a.dispose = group[g].dispose
    <3>1. group[g] \in GroupRec
      BY <1>1, DisposeNat, TypedFacts
    <3> QED
      BY <3>1 DEF GroupRec, Keeps, Healths
  <2>2. G = Put(group, g, a)
    BY DEF Put
  <2> HIDE DEF a, G
  <2> QED
    BY <1>1, <2>1, <2>2, PutAt, TypedFacts
<1>3. /\ group' = Ensured(G, g, "recovering") \/ group' = G \/ group' = group
      /\ ops \ {o} \subseteq ops' /\ \A p \in ops' \ ops : p \in EnsureOps(G, g)
  BY DEF ProbeResumes
<1> SUFFICES g \in 1..Len(group) /\ WatcherStep(g)
  OBVIOUS
<1> HIDE DEF G, g
<1>4. G \in Seq(GroupRec) /\ g \in 1..Len(G)
  BY <1>1, <1>2 DEF ButFor
<1>5. /\ ButFor(GroupRec, group, group', g) /\ Keeps(group[g], group'[g])
      /\ group'[g].dispose = group[g].dispose
  <2>1. CASE group' = G
    BY <1>2, <2>1
  <2>2. CASE group' = Ensured(G, g, "recovering")
    BY <1>2, <1>4, <2>2, EnsuredKeeps, ButForTwice, KeepsTwice, TypedFacts DEF Healths
  <2>3. CASE group' = group
    BY <1>1, <2>3, ButForSame, KeepsSame, DisposeNat, TypedFacts
  <2> QED
    BY <1>3, <2>1, <2>2, <2>3
<1>6. \A p \in ops' \ ops : p.e = 0 /\ OpTyped(p, Len(entry), Len(group), Len(sub))
  BY <1>1, <1>3, AccessOp, TypedFacts
<1>7. \A p \in ops \ ops' : p.e = 0
  BY <1>1, <1>3
<1> QED
  BY <1>1, <1>5, <1>6, <1>7, TypedFacts DEF WatcherStep

LEMMA UnsubscribedTyped ==
  ASSUME Typed, NEW s \in Subs, Unsubscribed(s)
  PROVE  Typed'
<1>1. UNCHANGED <<wanted, pathUp, entries, entry, keyOf, groups, group, ops>>
  BY DEF Unsubscribed, env
<1>2. sub' \in Seq(SubStates) /\ Len(sub') = Len(sub)
  BY ClosedSub, TypedFacts DEF Unsubscribed, SubStates
<1> QED
  BY <1>1, <1>2 DEF Typed, WorldTyped, EntriesTyped, GroupsTyped, SubsTyped, OpsTyped, Groups

-----------------------------------------------------------------------------
(* What attaching and detaching do to the groups                           *)

\* Only the members of the group change.
SameWatch(a, b) ==
  /\ b.repo = a.repo /\ b.dispose = a.dispose /\ b.attaching = a.attaching
  /\ b.restart = a.restart /\ b.probe = a.probe /\ b.health = a.health

WithMembers(G, g, m) == [G EXCEPT ![g].members = m]
Cleared(G, g) ==
  [G EXCEPT ![g].restart = FALSE, ![g].poll = FALSE, ![g].probe = FALSE, ![g].dispose = 0]
Created(G, r, c) ==
  Ensured(Append(G, [NewGroup(r) EXCEPT !.members = {c}]), Len(G) + 1, "attaching")

LEMMA MembersGroup ==
  ASSUME NEW G \in Seq(GroupRec), NEW g \in 1..Len(G), NEW m \in SUBSET Cwd, NEW F,
         F = WithMembers(G, g, m)
  PROVE  /\ ButFor(GroupRec, G, F, g) /\ SameWatch(G[g], F[g])
         /\ F[g].members = m
<1> DEFINE a == [G[g] EXCEPT !.members = m]
<1>1. G[g] \in GroupRec
  OBVIOUS
<1>2. a \in GroupRec /\ SameWatch(G[g], a) /\ a.members = m
  BY <1>1 DEF GroupRec, SameWatch
<1>3. F = Put(G, g, a)
  BY DEF Put, WithMembers
<1> HIDE DEF a
<1>4. ButFor(GroupRec, G, F, g) /\ F[g] = a
  BY <1>2, <1>3, PutAt
<1> QED
  BY <1>2, <1>4

LEMMA ClearedGroup ==
  ASSUME NEW G \in Seq(GroupRec), NEW g \in 1..Len(G), NEW F, F = Cleared(G, g)
  PROVE  /\ ButFor(GroupRec, G, F, g) /\ Keeps(G[g], F[g])
         /\ F[g].dispose = 0 /\ ~F[g].restart /\ ~F[g].probe
         /\ F[g].attaching = G[g].attaching /\ F[g].health = G[g].health
<1> DEFINE a == [G[g] EXCEPT !.restart = FALSE, !.poll = FALSE, !.probe = FALSE, !.dispose = 0]
<1>1. G[g] \in GroupRec
  OBVIOUS
<1>2. /\ a \in GroupRec /\ Keeps(G[g], a) /\ a.dispose = 0 /\ ~a.restart /\ ~a.probe
      /\ a.attaching = G[g].attaching /\ a.health = G[g].health
  BY <1>1 DEF GroupRec, Keeps
<1>3. F = Put(G, g, a)
  BY DEF Put, Cleared
<1> HIDE DEF a
<1>4. ButFor(GroupRec, G, F, g) /\ F[g] = a
  BY <1>2, <1>3, PutAt
<1> QED
  BY <1>2, <1>4

LEMMA CreatedGroup ==
  ASSUME NEW G \in Seq(GroupRec), NEW r \in Repo, NEW c \in Cwd, NEW F, F = Created(G, r, c)
  PROVE  /\ F \in Seq(GroupRec) /\ Len(F) = Len(G) + 1
         /\ \A h \in 1..Len(G) : F[h] = G[h]
         /\ F[Len(G) + 1].repo = r /\ F[Len(G) + 1].members = {c}
         /\ F[Len(G) + 1].dispose = 0 /\ F[Len(G) + 1].attaching
         /\ ~F[Len(G) + 1].restart /\ ~F[Len(G) + 1].probe
         /\ F[Len(G) + 1].health = "attaching"
<1> DEFINE a == [NewGroup(r) EXCEPT !.members = {c}]
           H == Append(G, a)
           g == Len(G) + 1
<1>1. /\ a \in GroupRec /\ a.repo = r /\ a.members = {c} /\ a.dispose = 0
      /\ ~a.attaching /\ ~a.restart /\ ~a.probe
  BY DEF NewGroup, GroupRec, Healths
<1>2. F = Ensured(H, g, "attaching")
  BY DEF Created
<1> HIDE DEF a
<1>3. H \in Seq(GroupRec) /\ Len(H) = g /\ H[g] = a /\ \A h \in 1..Len(G) : H[h] = G[h]
  BY <1>1, SeqAdd
<1>4. g \in 1..Len(H) /\ "attaching" \in Healths /\ Len(G) \in Nat
  BY <1>3 DEF Healths
<1> HIDE DEF H, g
<1>6. /\ ButFor(GroupRec, H, F, g) /\ Keeps(H[g], F[g])
      /\ F[g].attaching /\ ~F[g].restart /\ F[g].health = "attaching"
      /\ F[g].dispose = H[g].dispose /\ F[g].probe = H[g].probe
  BY <1>1, <1>2, <1>3, <1>4, EnsuredGroup
<1>7. F \in Seq(GroupRec) /\ Len(F) = g /\ \A h \in 1..Len(H) : h # g => F[h] = H[h]
  BY <1>3, <1>6 DEF ButFor
<1>8. \A h \in 1..Len(G) : h \in 1..Len(H) /\ h # g
  BY <1>3, <1>4 DEF g
<1>9. F[g].repo = r /\ F[g].members = {c} /\ F[g].dispose = 0 /\ ~F[g].probe
  BY <1>1, <1>3, <1>6 DEF Keeps
<1> QED
  BY <1>3, <1>6, <1>7, <1>8, <1>9 DEF g

LEMMA CreateOps ==
  ASSUME NEW G \in Seq(GroupRec), NEW r \in Repo, NEW c \in Cwd
  PROVE  EnsureOps(Append(G, [NewGroup(r) EXCEPT !.members = {c}]), Len(G) + 1)
           = {Op("access", 0, Len(G) + 1, 0, NoRepo)}
<1> DEFINE a == [NewGroup(r) EXCEPT !.members = {c}]
           H == Append(G, a)
           g == Len(G) + 1
<1>1. a \in GroupRec /\ ~a.attaching
  BY DEF NewGroup, GroupRec, Healths
<1> HIDE DEF a
<1>2. H[g] = a
  BY <1>1, SeqAdd
<1>3. ~H[g].attaching
  BY <1>1, <1>2
<1> QED
  BY <1>3 DEF EnsureOps, a

-----------------------------------------------------------------------------
(* The outcomes of attachWatcherForEntry                                   *)

\* The entry joins the group of its repository, or creates it.
Joins(E, O, e) ==
  LET c == E[e].cwd  r == RepoOf[c] IN
  /\ ~E[e].detaching /\ E[e].group = NoRepo /\ E[e].known
  /\ entry' = Join(E, e, r)
  /\ keyOf' = [keyOf EXCEPT ![c] = r]
  /\ \/ /\ groups[r] # 0
        /\ group' = WithMembers(group, groups[r], group[groups[r]].members \cup {c})
        /\ ops' = O /\ UNCHANGED groups
     \/ /\ groups[r] = 0 /\ Len(group) + 1 <= MaxGroup
        /\ groups' = [groups EXCEPT ![r] = Len(group) + 1]
        /\ group' = Created(group, r, c)
        /\ ops' = O \cup {Op("access", 0, Len(group) + 1, 0, NoRepo)}

LEMMA AttachOutcomes ==
  ASSUME Typed, NEW E \in Seq(EntryRec), NEW e \in 1..Len(E), NEW O, AttachWatcher(E, O, e)
  PROVE  \/ /\ E[e].detaching \/ E[e].group # NoRepo
            /\ entry' = E /\ ops' = O /\ UNCHANGED <<keyOf, groups, group>>
         \/ /\ ~E[e].detaching /\ E[e].group = NoRepo /\ ~E[e].known
            /\ entry' = EndWait(E, e)
            /\ ops' = O /\ UNCHANGED <<keyOf, groups, group>>
         \/ Joins(E, O, e)
<1> DEFINE c == E[e].cwd  r == RepoOf[c]
<1>1. c \in Cwd /\ r \in Repo
  <2>1. E[e] \in EntryRec
    OBVIOUS
  <2> QED
    BY <2>1, WatchAssumption DEF EntryRec
<1>2. EnsureOps(Append(group, [NewGroup(r) EXCEPT !.members = {c}]), Len(group) + 1)
        = {Op("access", 0, Len(group) + 1, 0, NoRepo)}
  BY <1>1, CreateOps, TypedFacts
<1>3. CASE /\ ~E[e].detaching /\ E[e].group = NoRepo /\ E[e].known
           /\ entry' = Join(E, e, r)
           /\ keyOf' = [keyOf EXCEPT ![c] = r]
           /\ groups[r] # 0
           /\ group' = [group EXCEPT ![groups[r]].members = @ \cup {c}]
           /\ ops' = O /\ UNCHANGED groups
  BY <1>3 DEF Joins, WithMembers
<1>4. CASE /\ ~E[e].detaching /\ E[e].group = NoRepo /\ E[e].known
           /\ entry' = Join(E, e, r)
           /\ keyOf' = [keyOf EXCEPT ![c] = r]
           /\ groups[r] = 0 /\ Len(group) + 1 <= MaxGroup
           /\ groups' = [groups EXCEPT ![r] = Len(group) + 1]
           /\ group' = Created(group, r, c)
           /\ ops' = O \cup EnsureOps(Append(group, [NewGroup(r) EXCEPT !.members = {c}]),
                                      Len(group) + 1)
  BY <1>2, <1>4 DEF Joins
<1> QED
  BY <1>3, <1>4 DEF AttachWatcher, EndWait, Join, Created

LEMMA JoinsTyped ==
  ASSUME Typed, WorldTyped', UNCHANGED sub,
         NEW E \in Seq(EntryRec), NEW e \in 1..Len(E), NEW O, Joins(E, O, e),
         Len(entry) <= Len(E), Len(E) <= MaxEntry, entries' \in [Cwd -> 0..Len(E)],
         \A o \in O \ ops : OpTyped(o, Len(E), Len(group), Len(sub))
  PROVE  Typed'
<1> DEFINE c == E[e].cwd  r == RepoOf[c]
<1>1. c \in Cwd /\ r \in Repo
  <2>1. E[e] \in EntryRec
    OBVIOUS
  <2> QED
    BY <2>1, WatchAssumption DEF EntryRec
<1>2. entry' \in Seq(EntryRec) /\ Len(entry') = Len(E) /\ Len(E) \in Nat
  BY <1>1, JoinedEntry DEF Joins, ButFor
<1>3. keyOf' \in [Cwd -> Repo \cup {NoRepo}]
  BY <1>1, TypedFacts DEF Joins
<1> HIDE DEF c, r
<1>4. CASE /\ groups[r] # 0
           /\ group' = WithMembers(group, groups[r], group[groups[r]].members \cup {c})
           /\ ops' = O /\ UNCHANGED groups
  <2>1. groups[r] \in 1..Len(group)
    BY <1>1, <1>4, TypedFacts
  <2>2. group[groups[r]].members \cup {c} \in SUBSET Cwd
    BY <1>1, <2>1, DisposeNat, TypedFacts
  <2>3. ButFor(GroupRec, group, group', groups[r]) /\ SameWatch(group[groups[r]], group'[groups[r]])
    BY <1>4, <2>1, <2>2, MembersGroup, TypedFacts
  <2>4. \A h \in 1..Len(group) : group'[h].dispose = group[h].dispose
    BY <2>1, <2>3 DEF ButFor, SameWatch
  <2>5. /\ group' \in Seq(GroupRec) /\ Len(group') = Len(group)
        /\ \A g \in 1..Len(group') : group'[g].dispose <= Len(sub')
    BY <2>3, <2>4, TypedFacts DEF ButFor
  <2>6. /\ groups' \in [Repo -> 0..Len(group')] /\ Len(group) <= Len(group')
        /\ Len(group') <= MaxGroup /\ entries' \in [Cwd -> 0..Len(entry')]
    BY <1>2, <1>4, <2>5, TypedFacts
  <2>7. \A o \in ops' \ ops : OpTyped(o, Len(entry'), Len(group'), Len(sub'))
    BY <1>2, <1>4, <2>5
  <2> QED
    BY <1>2, <1>3, <2>5, <2>6, <2>7, TypedStep, TypedFacts
<1>5. CASE /\ groups[r] = 0 /\ Len(group) + 1 <= MaxGroup
           /\ groups' = [groups EXCEPT ![r] = Len(group) + 1]
           /\ group' = Created(group, r, c)
           /\ ops' = O \cup {Op("access", 0, Len(group) + 1, 0, NoRepo)}
  <2>1. /\ group' \in Seq(GroupRec) /\ Len(group') = Len(group) + 1
        /\ \A h \in 1..Len(group) : group'[h] = group[h]
        /\ group'[Len(group) + 1].dispose = 0
    BY <1>1, <1>5, CreatedGroup, TypedFacts
  <2>2. \A g \in 1..Len(group') : group'[g].dispose <= Len(sub')
    <3> TAKE g \in 1..Len(group')
    <3>1. CASE g \in 1..Len(group)
      BY <2>1, <3>1, TypedFacts
    <3>2. CASE g = Len(group) + 1
      BY <2>1, <3>2, TypedFacts
    <3> QED
      BY <2>1, <3>1, <3>2, TypedFacts
  <2>3. groups' \in [Repo -> 0..Len(group')]
    BY <1>1, <1>5, <2>1, TypedFacts
  <2>4. \A o \in ops' \ ops : OpTyped(o, Len(entry'), Len(group'), Len(sub'))
    <3> TAKE o \in ops' \ ops
    <3>1. CASE o \in O
      <4>1. OpTyped(o, Len(E), Len(group), Len(sub))
        BY <3>1
      <4> QED
        BY <1>2, <2>1, <4>1, OpGrows, TypedFacts
    <3>2. CASE o = Op("access", 0, Len(group) + 1, 0, NoRepo)
      BY <2>1, <3>2, TypedFacts DEF Op, OpTyped, OpKinds, Recomputes
    <3> QED
      BY <1>5, <3>1, <3>2
  <2>5. Len(group) <= Len(group') /\ Len(group') <= MaxGroup
    BY <1>5, <2>1, TypedFacts
  <2> QED
    BY <1>2, <1>3, <2>1, <2>2, <2>3, <2>4, <2>5, TypedStep, TypedFacts
<1> QED
  BY <1>4, <1>5 DEF Joins, c, r

-----------------------------------------------------------------------------
(* The steps of the entries keep the state well typed                      *)

LEMMA EntryStepTyped ==
  ASSUME Typed, UNCHANGED <<pathUp, groups, group, sub>>, wanted' \in [Cwd -> BOOLEAN],
         entry' \in Seq(EntryRec), Len(entry) <= Len(entry'), Len(entry') <= MaxEntry,
         entries' \in [Cwd -> 0..Len(entry')], keyOf' \in [Cwd -> Repo \cup {NoRepo}],
         \A o \in ops' \ ops : OpTyped(o, Len(entry'), Len(group), Len(sub))
  PROVE  Typed'
<1>1. WorldTyped'
  BY DEF Typed, WorldTyped
<1> QED
  BY <1>1, TypedStep, TypedFacts

\* The state in which attachWatcherForEntry finds the entry when the router
\* attaches cwd c.
AttachEntry(c) == IF entries[c] # 0 THEN entries[c] ELSE Len(entry) + 1
AttachBase(c) == IF entries[c] # 0 THEN entry ELSE Append(entry, NewEntry(c))

LEMMA AttachBaseTyped ==
  ASSUME Typed, NEW c \in Cwd, AttachEntry(c) <= MaxEntry
  PROVE  /\ AttachBase(c) \in Seq(EntryRec) /\ AttachEntry(c) \in 1..Len(AttachBase(c))
         /\ Len(entry) <= Len(AttachBase(c)) /\ Len(AttachBase(c)) <= MaxEntry
         /\ Len(AttachBase(c)) \in Nat
         /\ \A e \in 1..Len(entry) : AttachBase(c)[e] = entry[e]
         /\ [entries EXCEPT ![c] = AttachEntry(c)] \in [Cwd -> 0..Len(AttachBase(c))]
<1>1. CASE entries[c] # 0
  BY <1>1, TypedFacts DEF AttachBase, AttachEntry
<1>2. CASE entries[c] = 0
  <2>1. NewEntry(c) \in EntryRec
    BY DEF NewEntry, EntryRec
  <2>2. /\ AttachBase(c) \in Seq(EntryRec) /\ Len(AttachBase(c)) = Len(entry) + 1
        /\ \A e \in 1..Len(entry) : AttachBase(c)[e] = entry[e]
    BY <1>2, <2>1, SeqAdd, TypedFacts DEF AttachBase
  <2> QED
    BY <1>2, <2>2, TypedFacts DEF AttachEntry
<1> QED
  BY <1>1, <1>2

LEMMA AttachForms ==
  ASSUME NEW c \in Cwd, Attach(c)
  PROVE  LET e == AttachEntry(c)  E == AttachBase(c) IN
         /\ ~wanted[c] /\ e <= MaxEntry
         /\ wanted' = [wanted EXCEPT ![c] = TRUE]
         /\ entries' = [entries EXCEPT ![c] = e]
         /\ UNCHANGED <<pathUp, sub>>
         /\ \/ /\ E[e].attached \/ E[e].attaching
               /\ entry' = Resumed(E, e)
               /\ UNCHANGED <<ops, keyOf, groups, group>>
            \/ /\ ~E[e].attached /\ ~E[e].attaching /\ ~E[e].busy
               /\ entry' = Begin(Wait(E, e), e)
               /\ ops' = ops \cup {Op("attach", e, 0, 0, NoRepo)}
               /\ UNCHANGED <<keyOf, groups, group>>
            \/ /\ ~E[e].attached /\ ~E[e].attaching /\ E[e].busy
               /\ AttachWatcher(Queue(Wait(E, e), e), ops, e)
BY DEF Attach, AttachEntry, AttachBase, Resumed, Begin, Wait, Queue

LEMMA AttachTyped ==
  ASSUME Typed, NEW c \in Cwd, Attach(c)
  PROVE  Typed'
<1> DEFINE e == AttachEntry(c)  E == AttachBase(c)
<1>1. /\ e <= MaxEntry /\ wanted' = [wanted EXCEPT ![c] = TRUE]
      /\ entries' = [entries EXCEPT ![c] = e] /\ UNCHANGED <<pathUp, sub>>
  BY AttachForms
<1>2. /\ E \in Seq(EntryRec) /\ e \in 1..Len(E) /\ Len(entry) <= Len(E) /\ Len(E) <= MaxEntry
      /\ Len(E) \in Nat /\ entries' \in [Cwd -> 0..Len(E)]
  BY <1>1, AttachBaseTyped
<1>3. \/ /\ entry' = Resumed(E, e)
         /\ UNCHANGED <<ops, keyOf, groups, group>>
      \/ /\ entry' = Begin(Wait(E, e), e)
         /\ ops' = ops \cup {Op("attach", e, 0, 0, NoRepo)}
         /\ UNCHANGED <<keyOf, groups, group>>
      \/ AttachWatcher(Queue(Wait(E, e), e), ops, e)
  BY AttachForms
<1> HIDE DEF e, E
<1>4. wanted' \in [Cwd -> BOOLEAN] /\ WorldTyped'
  BY <1>1 DEF Typed, WorldTyped
<1>5. CASE entry' = Resumed(E, e) /\ UNCHANGED <<ops, keyOf, groups, group>>
  <2>1. entry' \in Seq(EntryRec) /\ Len(entry') = Len(E)
    BY <1>2, <1>5, ResumedEntry DEF ButFor
  <2> QED
    BY <1>1, <1>2, <1>4, <1>5, <2>1, EntryStepTyped, TypedFacts
<1>6. CASE /\ entry' = Begin(Wait(E, e), e)
           /\ ops' = ops \cup {Op("attach", e, 0, 0, NoRepo)}
           /\ UNCHANGED <<keyOf, groups, group>>
  <2>1. Wait(E, e) \in Seq(EntryRec) /\ Len(Wait(E, e)) = Len(E)
    BY <1>2, WaitingEntry DEF ButFor
  <2>2. entry' \in Seq(EntryRec) /\ Len(entry') = Len(E)
    BY <1>2, <1>6, <2>1, BegunEntry DEF ButFor
  <2>4. \A o \in ops' \ ops : OpTyped(o, Len(entry'), Len(group), Len(sub))
    BY <1>2, <1>6, <2>2 DEF Op, OpTyped, OpKinds, Recomputes
  <2> QED
    BY <1>1, <1>2, <1>4, <1>6, <2>2, <2>4, EntryStepTyped, TypedFacts
<1>7. CASE AttachWatcher(Queue(Wait(E, e), e), ops, e)
  <2> DEFINE F == Queue(Wait(E, e), e)
  <2>1. Wait(E, e) \in Seq(EntryRec) /\ Len(Wait(E, e)) = Len(E)
    BY <1>2, WaitingEntry DEF ButFor
  <2>2. F \in Seq(EntryRec) /\ Len(F) = Len(E)
    BY <1>2, <2>1, QueuedEntry DEF ButFor
  <2> HIDE DEF F
  <2>3. \/ /\ entry' = F \/ entry' = EndWait(F, e)
           /\ ops' = ops /\ UNCHANGED <<keyOf, groups, group>>
        \/ Joins(F, ops, e)
    BY <1>2, <1>7, <2>2, AttachOutcomes DEF F
  <2>4. EndWait(F, e) \in Seq(EntryRec) /\ Len(EndWait(F, e)) = Len(E)
    BY <1>2, <2>2, EndedEntry DEF ButFor
  <2>5. CASE /\ entry' = F \/ entry' = EndWait(F, e)
             /\ ops' = ops /\ UNCHANGED <<keyOf, groups, group>>
    BY <1>1, <1>2, <1>4, <2>2, <2>4, <2>5, EntryStepTyped, TypedFacts
  <2>6. CASE Joins(F, ops, e)
    BY <1>1, <1>2, <1>4, <2>2, <2>6, JoinsTyped, TypedFacts
  <2> QED
    BY <2>3, <2>5, <2>6
<1> QED
  BY <1>3, <1>5, <1>6, <1>7

LEMMA FoundTyped ==
  ASSUME NEW found \in Found
  PROVE  found \in BOOLEAN
BY DEF Found

LEMMA AttachResumesTyped ==
  ASSUME Typed, NEW o, AttachResumes(o)
  PROVE  Typed'
<1>1. /\ o.e \in 1..Len(entry) /\ UNCHANGED <<wanted, pathUp, sub>>
      /\ ops \ {o} \subseteq ops
  BY TypedFacts DEF AttachResumes, OpTyped, Recomputes, env
<1>2. PICK found \in Found :
        \/ /\ entry' = EndWait(Recomputed(o.e, found), o.e)
           /\ entries' = [entries EXCEPT ![entry[o.e].cwd] = 0]
           /\ ops' = ops \ {o}
           /\ UNCHANGED <<keyOf, groups, group>>
        \/ /\ AttachWatcher(Recomputed(o.e, found), ops \ {o}, o.e)
           /\ UNCHANGED entries
  BY DEF AttachResumes, EndWait
<1> DEFINE E == Recomputed(o.e, found)
<1>3. E \in Seq(EntryRec) /\ Len(E) = Len(entry) /\ o.e \in 1..Len(E)
  <2>1. found \in BOOLEAN
    BY <1>1, FoundTyped
  <2> QED
    BY <1>1, <2>1, RecomputedEntry, TypedFacts DEF ButFor
<1>4. wanted' \in [Cwd -> BOOLEAN] /\ WorldTyped'
  BY <1>1 DEF Typed, WorldTyped
<1> HIDE DEF E
<1>5. EndWait(E, o.e) \in Seq(EntryRec) /\ Len(EndWait(E, o.e)) = Len(entry)
  BY <1>3, EndedEntry DEF ButFor
<1>6. CASE /\ entry' = EndWait(E, o.e)
           /\ entries' = [entries EXCEPT ![entry[o.e].cwd] = 0]
           /\ ops' = ops \ {o}
           /\ UNCHANGED <<keyOf, groups, group>>
  <2>1. entries' \in [Cwd -> 0..Len(entry)]
    <3>1. entries \in [Cwd -> 0..Len(entry)] /\ 0 \in 0..Len(entry)
      BY TypedFacts
    <3> QED
      BY <1>6, <3>1
  <2> QED
    BY <1>1, <1>4, <1>5, <1>6, <2>1, EntryStepTyped, TypedFacts
<1>7. CASE AttachWatcher(E, ops \ {o}, o.e) /\ UNCHANGED entries
  <2>1. \/ /\ entry' = E \/ entry' = EndWait(E, o.e)
           /\ ops' = ops \ {o} /\ UNCHANGED <<keyOf, groups, group>>
        \/ Joins(E, ops \ {o}, o.e)
    BY <1>3, <1>7, AttachOutcomes
  <2>2. CASE /\ entry' = E \/ entry' = EndWait(E, o.e)
             /\ ops' = ops \ {o} /\ UNCHANGED <<keyOf, groups, group>>
    BY <1>1, <1>3, <1>4, <1>5, <1>7, <2>2, EntryStepTyped, TypedFacts
  <2>3. CASE Joins(E, ops \ {o}, o.e)
    <3>1. /\ UNCHANGED sub /\ Len(entry) <= Len(E) /\ Len(E) <= MaxEntry
          /\ entries' \in [Cwd -> 0..Len(E)]
          /\ \A p \in (ops \ {o}) \ ops : OpTyped(p, Len(E), Len(group), Len(sub))
      BY <1>1, <1>3, <1>7, TypedFacts
    <3> QED
      BY <1>3, <1>4, <2>3, <3>1, JoinsTyped
  <2> QED
    BY <2>1, <2>2, <2>3
<1> QED
  BY <1>2, <1>6, <1>7 DEF E

LEMMA RecomputeResumesTyped ==
  ASSUME Typed, NEW o, RecomputeResumes(o)
  PROVE  Typed'
<1>1. /\ o.e \in 1..Len(entry) 
      /\ UNCHANGED <<wanted, pathUp, sub, entries>> /\ ops \ {o} \subseteq ops
  BY TypedFacts DEF RecomputeResumes, OpTyped, Recomputes, env
<1>2. PICK found \in Found :
        \/ AttachWatcher(Recomputed(o.e, found), ops \ {o}, o.e)
        \/ /\ entry' = Recomputed(o.e, found) /\ ops' = ops \ {o}
           /\ UNCHANGED <<keyOf, groups, group>>
  BY DEF RecomputeResumes
<1> DEFINE E == Recomputed(o.e, found)
<1>3. E \in Seq(EntryRec) /\ Len(E) = Len(entry) /\ o.e \in 1..Len(E)
  <2>1. found \in BOOLEAN
    BY <1>1, FoundTyped
  <2> QED
    BY <1>1, <2>1, RecomputedEntry, TypedFacts DEF ButFor
<1>4. wanted' \in [Cwd -> BOOLEAN] /\ WorldTyped'
  BY <1>1 DEF Typed, WorldTyped
<1> HIDE DEF E
<1>5. EndWait(E, o.e) \in Seq(EntryRec) /\ Len(EndWait(E, o.e)) = Len(entry)
  BY <1>3, EndedEntry DEF ButFor
<1>6. \/ /\ entry' = E \/ entry' = EndWait(E, o.e)
         /\ ops' = ops \ {o} /\ UNCHANGED <<keyOf, groups, group>>
      \/ Joins(E, ops \ {o}, o.e)
  BY <1>2, <1>3, AttachOutcomes DEF E
<1>7. CASE /\ entry' = E \/ entry' = EndWait(E, o.e)
           /\ ops' = ops \ {o} /\ UNCHANGED <<keyOf, groups, group>>
  BY <1>1, <1>3, <1>4, <1>5, <1>7, EntryStepTyped, TypedFacts
<1>8. CASE Joins(E, ops \ {o}, o.e)
  <2>1. /\ UNCHANGED sub /\ Len(entry) <= Len(E) /\ Len(E) <= MaxEntry
        /\ entries' \in [Cwd -> 0..Len(E)]
        /\ \A p \in (ops \ {o}) \ ops : OpTyped(p, Len(E), Len(group), Len(sub))
    BY <1>1, <1>3, TypedFacts
  <2> QED
    BY <1>3, <1>4, <1>8, <2>1, JoinsTyped
<1> QED
  BY <1>6, <1>7, <1>8

LEMMA StartTyped ==
  ASSUME Typed, NEW E \in Seq(EntryRec), Len(E) = Len(entry), NEW e \in 1..Len(entry),
         NEW kind \in Recomputes, StartRecompute(E, e, kind),
         UNCHANGED <<wanted, pathUp, entries, keyOf, groups, group, sub>>
  PROVE  Typed'
<1>1. /\ UNCHANGED <<pathUp, groups, group, sub>> /\ wanted' \in [Cwd -> BOOLEAN]
      /\ entries' = entries /\ keyOf' = keyOf
  BY DEF Typed, WorldTyped
<1>2. /\ ButFor(EntryRec, E, Queue(E, e), e) /\ ButFor(EntryRec, E, Begin(E, e), e)
  BY QueuedEntry, BegunEntry
<1>3. entry' = Queue(E, e) \/ entry' = Begin(E, e)
  BY DEF StartRecompute, Queue, Begin
<1>4. entry' \in Seq(EntryRec) /\ Len(entry') = Len(entry)
  BY <1>2, <1>3 DEF ButFor
<1>5. \A o \in ops' \ ops : o = Op(kind, e, 0, 0, NoRepo)
  BY DEF StartRecompute
<1>6. \A o \in ops' \ ops : OpTyped(o, Len(entry'), Len(group), Len(sub))
  BY <1>4, <1>5 DEF Op, OpTyped, OpKinds, Recomputes
<1> QED
  BY <1>1, <1>4, <1>6, EntryStepTyped, TypedFacts

LEMMA RevalidateTyped ==
  ASSUME Typed, NEW c \in Cwd, Revalidate(c)
  PROVE  Typed'
<1>1. entries[c] \in 1..Len(entry)
  BY TypedFacts DEF Revalidate
<1> QED
  BY <1>1, StartTyped, TypedFacts DEF Revalidate, Recomputes

LEMMA DebounceTyped ==
  ASSUME Typed, NEW e \in Entries, DebounceFires(e)
  PROVE  Typed'
<1>1. e \in 1..Len(entry)
  BY TypedFacts
<1>2. /\ Undebounce(entry, e) \in Seq(EntryRec) /\ Len(Undebounce(entry, e)) = Len(entry)
  BY <1>1, UndebouncedEntry, TypedFacts DEF ButFor
<1>3. /\ StartRecompute(Undebounce(entry, e), e, "recompute")
      /\ UNCHANGED <<wanted, pathUp, entries, keyOf, groups, group, sub>>
  BY DEF DebounceFires, Undebounce, env
<1> QED
  BY <1>1, <1>2, <1>3, StartTyped DEF Recomputes

\* The outcomes of handleDetachWatch.
DetachGroup(c) == IF keyOf[c] = NoRepo THEN 0 ELSE groups[keyOf[c]]
LeftMembers(c) == group[DetachGroup(c)].members \ {c}

LEMMA DetachForms ==
  ASSUME NEW c \in Cwd, Detach(c)
  PROVE  LET e == entries[c]  r == keyOf[c]  g == DetachGroup(c)  left == LeftMembers(c)
             G == WithMembers(group, g, left)  E == Drop(Detaching(e), e) IN
         /\ wanted[c] /\ wanted' = [wanted EXCEPT ![c] = FALSE]
         /\ UNCHANGED <<pathUp>>
         /\ \/ /\ e = 0
               /\ UNCHANGED <<entries, entry, keyOf, groups, group, sub, ops>>
            \/ /\ e # 0 /\ entry[e].attaching /\ ~entry[e].attached
               /\ entry' = Detaching(e)
               /\ UNCHANGED <<entries, keyOf, groups, group, sub, ops>>
            \/ /\ e # 0 /\ ~entry[e].attaching /\ ~entry[e].attached
               /\ entry' = Detaching(e) /\ entries' = [entries EXCEPT ![c] = 0]
               /\ UNCHANGED <<keyOf, groups, group, sub, ops>>
            \/ /\ e # 0 /\ entry[e].attached /\ keyOf' = [keyOf EXCEPT ![c] = NoRepo]
               /\ \/ /\ g = 0
                     /\ entry' = E /\ entries' = [entries EXCEPT ![c] = 0]
                     /\ UNCHANGED <<groups, group, sub, ops>>
                  \/ /\ g # 0 /\ entry' = Leave(E, e) /\ left # {}
                     /\ group' = G /\ entries' = [entries EXCEPT ![c] = 0]
                     /\ UNCHANGED <<groups, sub, ops>>
                  \/ /\ g # 0 /\ entry' = Leave(E, e) /\ left = {} /\ group[g].dispose = 0
                     /\ group' = Cleared(G, g) /\ groups' = [groups EXCEPT ![r] = 0]
                     /\ entries' = [entries EXCEPT ![c] = 0]
                     /\ UNCHANGED <<sub, ops>>
                  \/ /\ g # 0 /\ entry' = Leave(E, e) /\ left = {} /\ group[g].dispose # 0
                     /\ group' = Cleared(G, g)
                     /\ sub' = [sub EXCEPT ![group[g].dispose] = "closing"]
                     /\ ops' = ops \cup {Op("detach", e, 0, group[g].dispose, r)}
                     /\ UNCHANGED <<groups, entries>>
BY DEF Detach, DetachGroup, LeftMembers, WithMembers, Drop, Leave, Cleared

LEMMA DetachTyped ==
  ASSUME Typed, NEW c \in Cwd, Detach(c)
  PROVE  Typed'
<1> DEFINE e == entries[c]  r == keyOf[c]  g == DetachGroup(c)  left == LeftMembers(c)
           G == WithMembers(group, g, left)  D == Detaching(e)  E == Drop(D, e)
<1>1. e \in 0..Len(entry) /\ r \in Repo \cup {NoRepo} /\ g \in 0..Len(group)
  BY TypedFacts DEF DetachGroup
<1>2. /\ wanted' \in [Cwd -> BOOLEAN] /\ WorldTyped' /\ UNCHANGED <<pathUp>>
  BY DetachForms DEF Typed, WorldTyped
<1>3. \/ UNCHANGED <<entries, entry, keyOf, groups, group, sub, ops>>
      \/ /\ e # 0 /\ entry' \in {D, E} /\ entries' \in {entries, [entries EXCEPT ![c] = 0]}
         /\ keyOf' \in {keyOf, [keyOf EXCEPT ![c] = NoRepo]}
         /\ UNCHANGED <<groups, group, sub, ops>>
      \/ /\ e # 0 /\ entry' = Leave(E, e) /\ keyOf' = [keyOf EXCEPT ![c] = NoRepo]
         /\ g # 0 /\ group' \in {G, Cleared(G, g)}
         /\ entries' \in {entries, [entries EXCEPT ![c] = 0]}
         /\ groups' \in {groups, [groups EXCEPT ![r] = 0]}
         /\ \/ UNCHANGED <<sub, ops>>
            \/ /\ group[g].dispose # 0
               /\ sub' = [sub EXCEPT ![group[g].dispose] = "closing"]
               /\ ops' = ops \cup {Op("detach", e, 0, group[g].dispose, r)}
  BY DetachForms
<1>4. /\ [entries EXCEPT ![c] = 0] \in [Cwd -> 0..Len(entry)]
      /\ [keyOf EXCEPT ![c] = NoRepo] \in [Cwd -> Repo \cup {NoRepo}]
      /\ [groups EXCEPT ![r] = 0] \in [Repo -> 0..Len(group)]
  <2>1. 0 \in 0..Len(entry) /\ 0 \in 0..Len(group)
    BY TypedFacts
  <2> QED
    BY <2>1, TypedFacts
<1>5. ASSUME e # 0
      PROVE  /\ e \in 1..Len(entry) /\ D \in Seq(EntryRec) /\ Len(D) = Len(entry)
             /\ E \in Seq(EntryRec) /\ Len(E) = Len(entry)
             /\ Leave(E, e) \in Seq(EntryRec) /\ Len(Leave(E, e)) = Len(entry)
  <2>1. e \in 1..Len(entry)
    BY <1>1, <1>5
  <2> HIDE DEF e
  <2>2. D \in Seq(EntryRec) /\ Len(D) = Len(entry)
    BY <2>1, DetachingEntry, TypedFacts DEF ButFor
  <2> HIDE DEF D
  <2>3. E \in Seq(EntryRec) /\ Len(E) = Len(entry)
    BY <2>1, <2>2, DroppedEntry DEF ButFor
  <2> HIDE DEF E
  <2>4. Leave(E, e) \in Seq(EntryRec) /\ Len(Leave(E, e)) = Len(entry)
    BY <2>1, <2>3, LeftEntry DEF ButFor
  <2> QED
    BY <2>1, <2>2, <2>3, <2>4
<1>6. ASSUME g # 0
      PROVE  /\ g \in 1..Len(group)
             /\ ButFor(GroupRec, group, G, g) /\ G[g].dispose = group[g].dispose
             /\ ButFor(GroupRec, group, Cleared(G, g), g) /\ Cleared(G, g)[g].dispose = 0
  <2>1. g \in 1..Len(group)
    BY <1>1, <1>6
  <2>2. left \in SUBSET Cwd
    BY <2>1, DisposeNat, TypedFacts DEF LeftMembers
  <2> HIDE DEF g, left
  <2>3. ButFor(GroupRec, group, G, g) /\ SameWatch(group[g], G[g])
    BY <2>1, <2>2, MembersGroup, TypedFacts
  <2> HIDE DEF G
  <2>4. G \in Seq(GroupRec) /\ g \in 1..Len(G)
    BY <2>1, <2>3 DEF ButFor
  <2>5. ButFor(GroupRec, G, Cleared(G, g), g) /\ Cleared(G, g)[g].dispose = 0
    BY <2>4, ClearedGroup
  <2>6. G[g].dispose = group[g].dispose
    BY <2>3 DEF SameWatch
  <2> QED
    BY <2>1, <2>3, <2>5, <2>6, ButForTwice, TypedFacts
<1> HIDE DEF e, r, g, left, G, D, E
<1>7. CASE UNCHANGED <<entries, entry, keyOf, groups, group, sub, ops>>
  BY <1>2, <1>7, EntryStepTyped, TypedFacts
<1>8. CASE /\ e # 0 /\ entry' \in {D, E} /\ entries' \in {entries, [entries EXCEPT ![c] = 0]}
           /\ keyOf' \in {keyOf, [keyOf EXCEPT ![c] = NoRepo]}
           /\ UNCHANGED <<groups, group, sub, ops>>
  <2>1. entry' \in Seq(EntryRec) /\ Len(entry') = Len(entry)
    BY <1>5, <1>8
  <2>2. entries' \in [Cwd -> 0..Len(entry')] /\ keyOf' \in [Cwd -> Repo \cup {NoRepo}]
    BY <1>4, <1>8, <2>1, TypedFacts
  <2> QED
    BY <1>2, <1>8, <2>1, <2>2, EntryStepTyped, TypedFacts
<1>9. CASE /\ e # 0 /\ entry' = Leave(E, e) /\ keyOf' = [keyOf EXCEPT ![c] = NoRepo]
           /\ g # 0 /\ group' \in {G, Cleared(G, g)}
           /\ entries' \in {entries, [entries EXCEPT ![c] = 0]}
           /\ groups' \in {groups, [groups EXCEPT ![r] = 0]}
           /\ \/ UNCHANGED <<sub, ops>>
              \/ /\ group[g].dispose # 0
                 /\ sub' = [sub EXCEPT ![group[g].dispose] = "closing"]
                 /\ ops' = ops \cup {Op("detach", e, 0, group[g].dispose, r)}
  <2>1. /\ entry' \in Seq(EntryRec) /\ Len(entry') = Len(entry) /\ e \in 1..Len(entry)
    BY <1>5, <1>9
  <2>2. /\ g \in 1..Len(group) /\ ButFor(GroupRec, group, group', g)
        /\ group'[g].dispose \in {0, group[g].dispose}
    BY <1>6, <1>9
  <2>3. group' \in Seq(GroupRec) /\ Len(group') = Len(group)
    BY <2>2 DEF ButFor
  <2>4. group[g].dispose \in 0..Len(sub)
    BY <2>2, DisposeNat, TypedFacts
  <2>5. sub' \in Seq(SubStates) /\ Len(sub') = Len(sub)
    <3>1. CASE UNCHANGED <<sub, ops>>
      BY <3>1, TypedFacts
    <3>2. CASE group[g].dispose # 0 /\ sub' = [sub EXCEPT ![group[g].dispose] = "closing"]
      BY <2>4, <3>2, ClosedSub, TypedFacts DEF SubStates
    <3> QED
      BY <1>9, <3>1, <3>2
  <2>6. \A h \in 1..Len(group') : group'[h].dispose <= Len(sub')
    <3> TAKE h \in 1..Len(group')
    <3>1. CASE h = g
      BY <2>2, <2>4, <2>5, <3>1, TypedFacts
    <3>2. CASE h # g
      BY <2>2, <2>3, <2>5, <3>2, TypedFacts DEF ButFor
    <3> QED
      BY <3>1, <3>2
  <2>7. \A o \in ops' \ ops : OpTyped(o, Len(entry'), Len(group'), Len(sub'))
    BY <1>1, <1>9, <2>1, <2>3, <2>4, <2>5 DEF Op, OpTyped, OpKinds, Recomputes
  <2>8. entries' \in [Cwd -> 0..Len(entry')] /\ groups' \in [Repo -> 0..Len(group')]
    BY <1>4, <1>9, <2>1, <2>3, TypedFacts
  <2>9. keyOf' \in [Cwd -> Repo \cup {NoRepo}]
    BY <1>4, <1>9
  <2> QED
    BY <1>2, <2>1, <2>3, <2>5, <2>6, <2>7, <2>8, <2>9, TypedStep, TypedFacts
<1> QED
  BY <1>3, <1>7, <1>8, <1>9

LEMMA DetachResumesTyped ==
  ASSUME Typed, NEW o, DetachResumes(o)
  PROVE  Typed'
<1>1. /\ o.e \in 1..Len(entry) /\ UNCHANGED <<wanted, pathUp, keyOf, group, sub>>
      /\ ops' = ops \ {o}
  BY TypedFacts DEF DetachResumes, OpTyped, env
<1>2. entry' = Clean(entry, o.e)
  BY DEF DetachResumes, Clean
<1>3. entry' \in Seq(EntryRec) /\ Len(entry') = Len(entry)
  BY <1>1, <1>2, CleanEntry, TypedFacts DEF ButFor
<1>4. entries' \in [Cwd -> 0..Len(entry)] /\ groups' \in [Repo -> 0..Len(group)]
  <2>1. 0 \in 0..Len(entry) /\ 0 \in 0..Len(group)
    BY TypedFacts
  <2> QED
    BY <2>1, TypedFacts DEF DetachResumes
<1>5. WorldTyped'
  BY <1>1 DEF Typed, WorldTyped
<1> QED
  BY <1>1, <1>3, <1>4, <1>5, TypedStep, TypedFacts

LEMMA WorldStepTyped ==
  ASSUME Typed, WorldTyped', UNCHANGED <<entries, entry, keyOf, groups, group, sub, ops>>
  PROVE  Typed'
BY DEF Typed, EntriesTyped, GroupsTyped, SubsTyped, OpsTyped, Groups

LEMMA WatchNextTyped ==
  ASSUME Typed, [WatchNext]_watchVars
  PROVE  Typed'
<1>1. CASE \E c \in Cwd : Attach(c) \/ Detach(c) \/ Revalidate(c)
  BY <1>1, AttachTyped, DetachTyped, RevalidateTyped
<1>3. ASSUME NEW r \in Repo, PathLost(r) \/ PathBack(r) PROVE Typed'
  BY <1>3, WorldStepTyped DEF PathLost, PathBack, Typed, WorldTyped
<1>4. CASE \E g \in Groups : RestartFires(g) \/ ProbeTick(g)
  BY <1>4, RestartStep, ProbeTickStep, WatcherStepTyped
<1>5. CASE \E g \in Groups, s \in Subs, cause \in {"callback-error", "path-missing"} :
             CallbackError(g, s, cause)
  BY <1>5, CallbackStep, WatcherStepTyped
<1>6. CASE \E s \in Subs : Unsubscribed(s)
  BY <1>6, UnsubscribedTyped
<1>7. CASE \E e \in Entries : DebounceFires(e)
  BY <1>7, DebounceTyped
<1>8. CASE Resume
  BY <1>8, AccessStep, SubscribeStep, FaultStep, ProbeResumesStep, WatcherStepTyped,
     AttachResumesTyped, RecomputeResumesTyped, DetachResumesTyped DEF Resume
<1>9. CASE UNCHANGED watchVars
  BY <1>9 DEF watchVars, Typed, WorldTyped, EntriesTyped, GroupsTyped, SubsTyped, OpsTyped, Groups
<1> QED
  BY <1>1, <1>3, <1>4, <1>5, <1>6, <1>7, <1>8, <1>9 DEF WatchNext

LEMMA InitTyped ==
  ASSUME WatchInit
  PROVE  Typed
<1>1. /\ entry = <<>> /\ group = <<>> /\ sub = <<>>
      /\ Len(entry) = 0 /\ Len(group) = 0 /\ Len(sub) = 0
  BY DEF WatchInit
<1>2. {MaxEntry, MaxGroup, MaxSub} \subseteq Nat
  BY WatchAssumption
<1>3. WorldTyped
  BY WatchAssumption DEF WatchInit, WorldTyped
<1>4. EntriesTyped
  BY <1>1, <1>2 DEF WatchInit, EntriesTyped
<1>5. GroupsTyped /\ SubsTyped /\ OpsTyped
  BY <1>1, <1>2 DEF WatchInit, GroupsTyped, SubsTyped, OpsTyped, Groups
<1> QED
  BY <1>3, <1>4, <1>5 DEF Typed

LEMMA TypedImpliesTypeOK ==
  ASSUME Typed
  PROVE  WatchTypeOK
<1>1. \A e \in Entries : entry[e].cwd \in Cwd /\ entry[e].group \in Repo \cup {NoRepo}
  <2> TAKE e \in Entries
  <2>1. entry[e] \in EntryRec
    BY TypedFacts
  <2> QED
    BY <2>1 DEF EntryRec
<1>2. \A g \in Groups : /\ group[g].health \in Healths
                        /\ group[g].members \subseteq Cwd
                        /\ group[g].dispose \in 0..Len(sub)
  BY DisposeNat, TypedFacts
<1>3. \A s \in Subs : sub[s] \in {"opening", "live", "closing", "closed"}
  BY TypedFacts DEF SubStates
<1>4. \A o \in ops : /\ o.kind \in OpKinds /\ o.e \in 0..Len(entry)
                     /\ o.g \in 0..Len(group) /\ o.s \in 0..Len(sub)
  <2> TAKE o \in ops
  <2>1. OpTyped(o, Len(entry), Len(group), Len(sub))
    BY TypedFacts
  <2> QED
    BY <2>1, TypedFacts DEF OpTyped, OpKinds, Recomputes
<1> QED
  BY <1>1, <1>2, <1>3, <1>4, TypedFacts DEF WatchTypeOK, Typed, WorldTyped

\* Whatever overlaps, every suspended handler of the worker holds objects that
\* exist, of the kind it awaits, and the maps and groups hold cwds, repositories
\* and subscriptions of the worker (git-state-mirror-worker-entry.ts).
THEOREM WatchTypeCorrect == WatchSpec => []WatchTypeOK
<1>1. Typed /\ [WatchNext /\ History]_specVars => Typed'
  BY WatchNextTyped DEF specVars
<1> QED
  BY <1>1, InitTyped, TypedImpliesTypeOK, PTL DEF WatchSpec


-----------------------------------------------------------------------------
(* Roster: what the maps of the worker hold of each cwd.  The maps and the *)
(* groups are kept by every step; what concerns one cwd alone is kept      *)
(* until that cwd attaches or joins while a detach is awaited.             *)

\* What a step records of those.
Marks ==
  /\ raced \subseteq raced'
  /\ \A c \in Cwd : (Reattached(c) \/ JoinedLate(c)) => c \in raced'

Outside(c) == keyOf[c] = NoRepo /\ \A g \in Groups : c \notin group[g].members

\* The roles an entry can be in.
InGroup(c) == LET x == entry[entries[c]]  h == groups[RepoOf[c]] IN
  /\ x.attached /\ ~x.attaching /\ ~x.detaching /\ wanted[c]
  /\ x.group = RepoOf[c] /\ keyOf[c] = RepoOf[c]
  /\ h # 0 /\ c \in group[h].members
  /\ \A g \in Groups : c \in group[g].members => g = h
  /\ \A o \in ops : o.kind = "detach" => o.x # RepoOf[c]
Waiting(c) == LET x == entry[entries[c]] IN
  /\ ~x.attached /\ x.attaching /\ x.group = NoRepo /\ Outside(c)
  /\ x.detaching <=> ~wanted[c]
  /\ \E o \in ops : o.kind = "attach" /\ o.e = entries[c]
Idle(c) == LET x == entry[entries[c]] IN
  /\ ~x.attached /\ ~x.attaching /\ ~x.detaching /\ x.group = NoRepo /\ Outside(c)
  /\ wanted[c]
Leaving(c) == LET x == entry[entries[c]] IN
  /\ ~x.attached /\ ~x.attaching /\ x.detaching /\ x.group = NoRepo /\ Outside(c)
  /\ ~wanted[c]
  /\ \E o \in ops : o.kind = "detach" /\ o.e = entries[c]
Absent(c) == entries[c] = 0 /\ ~wanted[c] /\ Outside(c)
Present(c) == entries[c] # 0 /\ entry[entries[c]].cwd = c

CwdOK(c) == Absent(c) \/ (Present(c) /\ (InGroup(c) \/ Waiting(c) \/ Idle(c) \/ Leaving(c)))

\* An entry that has left the map is being detached.
EntryOK(e) == entries[entry[e].cwd] # e => entry[e].detaching

\* An attach or a detach holds the entry in the map.
Handlers == {"attach", "detach"}
HandlerOK(o) ==
  /\ o.kind \in Handlers => entries[entry[o.e].cwd] = o.e
  /\ o.kind = "attach" => entry[o.e].attaching
  /\ o.kind = "detach" => entry[o.e].detaching /\ ~entry[o.e].attaching

\* What concerns cwd c alone: its role, its entries, and one handler at most of
\* each kind.
Held(c) ==
  /\ CwdOK(c)
  /\ \A e \in Entries : entry[e].cwd = c => EntryOK(e)
  /\ \A o \in ops : (o.kind \in Handlers /\ entry[o.e].cwd = c) => HandlerOK(o)
  /\ \A o, p \in ops :
       (o.kind \in Handlers /\ p.kind = o.kind /\ p.e = o.e /\ entry[o.e].cwd = c) => o = p

\* The maps name objects of their own key.
MapOK(c) ==
  /\ entries[c] # 0 => entry[entries[c]].cwd = c
  /\ keyOf[c] \in {NoRepo, RepoOf[c]}
DetachX(o) == o.kind = "detach" => o.x = RepoOf[entry[o.e].cwd]

\* A group stays in the map while it has members or a detach of its last one is
\* awaited.
RepoOK(r) == groups[r] # 0 =>
  /\ group[groups[r]].repo = r
  /\ group[groups[r]].members = {} => \E o \in ops : o.kind = "detach" /\ o.x = r

Roster ==
  /\ \A c \in Cwd : MapOK(c)
  /\ \A r \in Repo : RepoOK(r)
  /\ \A o \in ops : DetachX(o)
  /\ \A c \in Cwd \ raced : Held(c)

\* A step that changes nothing of this.
SameMembers ==
  /\ \A c \in Cwd \ raced' : wanted'[c] = wanted[c]
  /\ UNCHANGED <<entries, keyOf, groups>>
  /\ Len(entry') = Len(entry) /\ \A e \in 1..Len(entry) : SameRole(entry[e], entry'[e])
  /\ Len(group') = Len(group)
  /\ \A g \in 1..Len(group) : group'[g].repo = group[g].repo /\ group'[g].members = group[g].members
  /\ \A o \in ops \cup ops' : o.kind \in Handlers => o \in (ops \cap ops')

LEMMA SameMembersCwd ==
  ASSUME Typed, SameMembers, NEW c \in Cwd \ raced', CwdOK(c)
  PROVE  CwdOK(c)'
<1> USE DEF SameMembers, SameRole, Handlers
<1>1. Entries = 1..Len(entry) /\ Groups = 1..Len(group) /\ Groups' = Groups
      /\ entries[c] \in 0..Len(entry) /\ groups[RepoOf[c]] \in 0..Len(group)
  BY TypedFacts, WatchAssumption DEF Groups
<1>2. ASSUME Outside(c) PROVE Outside(c)'
  BY <1>1, <1>2 DEF Outside
<1>3. CASE Absent(c)
  BY <1>2, <1>3 DEF CwdOK, Absent
<1>4. CASE Present(c)
  <2>1. /\ entries[c] \in 1..Len(entry) /\ entries'[c] = entries[c]
        /\ SameRole(entry[entries[c]], entry'[entries[c]])
    BY <1>1, <1>4 DEF Present
  <2>2. Present(c)'
    BY <1>4, <2>1 DEF Present
  <2>3. CASE InGroup(c)
    <3>1. groups'[RepoOf[c]] = groups[RepoOf[c]]
      OBVIOUS
    <3> QED
      BY <1>1, <2>1, <2>2, <2>3, <3>1 DEF CwdOK, InGroup
  <2>4. CASE Waiting(c)
    BY <1>2, <2>1, <2>2, <2>4 DEF CwdOK, Waiting
  <2>5. CASE Idle(c)
    BY <1>2, <2>1, <2>2, <2>5 DEF CwdOK, Idle
  <2>6. CASE Leaving(c)
    BY <1>2, <2>1, <2>2, <2>6 DEF CwdOK, Leaving
  <2>7. CASE Absent(c)
    BY <1>4, <2>7 DEF Absent, Present
  <2> QED
    BY <2>3, <2>4, <2>5, <2>6, <2>7 DEF CwdOK
<1> QED
  BY <1>3, <1>4 DEF CwdOK

LEMMA SameMembersStep ==
  ASSUME Typed, Roster, Marks, SameMembers
  PROVE  Roster'
<1>1. ASSUME NEW o \in ops \cup ops', o.kind \in Handlers
      PROVE  /\ o \in ops /\ o \in ops' /\ o.e \in 1..Len(entry) /\ o.e \in 1..Len(entry')
             /\ SameRole(entry[o.e], entry'[o.e]) /\ entry[o.e].cwd \in Cwd
  <2>1. o \in ops /\ o \in ops' /\ o.e \in 1..Len(entry)
    BY <1>1, TypedFacts DEF SameMembers, OpTyped, Recomputes, Handlers
  <2> QED
    BY <2>1, TypedFacts DEF SameMembers
<1>2. ASSUME NEW c \in Cwd PROVE MapOK(c)'
  <2>1. MapOK(c) /\ entries[c] \in 0..Len(entry) /\ Len(entry) \in Nat
    BY TypedFacts DEF Roster
  <2>2. entries[c] # 0 => entry'[entries[c]].cwd = entry[entries[c]].cwd
    BY <2>1 DEF SameMembers, SameRole
  <2> QED
    BY <2>1, <2>2 DEF SameMembers, MapOK
<1>3. ASSUME NEW r \in Repo PROVE RepoOK(r)'
  <2>1. RepoOK(r) /\ groups[r] \in 0..Len(group)
    BY TypedFacts DEF Roster
  <2> QED
    BY <2>1 DEF SameMembers, RepoOK, Handlers
<1>4. ASSUME NEW o \in ops' PROVE DetachX(o)'
  BY <1>1 DEF Roster, DetachX, SameRole, Handlers
<1>5. ASSUME NEW c \in Cwd \ raced' PROVE Held(c)'
  <2>1. Held(c)
    BY DEF Marks, Roster
  <2>2. CwdOK(c)'
    BY <2>1, SameMembersCwd DEF Held
  <2>3. \A e \in Entries' : entry'[e].cwd = c => EntryOK(e)'
    BY <2>1, TypedFacts DEF Held, SameMembers, SameRole, EntryOK, Entries
  <2>4. ASSUME NEW o \in ops', o.kind \in Handlers, entry'[o.e].cwd = c
        PROVE  HandlerOK(o)'
    <3>1. entry[o.e].cwd = c /\ HandlerOK(o)
      BY <1>1, <2>1, <2>4 DEF SameRole, Held
    <3> QED
      BY <1>1, <2>4, <3>1 DEF SameMembers, SameRole, HandlerOK
  <2>5. ASSUME NEW o \in ops', NEW p \in ops', o.kind \in Handlers, p.kind = o.kind, p.e = o.e,
               entry'[o.e].cwd = c
        PROVE  o = p
    BY <1>1, <2>1, <2>5 DEF SameRole, Held
  <2> QED
    BY <2>2, <2>3, <2>4, <2>5 DEF Held
<1> QED
  BY <1>2, <1>3, <1>4, <1>5 DEF Roster

\* A step that concerns cwd c and its entry e only.
EntryFrame(c, e) ==
  /\ Len(entry) <= Len(entry') /\ e \in 1..Len(entry') /\ entry'[e].cwd = c
  /\ (e \in 1..Len(entry)) => (entry[e].cwd = c)
  /\ \A f \in 1..Len(entry') : f # e => (f \in 1..Len(entry) /\ entry'[f] = entry[f])
  /\ \A d \in Cwd \ {c} : /\ wanted'[d] = wanted[d] /\ entries'[d] = entries[d]
                          /\ keyOf'[d] = keyOf[d]
GroupFrame(c) ==
  /\ Len(group) <= Len(group')
  /\ \A d \in Cwd \ {c} :
       /\ \A g \in 1..Len(group') :
            d \in group'[g].members => (g \in 1..Len(group) /\ d \in group[g].members)
       /\ \A g \in 1..Len(group) : d \in group[g].members => d \in group'[g].members
       /\ InGroup(d) => /\ groups'[RepoOf[d]] = groups[RepoOf[d]]
                        /\ \A o \in ops' : o.kind = "detach" => o.x # RepoOf[d]
  /\ \A r \in Repo \ {RepoOf[c]} :
       /\ groups'[r] = groups[r]
       /\ groups[r] # 0 => /\ group'[groups[r]].repo = group[groups[r]].repo
                           /\ group'[groups[r]].members = group[groups[r]].members
OpFrame(e) ==
  \A o \in ops \cup ops' :
    (o.kind \in Handlers /\ o.e # e) => (o \in ops /\ o \in ops')
ActorFrame(c, e) == EntryFrame(c, e) /\ GroupFrame(c) /\ OpFrame(e)

\* What every step of cwd c leaves true of the maps.
Shared(c, e) ==
  /\ ActorFrame(c, e) /\ MapOK(c)' /\ RepoOK(RepoOf[c])'
  /\ \A o \in ops' : o.e = e => DetachX(o)'

\* What it leaves true of c, unless it marks c.
Own(c, e) ==
  /\ entries[c] \in {0, e} /\ entries'[c] \in {0, e}
  /\ CwdOK(c)' /\ EntryOK(e)'
  /\ \A o \in ops' : o.e = e => HandlerOK(o)'
  /\ \A o, p \in ops' : (o.kind \in Handlers /\ p.kind = o.kind /\ o.e = e /\ p.e = e) => o = p

LEMMA ActorOthers ==
  ASSUME Typed, NEW c \in Cwd, NEW e, ActorFrame(c, e), NEW d \in Cwd \ {c}, CwdOK(d)
  PROVE  CwdOK(d)'
<1> USE DEF ActorFrame, EntryFrame, GroupFrame, OpFrame, Handlers
<1>1. /\ Entries = 1..Len(entry) /\ Groups = 1..Len(group) /\ Groups' = 1..Len(group')
      /\ entries[d] \in 0..Len(entry) /\ groups[RepoOf[d]] \in 0..Len(group)
      /\ wanted'[d] = wanted[d] /\ entries'[d] = entries[d] /\ keyOf'[d] = keyOf[d]
      /\ Len(entry) \in Nat /\ Len(entry') \in Nat
  BY TypedFacts, WatchAssumption DEF Groups
<1>2. ASSUME Outside(d) PROVE Outside(d)'
  BY <1>1, <1>2 DEF Outside
<1>3. CASE Absent(d)
  BY <1>1, <1>2, <1>3 DEF CwdOK, Absent
<1>4. CASE Present(d)
  <2>1. entries[d] \in 1..Len(entry) /\ entries[d] \in 1..Len(entry')
    BY <1>1, <1>4 DEF Present
  <2>2. entries[d] # e /\ entry'[entries[d]] = entry[entries[d]]
    BY <1>4, <2>1 DEF Present
  <2>3. Present(d)'
    BY <1>1, <1>4, <2>2 DEF Present
  <2>4. CASE InGroup(d)
    <3>1. groups'[RepoOf[d]] = groups[RepoOf[d]] /\ groups[RepoOf[d]] \in 1..Len(group)
      BY <1>1, <2>4 DEF InGroup
    <3>2. \A o \in ops' : o.kind = "detach" => o.x # RepoOf[d]
      BY <2>4
    <3> QED
      BY <1>1, <2>2, <2>3, <2>4, <3>1, <3>2 DEF CwdOK, InGroup
  <2>5. CASE Waiting(d)
    BY <1>1, <1>2, <2>2, <2>3, <2>5 DEF CwdOK, Waiting
  <2>6. CASE Idle(d)
    BY <1>1, <1>2, <2>2, <2>3, <2>6 DEF CwdOK, Idle
  <2>7. CASE Leaving(d)
    BY <1>1, <1>2, <2>2, <2>3, <2>7 DEF CwdOK, Leaving
  <2>8. CASE Absent(d)
    BY <1>4, <2>8 DEF Absent, Present
  <2> QED
    BY <2>4, <2>5, <2>6, <2>7, <2>8 DEF CwdOK
<1> QED
  BY <1>3, <1>4 DEF CwdOK

LEMMA ActorStep ==
  ASSUME Typed, Typed', Roster, Marks, NEW c \in Cwd, NEW e, Shared(c, e),
         c \notin raced' => Own(c, e)
  PROVE  Roster'
<1>0. /\ Len(entry) \in Nat /\ Len(entry') \in Nat /\ e \in 1..Len(entry')
      /\ Entries = 1..Len(entry) /\ Entries' = 1..Len(entry')
      /\ \A f \in 1..Len(entry') : f # e => f \in 1..Len(entry) /\ entry'[f] = entry[f]
      /\ entry'[e].cwd = c /\ (e \in 1..Len(entry) => entry[e].cwd = c)
  BY TypedFacts DEF Shared, ActorFrame, EntryFrame, Entries
<1>1. ASSUME NEW o \in ops', o.kind \in Handlers, o.e # e
      PROVE  /\ o \in ops /\ o.e \in 1..Len(entry) /\ entry'[o.e] = entry[o.e]
             /\ entry[o.e].cwd \in Cwd
  <2>1. o \in ops
    BY <1>1 DEF Shared, ActorFrame, OpFrame
  <2>2. o.e \in 1..Len(entry)
    BY <1>1, <2>1, TypedFacts DEF OpTyped, Recomputes, Handlers
  <2>3. o.e \in 1..Len(entry')
    BY <1>0, <2>2 DEF Shared, ActorFrame, EntryFrame
  <2> QED
    BY <1>0, <1>1, <2>1, <2>2, <2>3, TypedFacts
<1>2. ASSUME NEW d \in Cwd PROVE MapOK(d)'
  <2>1. CASE d = c
    BY <2>1 DEF Shared
  <2>2. CASE d # c
    <3>1. MapOK(d) /\ entries'[d] = entries[d] /\ keyOf'[d] = keyOf[d]
          /\ entries[d] \in 0..Len(entry)
      BY <2>2, TypedFacts DEF Roster, Shared, ActorFrame, EntryFrame
    <3>2. entries[d] # 0 => (entries[d] # e /\ entries[d] \in 1..Len(entry'))
      BY <1>0, <2>2, <3>1 DEF MapOK, Shared, ActorFrame, EntryFrame
    <3> QED
      BY <1>0, <3>1, <3>2 DEF MapOK
  <2> QED
    BY <2>1, <2>2
<1>3. ASSUME NEW r \in Repo PROVE RepoOK(r)'
  <2>1. CASE r = RepoOf[c]
    BY <2>1 DEF Shared
  <2>2. CASE r # RepoOf[c]
    <3>1. RepoOK(r) /\ groups'[r] = groups[r]
          /\ (groups[r] # 0 => /\ group'[groups[r]].repo = group[groups[r]].repo
                               /\ group'[groups[r]].members = group[groups[r]].members)
      BY <2>2 DEF Roster, Shared, ActorFrame, GroupFrame
    <3>2. ASSUME NEW o \in ops, o.kind = "detach", o.x = r PROVE o \in ops'
      <4>1. o.e \in 1..Len(entry) /\ RepoOf[entry[o.e].cwd] = r
        BY <3>2, TypedFacts DEF Roster, DetachX, OpTyped
      <4>2. o.e # e
        BY <1>0, <2>2, <4>1
      <4> QED
        BY <3>2, <4>2 DEF Shared, ActorFrame, OpFrame, Handlers
    <3> QED
      BY <3>1, <3>2 DEF RepoOK
  <2> QED
    BY <2>1, <2>2
<1>4. ASSUME NEW o \in ops' PROVE DetachX(o)'
  <2>1. CASE o.e = e
    BY <2>1 DEF Shared
  <2>2. CASE o.e # e
    BY <1>1, <2>2 DEF Roster, DetachX, Handlers
  <2> QED
    BY <2>1, <2>2
<1>5. ASSUME NEW d \in Cwd \ raced', d # c PROVE Held(d)'
  <2>1. Held(d) /\ entries'[d] = entries[d]
    BY <1>5 DEF Marks, Roster, Shared, ActorFrame, EntryFrame
  <2>2. CwdOK(d)'
    BY <1>5, <2>1, ActorOthers DEF Held, Shared
  <2>3. ASSUME NEW f \in Entries', entry'[f].cwd = d PROVE EntryOK(f)'
    <3>1. f \in 1..Len(entry) /\ entry'[f] = entry[f]
      BY <1>0, <1>5, <2>3
    <3> QED
      BY <1>0, <2>1, <2>3, <3>1 DEF Held, EntryOK
  <2>4. ASSUME NEW o \in ops', o.kind \in Handlers, entry'[o.e].cwd = d
        PROVE  o.e # e /\ HandlerOK(o)'
    <3>1. o.e # e
      BY <1>0, <1>5, <2>4
    <3>2. o \in ops /\ entry'[o.e] = entry[o.e]
      BY <1>1, <2>4, <3>1
    <3>3. HandlerOK(o)
      BY <2>1, <2>4, <3>2 DEF Held
    <3> QED
      BY <2>1, <2>4, <3>1, <3>2, <3>3 DEF HandlerOK
  <2>5. ASSUME NEW o \in ops', NEW p \in ops', o.kind \in Handlers, p.kind = o.kind, p.e = o.e,
               entry'[o.e].cwd = d
        PROVE  o = p
    <3>1. o.e # e
      BY <2>4, <2>5
    <3> QED
      BY <1>1, <2>1, <2>5, <3>1 DEF Held
  <2> QED
    BY <2>2, <2>3, <2>4, <2>5 DEF Held
<1>6. ASSUME c \notin raced' PROVE Held(c)'
  <2>1. Held(c) /\ Own(c, e)
    BY <1>6 DEF Marks, Roster
  <2>2. ASSUME NEW f \in Entries', entry'[f].cwd = c PROVE EntryOK(f)'
    <3>1. CASE f = e
      BY <2>1, <3>1 DEF Own
    <3>2. CASE f # e
      <4>1. f \in 1..Len(entry) /\ entry'[f] = entry[f] /\ entry[f].cwd = c
        BY <1>0, <2>2, <3>2
      <4>2. EntryOK(f) /\ entries[c] # f
        BY <1>0, <2>1, <3>2, <4>1 DEF Held, Own
      <4> QED
        BY <4>1, <4>2 DEF EntryOK
    <3> QED
      BY <3>1, <3>2
  <2>3. ASSUME NEW o \in ops', o.kind \in Handlers, entry'[o.e].cwd = c PROVE o.e = e
    <3> SUFFICES ASSUME o.e # e PROVE FALSE
      OBVIOUS
    <3>1. o \in ops /\ o.e \in 1..Len(entry) /\ entry[o.e].cwd = c
      BY <1>1, <2>3
    <3>2. entries[c] = o.e
      BY <2>1, <2>3, <3>1 DEF Held, HandlerOK
    <3> QED
      BY <2>1, <3>1, <3>2 DEF Own
  <2>4. \A o \in ops' : (o.kind \in Handlers /\ entry'[o.e].cwd = c) => HandlerOK(o)'
    BY <2>1, <2>3 DEF Own
  <2>5. \A o, p \in ops' :
          (o.kind \in Handlers /\ p.kind = o.kind /\ p.e = o.e /\ entry'[o.e].cwd = c) => o = p
    BY <2>1, <2>3 DEF Own
  <2>6. CwdOK(c)'
    BY <2>1 DEF Own
  <2> QED
    BY <2>2, <2>4, <2>5, <2>6 DEF Held
<1> QED
  BY <1>2, <1>3, <1>4, <1>5, <1>6 DEF Roster

\* A step of the entry that leaves every group and every detach as it is.
LEMMA SharedSame ==
  ASSUME Typed, Typed', Roster, NEW c \in Cwd, NEW e, EntryFrame(c, e), OpFrame(e),
         UNCHANGED <<groups, group>>, entries'[c] \in {0, e, entries[c]},
         keyOf'[c] \in {NoRepo, keyOf[c]},
         \A o \in ops \cup ops' : o.kind = "detach" => o \in ops /\ o \in ops'
  PROVE  Shared(c, e)
<1>1. GroupFrame(c)
  BY TypedFacts DEF GroupFrame, InGroup
<1>2. MapOK(c)'
  <2>1. MapOK(c) /\ entries[c] \in 0..Len(entry) /\ Len(entry) \in Nat /\ Len(entry') \in Nat
    BY TypedFacts DEF Roster
  <2> QED
    BY <2>1 DEF MapOK, EntryFrame
<1>3. RepoOf[c] \in Repo /\ RepoOK(RepoOf[c])
  BY WatchAssumption DEF Roster
<1>4. RepoOK(RepoOf[c])'
  BY <1>3 DEF RepoOK
<1>5. \A o \in ops' : o.e = e => DetachX(o)'
  <2> SUFFICES ASSUME NEW o \in ops', o.e = e, o.kind = "detach" PROVE DetachX(o)'
    BY DEF DetachX
  <2>1. o \in ops /\ o.e \in 1..Len(entry) /\ DetachX(o)
    BY TypedFacts DEF OpTyped, Roster
  <2> QED
    BY <2>1 DEF DetachX, EntryFrame
<1> QED
  BY <1>1, <1>2, <1>4, <1>5 DEF Shared, ActorFrame

LEMMA EntryFrameBy ==
  ASSUME Typed, NEW c \in Cwd, NEW e \in 1..Len(entry), entry[e].cwd = c,
         ButFor(EntryRec, entry, entry', e), entry'[e].cwd = c,
         \A d \in Cwd \ {c} : /\ wanted'[d] = wanted[d] /\ entries'[d] = entries[d]
                              /\ keyOf'[d] = keyOf[d]
  PROVE  EntryFrame(c, e)
BY TypedFacts DEF EntryFrame, ButFor

\* The handlers that hold an entry.
LEMMA AttachOpFacts ==
  ASSUME Typed, Roster, NEW o \in ops, o.kind = "attach"
  PROVE  /\ o.e \in 1..Len(entry) /\ entry[o.e].cwd \in Cwd
         /\ entry[o.e].cwd \notin raced =>
              /\ entries[entry[o.e].cwd] = o.e /\ Present(entry[o.e].cwd)
              /\ Waiting(entry[o.e].cwd)
<1>1. o.e \in 1..Len(entry) /\ entry[o.e].cwd \in Cwd
  BY TypedFacts DEF OpTyped, Recomputes
<1>2. ASSUME entry[o.e].cwd \notin raced
      PROVE  /\ entries[entry[o.e].cwd] = o.e /\ Present(entry[o.e].cwd)
             /\ Waiting(entry[o.e].cwd)
  <2>1. HandlerOK(o) /\ CwdOK(entry[o.e].cwd)
    BY <1>1, <1>2 DEF Roster, Held, Handlers
  <2>2. entries[entry[o.e].cwd] = o.e /\ entry[o.e].attaching
    BY <2>1 DEF HandlerOK, Handlers
  <2>3. ~Absent(entry[o.e].cwd) /\ Present(entry[o.e].cwd)
    BY <1>1, <2>1, <2>2 DEF Absent, CwdOK
  <2>4. ~InGroup(entry[o.e].cwd) /\ ~Leaving(entry[o.e].cwd) /\ ~Idle(entry[o.e].cwd)
    BY <2>2 DEF InGroup, Leaving, Idle
  <2> QED
    BY <2>1, <2>2, <2>3, <2>4 DEF CwdOK
<1> QED
  BY <1>1, <1>2

LEMMA DetachOpFacts ==
  ASSUME Typed, Roster, NEW o \in ops, o.kind = "detach"
  PROVE  /\ o.e \in 1..Len(entry) /\ entry[o.e].cwd \in Cwd /\ o.x = RepoOf[entry[o.e].cwd]
         /\ o.x \in Repo
         /\ entry[o.e].cwd \notin raced =>
              /\ entries[entry[o.e].cwd] = o.e /\ Present(entry[o.e].cwd)
              /\ Leaving(entry[o.e].cwd)
<1>1. o.e \in 1..Len(entry) /\ entry[o.e].cwd \in Cwd /\ o.x = RepoOf[entry[o.e].cwd]
  BY TypedFacts DEF OpTyped, Roster, DetachX
<1>2. o.x \in Repo
  BY <1>1, WatchAssumption
<1>3. ASSUME entry[o.e].cwd \notin raced
      PROVE  /\ entries[entry[o.e].cwd] = o.e /\ Present(entry[o.e].cwd)
             /\ Leaving(entry[o.e].cwd)
  <2>1. HandlerOK(o) /\ CwdOK(entry[o.e].cwd)
    BY <1>1, <1>3 DEF Roster, Held, Handlers
  <2>2. entries[entry[o.e].cwd] = o.e /\ entry[o.e].detaching /\ ~entry[o.e].attaching
    BY <2>1 DEF HandlerOK, Handlers
  <2>3. ~Absent(entry[o.e].cwd) /\ Present(entry[o.e].cwd)
    BY <1>1, <2>1, <2>2 DEF Absent, CwdOK
  <2>4. ~InGroup(entry[o.e].cwd) /\ ~Waiting(entry[o.e].cwd) /\ ~Idle(entry[o.e].cwd)
    BY <2>2 DEF InGroup, Waiting, Idle
  <2> QED
    BY <2>1, <2>2, <2>3, <2>4 DEF CwdOK
<1> QED
  BY <1>1, <1>2, <1>3

\* What attachWatcherForEntry does to the groups when the entry joins one: E is
\* the entries as the handler left them, O the handlers.
Joining(c, e, E, O) ==
  /\ ButFor(EntryRec, entry, E, e) /\ E[e].cwd = c /\ Joins(E, O, e)
  /\ O \subseteq ops
  /\ \A o \in ops \ O : o.kind # "detach" /\ (o.kind = "attach" => o.e = e)
  /\ \A d \in Cwd \ {c} : wanted'[d] = wanted[d] /\ entries'[d] = entries[d]
  /\ entries'[c] \in {entries[c], e}

LEMMA JoinsShared ==
  ASSUME Typed, Typed', Roster, NEW c \in Cwd, NEW e \in 1..Len(entry), entry[e].cwd = c,
         NEW E, NEW O, Joining(c, e, E, O)
  PROVE  /\ Shared(c, e) /\ ButFor(EntryRec, E, entry', e) /\ ButFor(EntryRec, entry, entry', e)
         /\ entry'[e].cwd = c /\ entry'[e].group = RepoOf[c]
         /\ entry'[e].attached /\ ~entry'[e].attaching
         /\ entry'[e].detaching = E[e].detaching
         /\ keyOf'[c] = RepoOf[c]
         /\ groups'[RepoOf[c]] \in 1..Len(group')
         /\ c \in group'[groups'[RepoOf[c]]].members
         /\ Outside(c) => \A g \in 1..Len(group') : c \in group'[g].members => g = groups'[RepoOf[c]]
         /\ \A o \in ops' : o.kind \in Handlers => o \in O
<1> PICK r \in Repo : r = RepoOf[c]
  BY WatchAssumption
<1>0. /\ ButFor(EntryRec, entry, E, e) /\ E[e].cwd = c /\ Joins(E, O, e)
      /\ O \subseteq ops
      /\ \A o \in ops \ O : o.kind # "detach" /\ (o.kind = "attach" => o.e = e)
      /\ \A d \in Cwd \ {c} : wanted'[d] = wanted[d] /\ entries'[d] = entries[d]
      /\ entries'[c] \in {entries[c], e}
  BY DEF Joining
<1>1. /\ E \in Seq(EntryRec) /\ e \in 1..Len(E) /\ E[e].cwd = c /\ ~E[e].detaching
  BY <1>0 DEF ButFor, Joins
<1>2. entry' = Join(E, e, r) /\ keyOf' = [keyOf EXCEPT ![c] = r]
  BY <1>0, <1>1 DEF Joins
<1>3. /\ ButFor(EntryRec, E, entry', e) /\ entry'[e].cwd = c /\ entry'[e].group = r
      /\ entry'[e].attached /\ ~entry'[e].attaching /\ entry'[e].detaching = E[e].detaching
  BY <1>1, <1>2, JoinedEntry
<1>4. ButFor(EntryRec, entry, entry', e)
  BY <1>0, <1>3, ButForTwice, TypedFacts
<1>5. keyOf'[c] = r /\ \A d \in Cwd \ {c} : keyOf'[d] = keyOf[d]
  BY <1>2, TypedFacts
<1>6. EntryFrame(c, e)
  BY <1>0, <1>3, <1>4, <1>5, EntryFrameBy
<1>7. \/ /\ groups[r] # 0
         /\ group' = WithMembers(group, groups[r], group[groups[r]].members \cup {c})
         /\ ops' = O /\ UNCHANGED groups
      \/ /\ groups[r] = 0 /\ Len(group) + 1 <= MaxGroup
         /\ groups' = [groups EXCEPT ![r] = Len(group) + 1]
         /\ group' = Created(group, r, c)
         /\ ops' = O \cup {Op("access", 0, Len(group) + 1, 0, NoRepo)}
  BY <1>0, <1>1 DEF Joins
<1>8. O \subseteq ops' /\ \A o \in ops' \ O : o.kind = "access"
  BY <1>7 DEF Op
<1>9. /\ \A o \in ops' : o.kind \in Handlers => o \in O
      /\ \A o \in ops \cup ops' : o.kind = "detach" => o \in ops /\ o \in ops'
  BY <1>0, <1>8 DEF Handlers
<1>10. OpFrame(e)
  BY <1>0, <1>8, <1>9 DEF OpFrame, Handlers
<1> PICK h : h = groups'[r]
  OBVIOUS
<1>12. /\ GroupFrame(c) /\ h # 0 /\ h \in 1..Len(group')
       /\ group'[h].repo = r /\ c \in group'[h].members
       /\ Outside(c) => \A g \in 1..Len(group') : c \in group'[g].members => g = h
  <2>1. CASE /\ groups[r] # 0
             /\ group' = WithMembers(group, groups[r], group[groups[r]].members \cup {c})
             /\ ops' = O /\ UNCHANGED groups
    <3>1. h = groups[r] /\ h \in 1..Len(group) /\ RepoOK(r)
      BY <2>1, TypedFacts DEF Roster
    <3>2. group[h].members \cup {c} \in SUBSET Cwd
      BY <3>1, DisposeNat, TypedFacts
    <3>3. /\ ButFor(GroupRec, group, group', h) /\ SameWatch(group[h], group'[h])
          /\ group'[h].members = group[h].members \cup {c}
      <4> DEFINE m == group[h].members \cup {c}
      <4>1. group' = WithMembers(group, h, m) /\ m \in SUBSET Cwd
        BY <2>1, <3>1, <3>2
      <4> HIDE DEF m
      <4>2. /\ ButFor(GroupRec, group, group', h) /\ SameWatch(group[h], group'[h])
            /\ group'[h].members = m
        BY <3>1, <4>1, MembersGroup, TypedFacts
      <4> QED
        BY <4>2 DEF m
    <3>4. Len(group') = Len(group) /\ \A g \in 1..Len(group) : g # h => group'[g] = group[g]
      BY <3>3 DEF ButFor
    <3>5. group'[h].repo = r
      BY <2>1, <3>1, <3>3 DEF RepoOK, SameWatch
    <3>6. \A s \in Repo : (s # r /\ groups[s] # 0) => (groups[s] # h /\ groups[s] \in 1..Len(group))
      <4> TAKE s \in Repo
      <4> HAVE s # r /\ groups[s] # 0
      <4>1. RepoOK(s) /\ group[groups[s]].repo = s /\ group[h].repo = r
        BY <2>1, <3>1 DEF Roster, RepoOK
      <4> QED
        BY <4>1, TypedFacts
    <3>7. GroupFrame(c)
      <4>1. \A d \in Cwd \ {c}, g \in 1..Len(group) :
              d \in group'[g].members <=> d \in group[g].members
        BY <3>3, <3>4
      <4>2. /\ UNCHANGED groups /\ Len(group') = Len(group) /\ Len(group) <= Len(group')
            /\ \A s \in Repo : groups[s] \in 0..Len(group)
        BY <2>1, <3>4, TypedFacts
      <4>3. \A s \in Repo \ {RepoOf[c]} : groups[s] # 0 => group'[groups[s]] = group[groups[s]]
        BY <3>4, <3>6
      <4>4. \A d \in Cwd : InGroup(d) => \A o \in ops' : o.kind = "detach" => o.x # RepoOf[d]
        BY <1>9 DEF InGroup
      <4> QED
        BY <4>1, <4>2, <4>3, <4>4 DEF GroupFrame
    <3>8. Outside(c) => \A g \in 1..Len(group') : c \in group'[g].members => g = h
      BY <3>4, TypedFacts DEF Outside
    <3> QED
      BY <2>1, <3>1, <3>3, <3>4, <3>5, <3>7, <3>8
  <2>2. CASE /\ groups[r] = 0
             /\ groups' = [groups EXCEPT ![r] = Len(group) + 1]
             /\ group' = Created(group, r, c)
    <3>1. /\ group' \in Seq(GroupRec) /\ Len(group') = Len(group) + 1
          /\ \A g \in 1..Len(group) : group'[g] = group[g]
          /\ group'[Len(group) + 1].repo = r /\ group'[Len(group) + 1].members = {c}
      BY <2>2, CreatedGroup, TypedFacts
    <3>2. h = Len(group) + 1 /\ \A s \in Repo \ {r} : groups'[s] = groups[s]
      BY <2>2, TypedFacts
    <3>3. \A g \in 1..Len(group') : g # h => g \in 1..Len(group)
      BY <3>1, <3>2, TypedFacts
    <3>4. \A d \in Cwd, g \in 1..Len(group') :
            d \in group'[g].members => (d = c \/ (g \in 1..Len(group) /\ d \in group[g].members))
      BY <3>1, <3>2, <3>3
    <3>5. GroupFrame(c)
      <4>1. \A s \in Repo : groups[s] # 0 => groups[s] \in 1..Len(group)
        BY TypedFacts
      <4>2. \A d \in Cwd : RepoOf[d] \in Repo
        BY WatchAssumption
      <4>3. \A d \in Cwd : InGroup(d) => RepoOf[d] # r
        BY <2>2 DEF InGroup
      <4>4. Len(group) <= Len(group')
        BY <3>1, TypedFacts
      <4>5. \A d \in Cwd : InGroup(d) => \A o \in ops' : o.kind = "detach" => o.x # RepoOf[d]
        BY <1>9 DEF InGroup
      <4> QED
        BY <3>1, <3>2, <3>4, <4>1, <4>2, <4>3, <4>4, <4>5 DEF GroupFrame
    <3>6. Outside(c) => \A g \in 1..Len(group') : c \in group'[g].members => g = h
      BY <3>1, <3>3, TypedFacts DEF Outside
    <3> QED
      BY <3>1, <3>2, <3>5, <3>6, TypedFacts
  <2> QED
    BY <1>7, <2>1, <2>2
<1>13. MapOK(c)'
  <2>1. MapOK(c) /\ entries[c] \in 0..Len(entry) /\ Len(entry) \in Nat /\ Len(entry') \in Nat
    BY TypedFacts DEF Roster
  <2> QED
    BY <1>0, <1>3, <1>5, <1>6, <2>1 DEF MapOK, EntryFrame
<1>14. RepoOK(r)'
  BY <1>12 DEF RepoOK
<1>15. \A o \in ops' : o.e = e => DetachX(o)'
  <2> SUFFICES ASSUME NEW o \in ops', o.e = e, o.kind = "detach" PROVE DetachX(o)'
    BY DEF DetachX
  <2>1. o \in ops /\ DetachX(o)
    BY <1>9 DEF Roster
  <2> QED
    BY <1>3, <2>1 DEF DetachX
<1> QED
  BY <1>3, <1>4, <1>5, <1>6, <1>9, <1>10, <1>12, <1>13, <1>14, <1>15 DEF Shared, ActorFrame

\* What a joining cwd is before it joins: wanted, held, in no group, with no
\* handler but the one that ends.
Joinable(c, e, E, O) ==
  /\ entries[c] = e /\ wanted[c] /\ Outside(c)
  /\ SameRole(entry[e], E[e])
  /\ \A o \in O : o.kind \in Handlers => o.e # e

LEMMA JoinsOwn ==
  ASSUME Typed, Typed', Roster, Marks, NEW c \in Cwd, c \notin raced',
         NEW e \in 1..Len(entry), entry[e].cwd = c, NEW E, NEW O, Joining(c, e, E, O),
         Joinable(c, e, E, O), UNCHANGED <<wanted, entries>>
  PROVE  Own(c, e)
<1>1. /\ entry'[e].cwd = c /\ entry'[e].group = RepoOf[c]
      /\ entry'[e].attached /\ ~entry'[e].attaching /\ entry'[e].detaching = E[e].detaching
      /\ keyOf'[c] = RepoOf[c] /\ groups'[RepoOf[c]] \in 1..Len(group')
      /\ c \in group'[groups'[RepoOf[c]]].members
      /\ \A g \in 1..Len(group') : c \in group'[g].members => g = groups'[RepoOf[c]]
      /\ \A o \in ops' : o.kind \in Handlers => o \in O
  BY JoinsShared DEF Joinable
<1>2. ~entry'[e].detaching
  BY <1>1 DEF Joining, Joins
<1>3. RepoOf[c] \in Repo /\ RepoOf[c] # NoRepo
  BY WatchAssumption
<1>4. DetachesOf(RepoOf[c]) = {}
  <2>1. keyOf[c] = NoRepo /\ keyOf'[c] # NoRepo
    BY <1>1, <1>3 DEF Joinable, Outside
  <2> QED
    BY <2>1 DEF Marks, JoinedLate
<1>5. \A o \in ops' : o.kind = "detach" => o.x # RepoOf[c]
  <2> SUFFICES ASSUME NEW o \in ops', o.kind = "detach", o.x = RepoOf[c] PROVE FALSE
    OBVIOUS
  <2>1. o \in ops
    BY <1>1 DEF Joining, Handlers
  <2>2. RepoOf[entry[o.e].cwd] = RepoOf[c]
    BY <2>1 DEF Roster, DetachX
  <2> QED
    BY <1>4, <2>1, <2>2 DEF DetachesOf
<1>6. CwdOK(c)'
  <2>1. Groups' = 1..Len(group')
    BY DEF Groups
  <2> QED
    BY <1>1, <1>2, <1>5, <2>1 DEF CwdOK, Present, InGroup, Joinable
<1>7. EntryOK(e)'
  BY <1>1 DEF EntryOK, Joinable
<1>8. \A o \in ops' : o.kind \in Handlers => o.e # e
  BY <1>1 DEF Joinable
<1>9. \A o \in ops' : o.e = e => HandlerOK(o)'
  BY <1>8 DEF HandlerOK, Handlers
<1> QED
  BY <1>6, <1>7, <1>8, <1>9 DEF Own, Joinable

\* The outcomes of attachWatcherForEntry, for any cwd.
LEMMA AttachWatcherShared ==
  ASSUME Typed, Typed', Roster, NEW c \in Cwd, NEW e \in 1..Len(entry), entry[e].cwd = c,
         NEW E, ButFor(EntryRec, entry, E, e), E[e].cwd = c,
         NEW O, AttachWatcher(E, O, e), O \subseteq ops,
         \A o \in ops \ O : o.kind # "detach" /\ (o.kind = "attach" => o.e = e),
         \A d \in Cwd \ {c} : wanted'[d] = wanted[d] /\ entries'[d] = entries[d],
         entries'[c] \in {entries[c], e}
  PROVE  Shared(c, e)
<1>1. E \in Seq(EntryRec) /\ e \in 1..Len(E)
  BY DEF ButFor
<1>2. \/ /\ entry' = E \/ entry' = EndWait(E, e)
         /\ ops' = O /\ UNCHANGED <<keyOf, groups, group>>
      \/ Joins(E, O, e)
  BY <1>1, AttachOutcomes
<1>3. CASE /\ entry' = E \/ entry' = EndWait(E, e)
           /\ ops' = O /\ UNCHANGED <<keyOf, groups, group>>
  <2>1. ButFor(EntryRec, E, EndWait(E, e), e) /\ EndWait(E, e)[e].cwd = c
    BY <1>1, EndedEntry
  <2>2. ButFor(EntryRec, entry, entry', e) /\ entry'[e].cwd = c
    BY <1>3, <2>1, ButForTwice, TypedFacts
  <2>3. EntryFrame(c, e)
    BY <1>3, <2>2, EntryFrameBy
  <2>4. OpFrame(e)
    BY <1>3 DEF OpFrame, Handlers
  <2> QED
    BY <1>3, <2>3, <2>4, SharedSame
<1>4. CASE Joins(E, O, e)
  <2>1. Joining(c, e, E, O)
    BY <1>4 DEF Joining
  <2> QED
    BY <2>1, JoinsShared
<1> QED
  BY <1>2, <1>3, <1>4

LEMMA AttachShared ==
  ASSUME Typed, Typed', Roster, NEW c \in Cwd, Attach(c)
  PROVE  Shared(c, AttachEntry(c))
<1> PICK e : e = AttachEntry(c)
  OBVIOUS
<1> DEFINE E == AttachBase(c)
<1>1. /\ wanted' = [wanted EXCEPT ![c] = TRUE] /\ entries' = [entries EXCEPT ![c] = e]
      /\ MapOK(c)
  BY AttachForms DEF Roster
<1>2. /\ entries'[c] = e
      /\ \A d \in Cwd \ {c} : wanted'[d] = wanted[d] /\ entries'[d] = entries[d]
  BY <1>1, TypedFacts DEF Typed, WorldTyped
<1>3. CASE entries[c] = 0
  <2>1. e = Len(entry) + 1 /\ E = Append(entry, NewEntry(c)) /\ NewEntry(c) \in EntryRec
    BY <1>3 DEF AttachEntry, AttachBase, NewEntry, EntryRec
  <2>2. /\ E \in Seq(EntryRec) /\ Len(E) = e /\ E[e] = NewEntry(c)
        /\ \A f \in 1..Len(entry) : E[f] = entry[f]
    BY <2>1, SeqAdd, TypedFacts
  <2>3. /\ entry' = Begin(Wait(E, e), e)
        /\ ops' = ops \cup {Op("attach", e, 0, 0, NoRepo)}
        /\ UNCHANGED <<keyOf, groups, group>>
    BY <2>2, AttachForms DEF NewEntry
  <2> HIDE DEF E
  <2>4. e \in 1..Len(E)
    BY <2>1, <2>2, TypedFacts
  <2>5. ButFor(EntryRec, E, Wait(E, e), e) /\ Wait(E, e)[e].cwd = c
    BY <2>2, <2>4, WaitingEntry DEF NewEntry
  <2>6. ButFor(EntryRec, Wait(E, e), entry', e) /\ entry'[e].cwd = c
    <3>1. Wait(E, e) \in Seq(EntryRec) /\ e \in 1..Len(Wait(E, e))
      BY <2>4, <2>5 DEF ButFor
    <3> QED
      BY <2>3, <2>5, <3>1, BegunEntry DEF SameRole
  <2>7. ButFor(EntryRec, E, entry', e)
    BY <2>2, <2>5, <2>6, ButForTwice
  <2>8. Len(entry') = e /\ \A f \in 1..e : f # e => entry'[f] = E[f]
    BY <2>2, <2>7 DEF ButFor
  <2>9. \A f \in 1..Len(entry') : f # e => (f \in 1..Len(entry) /\ entry'[f] = entry[f])
    BY <2>1, <2>2, <2>8, TypedFacts
  <2>10. e \notin 1..Len(entry) /\ Len(entry) <= Len(entry') /\ e \in 1..Len(entry')
    BY <2>1, <2>4, <2>8, TypedFacts
  <2>11. EntryFrame(c, e)
    BY <1>2, <2>3, <2>6, <2>9, <2>10 DEF EntryFrame
  <2>12. OpFrame(e) /\ \A o \in ops \cup ops' : o.kind = "detach" => o \in ops /\ o \in ops'
    BY <2>3 DEF OpFrame, Op
  <2> QED
    BY <1>2, <2>3, <2>11, <2>12, SharedSame
<1>4. CASE entries[c] # 0
  <2>1. e = entries[c] /\ e \in 1..Len(entry) /\ entry[e].cwd = c /\ E = entry
    BY <1>1, <1>4, TypedFacts DEF AttachEntry, AttachBase, MapOK
  <2>2. \/ entry' = Resumed(entry, e) /\ UNCHANGED <<ops, keyOf, groups, group>>
        \/ /\ entry' = Begin(Wait(entry, e), e)
           /\ ops' = ops \cup {Op("attach", e, 0, 0, NoRepo)}
           /\ UNCHANGED <<keyOf, groups, group>>
        \/ AttachWatcher(Queue(Wait(entry, e), e), ops, e)
    BY <2>1, AttachForms
  <2>3. /\ ButFor(EntryRec, entry, Resumed(entry, e), e) /\ Resumed(entry, e)[e].cwd = c
        /\ ButFor(EntryRec, entry, Wait(entry, e), e) /\ Wait(entry, e)[e].cwd = c
    BY <2>1, ResumedEntry, WaitingEntry, TypedFacts
  <2> DEFINE W == Wait(entry, e)  B == Begin(W, e)  Q == Queue(W, e)
  <2>4. W \in Seq(EntryRec) /\ e \in 1..Len(W)
    BY <2>1, <2>3 DEF ButFor
  <2>5. /\ ButFor(EntryRec, W, B, e) /\ B[e].cwd = W[e].cwd
        /\ ButFor(EntryRec, W, Q, e) /\ Q[e].cwd = W[e].cwd
    <3> HIDE DEF W
    <3> QED
      BY <2>4, BegunEntry, QueuedEntry DEF SameRole
  <2>6. /\ ButFor(EntryRec, entry, B, e) /\ B[e].cwd = c
        /\ ButFor(EntryRec, entry, Q, e) /\ Q[e].cwd = c
    <3> HIDE DEF B, Q
    <3> QED
      BY <2>3, <2>4, <2>5, ButForTwice, TypedFacts
  <2>7. CASE AttachWatcher(Q, ops, e)
    <3> HIDE DEF Q
    <3> QED
      BY <1>2, <2>1, <2>6, <2>7, AttachWatcherShared
  <2>8. CASE /\ UNCHANGED <<keyOf, groups, group>>
             /\ \/ entry' = Resumed(entry, e) /\ UNCHANGED ops
                \/ entry' = B /\ ops' = ops \cup {Op("attach", e, 0, 0, NoRepo)}
    <3>1. ButFor(EntryRec, entry, entry', e) /\ entry'[e].cwd = c
      BY <2>3, <2>6, <2>8
    <3>2. EntryFrame(c, e)
      BY <1>2, <2>1, <2>8, <3>1, EntryFrameBy
    <3>3. OpFrame(e) /\ \A o \in ops \cup ops' : o.kind = "detach" => o \in ops /\ o \in ops'
      BY <2>8 DEF OpFrame, Op
    <3> QED
      BY <1>2, <2>8, <3>2, <3>3, SharedSame
  <2> QED
    BY <2>2, <2>7, <2>8
<1> QED
  BY <1>3, <1>4

LEMMA AttachRoster ==
  ASSUME Typed, Typed', Roster, Marks, NEW c \in Cwd, Attach(c)
  PROVE  Roster'
<1> PICK e : e = AttachEntry(c)
  OBVIOUS
<1> DEFINE E == AttachBase(c)
<1> SUFFICES ASSUME c \notin raced' PROVE Own(c, e)
  BY AttachShared, ActorStep
<1>1. /\ ~wanted[c] /\ wanted' = [wanted EXCEPT ![c] = TRUE]
      /\ entries' = [entries EXCEPT ![c] = e] /\ Held(c)
  BY AttachForms DEF Marks, Roster
<1>2. wanted'[c] /\ entries'[c] = e /\ CwdOK(c)
  BY <1>1, TypedFacts DEF Typed, WorldTyped, Held
<1>3. \A o \in ops : o.kind = "detach" => entry[o.e].cwd # c
  <2> SUFFICES ASSUME NEW o \in ops, o.kind = "detach", entry[o.e].cwd = c PROVE FALSE
    OBVIOUS
  <2>1. o \in DetachesOf(RepoOf[c])
    BY DEF DetachesOf
  <2> QED
    BY <1>1, <1>2, <2>1 DEF Marks, Reattached
<1>5. CASE Absent(c)
  <2>1. /\ entries[c] = 0 /\ e = Len(entry) + 1 /\ E = Append(entry, NewEntry(c)) /\ Outside(c)
    BY <1>5 DEF Absent, AttachEntry, AttachBase
  <2>2. NewEntry(c) \in EntryRec
    BY DEF NewEntry, EntryRec
  <2>3. /\ E \in Seq(EntryRec) /\ Len(E) = e /\ E[e] = NewEntry(c)
    BY <2>1, <2>2, SeqAdd, TypedFacts
  <2>4. /\ entry' = Begin(Wait(E, e), e)
        /\ ops' = ops \cup {Op("attach", e, 0, 0, NoRepo)}
        /\ UNCHANGED <<keyOf, groups, group>>
    BY <2>3, AttachForms DEF NewEntry
  <2> PICK n : n = Op("attach", e, 0, 0, NoRepo)
    OBVIOUS
  <2> HIDE DEF E
  <2>7. e \in 1..Len(E) /\ e \in Nat /\ e # 0
    BY <2>1, <2>3, TypedFacts
  <2>8. /\ ButFor(EntryRec, E, Wait(E, e), e) /\ Wait(E, e)[e].cwd = c
        /\ Wait(E, e)[e].group = NoRepo /\ ~Wait(E, e)[e].attached
        /\ Wait(E, e)[e].attaching /\ ~Wait(E, e)[e].detaching
    BY <2>3, <2>7, WaitingEntry DEF NewEntry
  <2>9. SameRole(Wait(E, e)[e], entry'[e])
    <3>1. Wait(E, e) \in Seq(EntryRec) /\ e \in 1..Len(Wait(E, e))
      BY <2>7, <2>8 DEF ButFor
    <3> QED
      BY <2>4, <3>1, BegunEntry
  <2>11. /\ entry'[e].cwd = c /\ entry'[e].group = NoRepo /\ ~entry'[e].attached
         /\ entry'[e].attaching /\ ~entry'[e].detaching
    BY <2>8, <2>9 DEF SameRole
  <2>13. \A o \in ops : o.kind \in Handlers => o.e # e
    BY <2>1, <2>3, TypedFacts DEF OpTyped, Recomputes, Handlers
  <2>14. n.kind = "attach" /\ n.e = e /\ ops' = ops \cup {n}
    BY <2>4 DEF Op
  <2>16. CwdOK(c)'
    <3>1. Outside(c)'
      BY <2>1, <2>4 DEF Outside, Groups
    <3>2. Waiting(c)' /\ Present(c)'
      BY <1>2, <2>7, <2>11, <2>14, <3>1 DEF Waiting, Present
    <3> QED
      BY <3>2 DEF CwdOK
  <2>17. EntryOK(e)'
    BY <1>2, <2>11 DEF EntryOK
  <2>18. \A o \in ops' : (o.e = e /\ o.kind \in Handlers) => o = n
    BY <2>13, <2>14
  <2>19. HandlerOK(n)'
    BY <1>2, <2>11, <2>14 DEF HandlerOK
  <2>20. \A o \in ops' : o.e = e => HandlerOK(o)'
    BY <2>18, <2>19 DEF HandlerOK, Handlers
  <2> QED
    BY <1>2, <2>1, <2>16, <2>17, <2>18, <2>20 DEF Own
<1>6. CASE Present(c) /\ Waiting(c)
  <2>1. /\ e = entries[c] /\ E = entry /\ e \in 1..Len(entry) /\ entry[e].cwd = c
        /\ entry[e].attaching /\ ~entry[e].attached /\ entry[e].group = NoRepo /\ Outside(c)
        /\ \E o \in ops : o.kind = "attach" /\ o.e = e
    BY <1>6, TypedFacts DEF Present, Waiting, AttachEntry, AttachBase
  <2>2. entry' = Resumed(E, e) /\ UNCHANGED <<ops, keyOf, groups, group>>
    BY <2>1, AttachForms
  <2> HIDE DEF E
  <2>3. /\ entry'[e].cwd = c /\ entry'[e].group = NoRepo
        /\ ~entry'[e].attached /\ entry'[e].attaching /\ ~entry'[e].detaching
    BY <2>1, <2>2, ResumedEntry, TypedFacts
  <2>6. CwdOK(c)'
    <3>1. Outside(c)'
      BY <2>1, <2>2 DEF Outside, Groups
    <3>2. Waiting(c)' /\ Present(c)'
      BY <1>2, <2>1, <2>2, <2>3, <3>1 DEF Waiting, Present
    <3> QED
      BY <3>2 DEF CwdOK
  <2>7. EntryOK(e)'
    BY <1>2, <2>3 DEF EntryOK
  <2>8. \A o \in ops' : o.e = e => HandlerOK(o)'
    <3> SUFFICES ASSUME NEW o \in ops, o.e = e, o.kind \in Handlers PROVE HandlerOK(o)'
      BY <2>2 DEF HandlerOK, Handlers
    <3>1. o.kind # "detach"
      BY <1>3, <2>1
    <3> QED
      BY <1>2, <2>3, <3>1 DEF HandlerOK, Handlers
  <2>10. \A o, p \in ops' :
           (o.kind \in Handlers /\ p.kind = o.kind /\ o.e = e /\ p.e = e) => o = p
    BY <1>1, <2>1, <2>2 DEF Held
  <2> QED
    BY <1>2, <2>1, <2>6, <2>7, <2>8, <2>10 DEF Own
<1>7. CASE Present(c) /\ Leaving(c)
  <2>1. PICK o \in ops : o.kind = "detach" /\ o.e = entries[c]
    BY <1>7 DEF Leaving
  <2> QED
    BY <1>3, <1>7, <2>1 DEF Present
<1> QED
  BY <1>1, <1>2, <1>5, <1>6, <1>7 DEF CwdOK, InGroup, Idle

LEMMA WatcherSameMembers ==
  ASSUME Typed, NEW g \in 1..Len(group), WatcherStep(g)
  PROVE  SameMembers
<1>1. /\ UNCHANGED <<wanted, entries, keyOf, groups, entry>>
      /\ ButFor(GroupRec, group, group', g) /\ Keeps(group[g], group'[g])
      /\ \A o \in ops' \ ops : o.e = 0 /\ OpTyped(o, Len(entry), Len(group), Len(sub'))
      /\ \A o \in ops \ ops' : o.e = 0
  BY DEF WatcherStep
<1>2. \A e \in 1..Len(entry) : SameRole(entry[e], entry'[e])
  BY <1>1 DEF SameRole
<1>3. /\ Len(group') = Len(group)
      /\ \A h \in 1..Len(group) : group'[h].repo = group[h].repo /\ group'[h].members = group[h].members
  BY <1>1 DEF ButFor, Keeps
<1>4. \A o \in ops \cup ops' : o.kind \in Handlers => (o \in ops /\ o \in ops')
  <2>1. \A o \in ops \cup ops' : o.kind \in Handlers => o.e # 0
    BY <1>1, TypedFacts DEF OpTyped, Recomputes, Handlers
  <2> QED
    BY <1>1, <2>1
<1> QED
  BY <1>1, <1>2, <1>3, <1>4 DEF SameMembers

\* An entry whose group is unset and that is neither attaching nor detaching is
\* idle.
LEMMA IdleEntry ==
  ASSUME Typed, Roster, NEW e \in 1..Len(entry), entry[e].cwd \notin raced,
         entry[e].group = NoRepo, ~entry[e].attaching, ~entry[e].detaching
  PROVE  entries[entry[e].cwd] = e /\ Idle(entry[e].cwd)
<1>1. entry[e].cwd \in Cwd /\ RepoOf[entry[e].cwd] \in Repo
  BY TypedFacts, WatchAssumption
<1>2. EntryOK(e) /\ CwdOK(entry[e].cwd)
  BY <1>1, TypedFacts DEF Roster, Held
<1>3. entries[entry[e].cwd] = e
  BY <1>2 DEF EntryOK
<1>4. ~Absent(entry[e].cwd) /\ ~Waiting(entry[e].cwd) /\ ~Leaving(entry[e].cwd)
  BY <1>3 DEF Absent, Waiting, Leaving
<1>5. ~InGroup(entry[e].cwd)
  BY <1>1, <1>3, WatchAssumption DEF InGroup
<1> QED
  BY <1>2, <1>3, <1>4, <1>5 DEF CwdOK

LEMMA RecomputeRoster ==
  ASSUME Typed, Typed', Roster, Marks, NEW o, RecomputeResumes(o)
  PROVE  Roster'
<1>1. /\ o \in ops /\ o.kind \in {"revalidate", "recompute"}
      /\ o.e \in 1..Len(entry)
      /\ UNCHANGED <<wanted, pathUp, sub, entries>>
  BY TypedFacts DEF RecomputeResumes, OpTyped, Recomputes, env
<1>2. PICK found \in Found :
        LET E == Recomputed(o.e, found) IN
        \/ /\ E[o.e].known /\ E[o.e].group = NoRepo /\ ~E[o.e].detaching /\ ~E[o.e].attaching
           /\ AttachWatcher(E, ops \ {o}, o.e)
        \/ /\ entry' = E /\ ops' = ops \ {o}
           /\ UNCHANGED <<keyOf, groups, group>>
  BY DEF RecomputeResumes
<1> DEFINE E == Recomputed(o.e, found)
<1>3. /\ ButFor(EntryRec, entry, E, o.e) /\ SameRole(entry[o.e], E[o.e])
      /\ E \in Seq(EntryRec) /\ o.e \in 1..Len(E)
  <2>1. found \in BOOLEAN
    BY <1>1, FoundTyped
  <2>2. ButFor(EntryRec, entry, E, o.e) /\ SameRole(entry[o.e], E[o.e])
    BY <1>1, <2>1, RecomputedEntry, TypedFacts
  <2> QED
    BY <1>1, <2>2 DEF ButFor
<1> HIDE DEF E
<1>4. CASE entry' = E /\ ops' = ops \ {o} /\ UNCHANGED <<keyOf, groups, group>>
  <2>1. Len(entry') = Len(entry) /\ \A f \in 1..Len(entry) : SameRole(entry[f], entry'[f])
    BY <1>3, <1>4 DEF ButFor, SameRole
  <2>2. SameMembers
    BY <1>1, <1>4, <2>1 DEF SameMembers, Handlers
  <2> QED
    BY <2>2, SameMembersStep
<1>5. CASE /\ E[o.e].known /\ E[o.e].group = NoRepo /\ ~E[o.e].detaching /\ ~E[o.e].attaching
           /\ AttachWatcher(E, ops \ {o}, o.e)
  <2> PICK c, e : c = entry[o.e].cwd /\ e = o.e
    OBVIOUS
  <2> PICK O : O = ops \ {o}
    OBVIOUS
  <2>1. Joins(E, O, e)
    BY <1>3, <1>5, AttachOutcomes
  <2>2. /\ entry[e].group = NoRepo /\ ~entry[e].attaching /\ ~entry[e].detaching
        /\ c \in Cwd /\ e \in 1..Len(entry) /\ E[e].cwd = c
    BY <1>1, <1>3, <1>5, TypedFacts DEF SameRole
  <2>3. Joining(c, e, E, O)
    BY <1>1, <1>3, <2>1, <2>2 DEF Joining
  <2>4. Shared(c, e)
    BY <2>2, <2>3, JoinsShared
  <2>5. ASSUME c \notin raced' PROVE Own(c, e)
    <3>1. c \notin raced
      BY <2>5 DEF Marks
    <3>2. entries[c] = e /\ Idle(c)
      BY <2>2, <3>1, IdleEntry
    <3>3. \A p \in ops : p.kind \in Handlers => p.e # e
      BY <2>2, <3>1, <3>2, AttachOpFacts, DetachOpFacts DEF Waiting, Leaving, Handlers
    <3>4. Joinable(c, e, E, O)
      BY <1>1, <1>3, <3>2, <3>3 DEF Joinable, Idle
    <3> QED
      BY <1>1, <2>2, <2>3, <2>5, <3>4, JoinsOwn
  <2> QED
    BY <2>2, <2>4, <2>5, ActorStep
<1> QED
  BY <1>2, <1>4, <1>5 DEF E

LEMMA AttachResumesRoster ==
  ASSUME Typed, Typed', Roster, Marks, NEW o, AttachResumes(o)
  PROVE  Roster'
<1>1. /\ o \in ops /\ o.kind = "attach" /\ UNCHANGED <<wanted, pathUp, sub>>
  BY DEF AttachResumes, env
<1> PICK c, e, O : c = entry[o.e].cwd /\ e = o.e /\ O = ops \ {o}
  OBVIOUS
<1>2. e \in 1..Len(entry) /\ c \in Cwd /\ entry[e].cwd = c
  BY <1>1, AttachOpFacts
<1>3. PICK found \in Found :
        LET E == Recomputed(e, found) IN
        \/ /\ entry[e].detaching /\ entry' = EndWait(E, e)
           /\ entries' = [entries EXCEPT ![c] = 0]
           /\ ops' = O
           /\ UNCHANGED <<keyOf, groups, group>>
        \/ /\ ~entry[e].detaching
           /\ AttachWatcher(E, O, e)
           /\ UNCHANGED entries
  BY DEF AttachResumes, EndWait
<1> DEFINE E == Recomputed(e, found)
<1>4. /\ ButFor(EntryRec, entry, E, e) /\ SameRole(entry[e], E[e]) /\ E[e].cwd = c
      /\ E \in Seq(EntryRec) /\ e \in 1..Len(E)
  <2>1. found \in BOOLEAN
    BY FoundTyped
  <2>2. ButFor(EntryRec, entry, E, e) /\ SameRole(entry[e], E[e])
    BY <1>2, <2>1, RecomputedEntry, TypedFacts
  <2> QED
    BY <1>2, <2>2 DEF ButFor, SameRole
<1> HIDE DEF E
<1>5. /\ ButFor(EntryRec, entry, EndWait(E, e), e) /\ EndWait(E, e)[e].cwd = c
      /\ EndWait(E, e)[e].group = entry[e].group
      /\ EndWait(E, e)[e].attached = entry[e].attached
      /\ ~EndWait(E, e)[e].attaching /\ EndWait(E, e)[e].detaching = entry[e].detaching
  <2>1. /\ ButFor(EntryRec, E, EndWait(E, e), e) /\ EndWait(E, e)[e].cwd = E[e].cwd
        /\ EndWait(E, e)[e].group = E[e].group /\ EndWait(E, e)[e].attached = E[e].attached
        /\ ~EndWait(E, e)[e].attaching /\ EndWait(E, e)[e].detaching = E[e].detaching
    BY <1>4, EndedEntry
  <2> QED
    BY <1>2, <1>4, <2>1, ButForTwice, TypedFacts DEF SameRole
<1>6. /\ O \subseteq ops
      /\ \A p \in ops \ O : p.kind # "detach" /\ (p.kind = "attach" => p.e = e)
  BY <1>1
<1>7. Shared(c, e)
  <2>1. CASE entry[e].detaching
    <3>1. /\ entry' = EndWait(E, e) /\ entries' = [entries EXCEPT ![c] = 0]
          /\ ops' = O /\ UNCHANGED <<keyOf, groups, group>>
      BY <1>3, <2>1 DEF E
    <3>2. entries'[c] = 0 /\ \A d \in Cwd \ {c} : entries'[d] = entries[d]
      BY <1>2, <3>1, TypedFacts
    <3>3. EntryFrame(c, e)
      BY <1>1, <1>2, <1>5, <3>1, <3>2, EntryFrameBy
    <3>4. OpFrame(e) /\ \A p \in ops \cup ops' : p.kind = "detach" => p \in ops /\ p \in ops'
      BY <1>6, <3>1 DEF OpFrame, Handlers
    <3> QED
      BY <1>2, <3>1, <3>2, <3>3, <3>4, SharedSame
  <2>2. CASE ~entry[e].detaching
    <3>1. AttachWatcher(E, O, e) /\ UNCHANGED <<wanted, entries>>
      BY <1>1, <1>3, <2>2 DEF E
    <3> QED
      BY <1>2, <1>4, <1>6, <3>1, AttachWatcherShared
  <2> QED
    BY <2>1, <2>2
<1> SUFFICES ASSUME c \notin raced' PROVE Own(c, e)
  BY <1>2, <1>7, ActorStep
<1>8. c \notin raced /\ Held(c)
  BY <1>2 DEF Marks, Roster
<1>9. entries[c] = e /\ Present(c) /\ Waiting(c)
  BY <1>1, <1>8, AttachOpFacts
<1>10. /\ ~entry[e].attached /\ entry[e].attaching /\ entry[e].group = NoRepo
       /\ (entry[e].detaching <=> ~wanted[c]) /\ Outside(c)
  BY <1>9 DEF Waiting
<1>11. \A p \in O : p.kind \in Handlers => p.e # e
  <2> TAKE p \in O
  <2>1. p.kind = "attach" => p.e # e
    BY <1>1, <1>2, <1>8 DEF Held, Handlers
  <2>2. p.kind = "detach" => p.e # e
    BY <1>2, <1>8, <1>9, <1>10, DetachOpFacts DEF Leaving
  <2> QED
    BY <2>1, <2>2 DEF Handlers
\* The cwd was released, or turned out to be no repository.
<1>12. CASE /\ entry' = EndWait(E, e) /\ ops' = O /\ UNCHANGED <<keyOf, groups, group>>
            /\ \/ entry[e].detaching /\ entries' = [entries EXCEPT ![c] = 0]
               \/ ~entry[e].detaching /\ UNCHANGED entries
  <2>1. /\ entries'[c] \in {0, e}
        /\ (entry[e].detaching => entries'[c] = 0) /\ (~entry[e].detaching => entries'[c] = e)
    BY <1>2, <1>9, <1>12, TypedFacts
  <2>2. Outside(c)'
    BY <1>10, <1>12 DEF Outside, Groups
  <2>3. /\ \A p \in ops' : p.e = e => HandlerOK(p)'
        /\ \A p, q \in ops' :
             (p.kind \in Handlers /\ q.kind = p.kind /\ p.e = e /\ q.e = e) => p = q
    BY <1>11, <1>12 DEF HandlerOK, Handlers
  <2>4. CwdOK(c)' /\ EntryOK(e)'
    <3>1. CASE entry[e].detaching
      BY <1>1, <1>5, <1>10, <1>12, <2>1, <2>2, <3>1 DEF CwdOK, Absent, EntryOK
    <3>2. CASE ~entry[e].detaching
      <4>1. Present(c)' /\ Idle(c)'
        BY <1>1, <1>2, <1>5, <1>10, <1>12, <2>1, <2>2, <3>2 DEF Present, Idle
      <4> QED
        BY <1>5, <1>12, <2>1, <3>2, <4>1 DEF CwdOK, EntryOK
    <3> QED
      BY <3>1, <3>2
  <2> QED
    BY <1>9, <2>1, <2>3, <2>4 DEF Own
<1>13. CASE ~entry[e].detaching /\ Joins(E, O, e) /\ UNCHANGED entries
  <2>1. Joining(c, e, E, O)
    BY <1>1, <1>4, <1>6, <1>13 DEF Joining
  <2>2. Joinable(c, e, E, O)
    BY <1>4, <1>9, <1>10, <1>11, <1>13 DEF Joinable
  <2> QED
    BY <1>1, <1>2, <1>13, <2>1, <2>2, JoinsOwn
<1>14. CASE ~entry[e].detaching /\ AttachWatcher(E, O, e) /\ UNCHANGED entries
  <2>1. ~E[e].detaching /\ E[e].group = NoRepo
    BY <1>4, <1>10, <1>14 DEF SameRole
  <2> QED
    BY <1>4, <1>12, <1>13, <1>14, <2>1, AttachOutcomes
<1> QED
  BY <1>3, <1>12, <1>14 DEF E

LEMMA StartSameMembers ==
  ASSUME Typed, NEW E \in Seq(EntryRec), NEW e \in 1..Len(entry),
         ButFor(EntryRec, entry, E, e), SameRole(entry[e], E[e]),
         NEW kind \in {"revalidate", "recompute"}, StartRecompute(E, e, kind),
         UNCHANGED <<wanted, entries, keyOf, groups, group, sub>>
  PROVE  SameMembers
<1>1. e \in 1..Len(E)
  BY DEF ButFor
<1>2. /\ ButFor(EntryRec, E, Queue(E, e), e) /\ ButFor(EntryRec, E, Begin(E, e), e)
      /\ SameRole(E[e], Queue(E, e)[e]) /\ SameRole(E[e], Begin(E, e)[e])
  BY <1>1, QueuedEntry, BegunEntry
<1>3. entry' = Queue(E, e) \/ entry' = Begin(E, e)
  BY DEF StartRecompute, Queue, Begin
<1>4. ButFor(EntryRec, E, entry', e) /\ SameRole(E[e], entry'[e])
  BY <1>2, <1>3
<1>5. Len(entry') = Len(entry) /\ \A f \in 1..Len(entry) : SameRole(entry[f], entry'[f])
  BY <1>4 DEF ButFor, SameRole
<1>6. ops \subseteq ops' /\ \A o \in ops' \ ops : o.kind = kind
  BY DEF StartRecompute, Op
<1> QED
  BY <1>5, <1>6 DEF SameMembers, Handlers

LEMMA RevalidateSameMembers ==
  ASSUME Typed, NEW c \in Cwd, Revalidate(c)
  PROVE  SameMembers
<1>1. entries[c] \in 1..Len(entry)
  BY TypedFacts DEF Revalidate
<1>2. ButFor(EntryRec, entry, entry, entries[c]) /\ SameRole(entry[entries[c]], entry[entries[c]])
  BY ButForSame, TypedFacts DEF SameRole
<1> QED
  BY <1>1, <1>2, StartSameMembers, TypedFacts DEF Revalidate

LEMMA DebounceSameMembers ==
  ASSUME Typed, NEW e \in Entries, DebounceFires(e)
  PROVE  SameMembers
<1>1. e \in 1..Len(entry)
  BY TypedFacts
<1>2. /\ ButFor(EntryRec, entry, Undebounce(entry, e), e)
      /\ SameRole(entry[e], Undebounce(entry, e)[e])
  BY <1>1, UndebouncedEntry, TypedFacts
<1>3. Undebounce(entry, e) \in Seq(EntryRec)
  BY <1>2 DEF ButFor
<1>4. /\ StartRecompute(Undebounce(entry, e), e, "recompute")
      /\ UNCHANGED <<wanted, entries, keyOf, groups, group, sub>>
  BY DEF DebounceFires, Undebounce, env
<1> QED
  BY <1>1, <1>2, <1>3, <1>4, StartSameMembers

LEMMA DetachResumesRoster ==
  ASSUME Typed, Typed', Roster, Marks, NEW o, DetachResumes(o)
  PROVE  Roster'
<1>1. /\ o \in ops /\ o.kind = "detach" /\ ops' = ops \ {o}
      /\ UNCHANGED <<wanted, pathUp, keyOf, group, sub>>
  BY DEF DetachResumes, env
<1> PICK c, e : c = entry[o.e].cwd /\ e = o.e
  OBVIOUS
<1>2. /\ e \in 1..Len(entry) /\ c \in Cwd /\ o.x = RepoOf[c] /\ RepoOf[c] \in Repo
      /\ entry[e].cwd = c
  BY <1>1, DetachOpFacts, WatchAssumption
<1>4. /\ ButFor(EntryRec, entry, entry', e) /\ SameRole(entry[e], entry'[e])
  BY <1>2, CleanEntry, TypedFacts DEF DetachResumes, Clean
<1>5. /\ entries'[c] = 0 /\ \A d \in Cwd \ {c} : entries'[d] = entries[d]
      /\ groups'[RepoOf[c]] = 0 /\ \A r \in Repo \ {RepoOf[c]} : groups'[r] = groups[r]
  BY <1>2, TypedFacts DEF DetachResumes
<1>6. EntryFrame(c, e)
  <2>1. entry'[e].cwd = c
    BY <1>2, <1>4 DEF SameRole
  <2> QED
    BY <1>1, <1>2, <1>4, <1>5, <2>1, EntryFrameBy
<1>7. GroupFrame(c)
  <2>1. \A d \in Cwd : RepoOf[d] \in Repo
    BY WatchAssumption
  <2>2. \A d \in Cwd : InGroup(d) => RepoOf[d] # RepoOf[c]
    BY <1>1, <1>2 DEF InGroup
  <2>3. \A d \in Cwd : InGroup(d) => \A p \in ops' : p.kind = "detach" => p.x # RepoOf[d]
    BY <1>1 DEF InGroup
  <2> QED
    BY <1>1, <1>5, <2>1, <2>2, <2>3, TypedFacts DEF GroupFrame
<1>8. OpFrame(e)
  BY <1>1 DEF OpFrame
<1>9. MapOK(c)' /\ RepoOK(RepoOf[c])'
  BY <1>1, <1>2, <1>5 DEF MapOK, RepoOK, Roster
<1>10. \A p \in ops' : p.e = e => DetachX(p)'
  <2> TAKE p \in ops'
  <2>1. DetachX(p)
    BY <1>1 DEF Roster
  <2> QED
    BY <1>2, <1>4, <2>1 DEF DetachX, SameRole
<1>11. Shared(c, e)
  BY <1>6, <1>7, <1>8, <1>9, <1>10 DEF Shared, ActorFrame
<1> SUFFICES ASSUME c \notin raced' PROVE Own(c, e)
  BY <1>2, <1>11, ActorStep
<1>12. c \notin raced /\ Held(c)
  BY <1>2 DEF Marks, Roster
<1>13. entries[c] = e /\ Leaving(c)
  BY <1>1, <1>12, DetachOpFacts
<1>14. /\ entry[e].detaching /\ ~entry[e].attaching /\ Outside(c) /\ ~wanted[c]
  BY <1>13 DEF Leaving
<1>15. CwdOK(c)'
  <2>1. Outside(c)'
    BY <1>1, <1>14 DEF Outside, Groups
  <2> QED
    BY <1>1, <1>14, <1>5, <2>1 DEF CwdOK, Absent
<1>16. EntryOK(e)'
  BY <1>4, <1>14 DEF EntryOK, SameRole
<1>17. \A p \in ops' : p.kind \in Handlers => p.e # e
  <2> TAKE p \in ops'
  <2>1. p.kind = "attach" => p.e # e
    BY <1>1, <1>2, <1>12, <1>13, <1>14, AttachOpFacts DEF Waiting
  <2>2. p.kind = "detach" => p.e # e
    BY <1>1, <1>2, <1>12 DEF Held, Handlers
  <2> QED
    BY <2>1, <2>2 DEF Handlers
<1>18. \A p \in ops' : p.e = e => HandlerOK(p)'
  BY <1>17 DEF HandlerOK, Handlers
<1> QED
  BY <1>5, <1>13, <1>15, <1>16, <1>17, <1>18 DEF Own

\* The entry of a detached cwd, and the group it leaves.
LEMMA DetachedEntry ==
  ASSUME Typed, NEW e \in 1..Len(entry), NEW L, L = Leave(Drop(Detaching(e), e), e)
  PROVE  /\ ButFor(EntryRec, entry, L, e) /\ L[e].cwd = entry[e].cwd /\ L[e].group = NoRepo
         /\ ~L[e].attached /\ L[e].attaching = entry[e].attaching /\ L[e].detaching
<1> DEFINE D == Detaching(e)  E == Drop(D, e)
<1>1. /\ ButFor(EntryRec, entry, D, e) /\ D[e].cwd = entry[e].cwd
      /\ D[e].attaching = entry[e].attaching /\ D[e].detaching
  BY DetachingEntry, TypedFacts
<1>2. L = Leave(E, e)
  OBVIOUS
<1> HIDE DEF D
<1>3. D \in Seq(EntryRec) /\ e \in 1..Len(D)
  BY <1>1 DEF ButFor
<1>4. /\ ButFor(EntryRec, D, E, e) /\ E[e].cwd = D[e].cwd /\ ~E[e].attached
      /\ E[e].attaching = D[e].attaching /\ E[e].detaching = D[e].detaching
  BY <1>3, DroppedEntry
<1> HIDE DEF E
<1>5. E \in Seq(EntryRec) /\ e \in 1..Len(E)
  BY <1>3, <1>4 DEF ButFor
<1>6. /\ ButFor(EntryRec, E, L, e) /\ L[e].cwd = E[e].cwd /\ L[e].group = NoRepo
      /\ L[e].attached = E[e].attached
      /\ L[e].attaching = E[e].attaching /\ L[e].detaching = E[e].detaching
  BY <1>2, <1>5, LeftEntry
<1> QED
  BY <1>1, <1>3, <1>4, <1>5, <1>6, ButForTwice, TypedFacts

Resigned(g, c) == WithMembers(group, g, group[g].members \ {c})

LEMMA ResignedGroup ==
  ASSUME Typed, NEW g \in 1..Len(group), NEW c
  PROVE  LET G == Resigned(g, c)  C == Cleared(G, g) IN
         /\ ButFor(GroupRec, group, G, g) /\ SameWatch(group[g], G[g])
         /\ G[g].members = group[g].members \ {c}
         /\ ButFor(GroupRec, group, C, g)
         /\ C[g].members = group[g].members \ {c} /\ C[g].repo = group[g].repo
         /\ C[g].dispose = 0 /\ ~C[g].restart /\ ~C[g].probe
         /\ C[g].attaching = group[g].attaching /\ C[g].health = group[g].health
<1> DEFINE m == group[g].members \ {c}
           G == Resigned(g, c)  C == Cleared(G, g)
<1>1. m \in SUBSET Cwd /\ G = WithMembers(group, g, m)
  BY DisposeNat, TypedFacts DEF Resigned
<1> HIDE DEF m, G
<1>2. ButFor(GroupRec, group, G, g) /\ SameWatch(group[g], G[g]) /\ G[g].members = m
  BY <1>1, MembersGroup, TypedFacts
<1>3. G \in Seq(GroupRec) /\ g \in 1..Len(G)
  BY <1>2 DEF ButFor
<1>4. /\ ButFor(GroupRec, G, C, g) /\ Keeps(G[g], C[g]) /\ C[g].dispose = 0
      /\ ~C[g].restart /\ ~C[g].probe
      /\ C[g].attaching = G[g].attaching /\ C[g].health = G[g].health
  BY <1>3, ClearedGroup
<1> HIDE DEF C
<1>5. ButFor(GroupRec, group, C, g)
  BY <1>2, <1>3, <1>4, ButForTwice, TypedFacts
<1> QED
  BY <1>2, <1>4, <1>5 DEF Keeps, SameWatch, C, m, G

LEMMA DetachShared ==
  ASSUME Typed, Typed', Roster, NEW c \in Cwd, Detach(c), entries[c] # 0
  PROVE  Shared(c, entries[c])
<1> PICK e, r, g : e = entries[c] /\ r = RepoOf[c] /\ g = DetachGroup(c)
  OBVIOUS
<1> DEFINE D == Detaching(e)  E == Drop(D, e)  L == Leave(E, e)
<1>1. /\ e \in 1..Len(entry) /\ entry[e].cwd = c /\ r \in Repo /\ keyOf[c] \in {NoRepo, r}
      /\ NoRepo \notin Repo /\ entries \in [Cwd -> 0..Len(entry)]
  BY TypedFacts, WatchAssumption DEF Roster, MapOK
<1>2. \A d \in Cwd \ {c} : wanted'[d] = wanted[d]
  BY DetachForms DEF Typed, WorldTyped
<1>3. /\ ButFor(EntryRec, entry, D, e) /\ D[e].cwd = c
      /\ D \in Seq(EntryRec) /\ e \in 1..Len(D)
  <2>1. ButFor(EntryRec, entry, D, e) /\ D[e].cwd = c
    BY <1>1, DetachingEntry, TypedFacts
  <2> QED
    BY <1>1, <2>1 DEF ButFor
<1>4. ButFor(EntryRec, entry, E, e) /\ E[e].cwd = c
  <2> HIDE DEF D
  <2>1. ButFor(EntryRec, D, E, e) /\ E[e].cwd = c
    BY <1>3, DroppedEntry
  <2> HIDE DEF E
  <2> QED
    BY <1>1, <1>3, <2>1, ButForTwice, TypedFacts
<1>5. /\ ButFor(EntryRec, entry, L, e) /\ L[e].cwd = c
  BY <1>1, DetachedEntry
\* Every group stays as it is.
<1>6. CASE /\ entry' \in {D, E} /\ entries' \in {entries, [entries EXCEPT ![c] = 0]}
           /\ keyOf' \in {keyOf, [keyOf EXCEPT ![c] = NoRepo]}
           /\ UNCHANGED <<groups, group, sub, ops>>
  <2>1. /\ entries'[c] \in {0, entries[c]} /\ keyOf'[c] \in {NoRepo, keyOf[c]}
        /\ \A d \in Cwd \ {c} : entries'[d] = entries[d] /\ keyOf'[d] = keyOf[d]
    BY <1>1, <1>6, TypedFacts
  <2>2. ButFor(EntryRec, entry, entry', e) /\ entry'[e].cwd = c
    BY <1>3, <1>4, <1>6
  <2>3. EntryFrame(c, e)
    BY <1>1, <1>2, <2>1, <2>2, EntryFrameBy
  <2>4. OpFrame(e)
    BY <1>6 DEF OpFrame
  <2> QED
    BY <1>6, <2>1, <2>3, <2>4, SharedSame
\* The cwd leaves the group of its repository.
<1> DEFINE left == group[g].members \ {c}
           G == Resigned(g, c)
           n == Op("detach", e, 0, group[g].dispose, r)
<1>7. CASE /\ g # 0 /\ keyOf[c] = r /\ g = groups[r]
           /\ entry' = L /\ keyOf' = [keyOf EXCEPT ![c] = NoRepo]
           /\ \/ /\ left # {} /\ group' = G /\ entries' = [entries EXCEPT ![c] = 0]
                 /\ UNCHANGED <<groups, ops>>
              \/ /\ left = {} /\ group' = Cleared(G, g) /\ groups' = [groups EXCEPT ![r] = 0]
                 /\ entries' = [entries EXCEPT ![c] = 0]
                 /\ UNCHANGED ops
              \/ /\ left = {} /\ group' = Cleared(G, g) /\ ops' = ops \cup {n}
                 /\ UNCHANGED <<groups, entries>>
  <2>1. g \in 1..Len(group) /\ group[g].repo = r /\ g \in Nat
    BY <1>1, <1>7, TypedFacts DEF Roster, RepoOK
  <2>2. /\ ButFor(GroupRec, group, group', g)
        /\ group'[g].members = left /\ group'[g].repo = r
    <3>1. /\ ButFor(GroupRec, group, G, g) /\ SameWatch(group[g], G[g]) /\ G[g].members = left
          /\ ButFor(GroupRec, group, Cleared(G, g), g)
          /\ Cleared(G, g)[g].members = left /\ Cleared(G, g)[g].repo = group[g].repo
      BY <2>1, ResignedGroup
    <3> QED
      BY <1>7, <2>1, <3>1 DEF SameWatch
  <2>3. /\ Len(group') = Len(group) /\ \A h \in 1..Len(group) : h # g => group'[h] = group[h]
    BY <2>2 DEF ButFor
  <2>4. /\ keyOf'[c] = NoRepo /\ entries'[c] \in {0, e}
        /\ \A d \in Cwd \ {c} : keyOf'[d] = keyOf[d] /\ entries'[d] = entries[d]
    BY <1>1, <1>7, TypedFacts
  <2>5. EntryFrame(c, e)
    <3>1. ButFor(EntryRec, entry, entry', e) /\ entry'[e].cwd = c
      BY <1>5, <1>7
    <3> QED
      BY <1>1, <1>2, <2>4, <3>1, EntryFrameBy
  <2>6. n.kind = "detach" /\ n.e = e /\ n.x = r
    BY DEF Op
  <2>7. OpFrame(e)
    BY <1>7, <2>6 DEF OpFrame
  <2>8. \A d \in Cwd \ {c}, h \in 1..Len(group) :
          d \in group'[h].members <=> d \in group[h].members
    BY <2>2, <2>3
  <2>9. \A s \in Repo \ {r} : groups'[s] = groups[s] /\ (groups[s] # 0 => groups[s] # g)
    <3> TAKE s \in Repo \ {r}
    <3>1. RepoOK(s) /\ groups'[s] = groups[s]
      BY <1>7, TypedFacts DEF Roster
    <3> QED
      BY <2>1, <3>1 DEF RepoOK
  <2>10. ASSUME NEW d \in Cwd \ {c}, InGroup(d)
         PROVE  /\ groups'[RepoOf[d]] = groups[RepoOf[d]]
                /\ \A o \in ops' : o.kind = "detach" => o.x # RepoOf[d]
    <3>1. CASE RepoOf[d] = r
      <4>1. left # {}
        BY <1>7, <2>10, <3>1 DEF InGroup
      <4>2. UNCHANGED <<groups, ops>>
        BY <1>7, <4>1
      <4> QED
        BY <2>10, <4>2 DEF InGroup
    <3>2. CASE RepoOf[d] # r
      <4>1. RepoOf[d] \in Repo \ {r}
        BY <3>2, WatchAssumption
      <4>2. \A o \in ops' : o \in ops \/ o = n
        BY <1>7
      <4> QED
        BY <2>6, <2>9, <2>10, <3>2, <4>1, <4>2 DEF InGroup
    <3> QED
      BY <3>1, <3>2
  <2>11. GroupFrame(c)
    <3>1. \A s \in Repo \ {r} : groups[s] # 0 => group'[groups[s]] = group[groups[s]]
      BY <2>3, <2>9, TypedFacts
    <3>2. Len(group) <= Len(group')
      BY <2>3, TypedFacts
    <3>3. \A d \in Cwd \ {c} :
            /\ \A h \in 1..Len(group') :
                 d \in group'[h].members => (h \in 1..Len(group) /\ d \in group[h].members)
            /\ \A h \in 1..Len(group) : d \in group[h].members => d \in group'[h].members
      BY <2>3, <2>8
    <3> QED
      BY <2>9, <2>10, <3>1, <3>2, <3>3 DEF GroupFrame
  <2>12. MapOK(c)'
    BY <2>4, <2>5 DEF MapOK, EntryFrame
  <2>13. RepoOK(r)'
    <3>1. CASE left # {} /\ UNCHANGED groups
      BY <1>7, <2>2, <3>1 DEF RepoOK
    <3>2. CASE groups' = [groups EXCEPT ![r] = 0]
      BY <1>1, <3>2, TypedFacts DEF RepoOK
    <3>3. CASE ops' = ops \cup {n} /\ UNCHANGED groups
      <4>1. n \in ops'
        BY <3>3
      <4> HIDE DEF n
      <4> QED
        BY <1>7, <2>2, <2>6, <3>3, <4>1 DEF RepoOK
    <3> QED
      BY <1>7, <3>1, <3>2, <3>3
  <2>14. \A o \in ops' : o.e = e => DetachX(o)'
    <3> TAKE o \in ops'
    <3> HAVE o.e = e
    <3>1. entry'[e].cwd = c
      BY <1>5, <1>7
    <3>2. o \in ops \/ o = n
      BY <1>7
    <3>3. o \in ops => DetachX(o)
      BY DEF Roster
    <3> QED
      BY <1>1, <2>6, <3>1, <3>2, <3>3 DEF DetachX
  <2> QED
    BY <2>5, <2>7, <2>11, <2>12, <2>13, <2>14 DEF Shared, ActorFrame
<1>8. g # 0 => keyOf[c] = r /\ g = groups[r] /\ LeftMembers(c) = left
  BY <1>1 DEF DetachGroup, LeftMembers
<1>9. CASE g = 0
  BY <1>6, <1>9, DetachForms
<1>10. CASE g # 0
  <2>1. /\ left = LeftMembers(c) /\ G = WithMembers(group, g, LeftMembers(c))
        /\ keyOf[c] = r /\ g = groups[r]
    BY <1>8, <1>10 DEF Resigned
  <2>2. \/ /\ entry' \in {D, E} /\ entries' \in {entries, [entries EXCEPT ![c] = 0]}
           /\ keyOf' \in {keyOf, [keyOf EXCEPT ![c] = NoRepo]}
           /\ UNCHANGED <<groups, group, sub, ops>>
        \/ /\ entry' = L /\ keyOf' = [keyOf EXCEPT ![c] = NoRepo]
           /\ \/ /\ LeftMembers(c) # {}
                 /\ group' = WithMembers(group, g, LeftMembers(c))
                 /\ entries' = [entries EXCEPT ![c] = 0]
                 /\ UNCHANGED <<groups, ops>>
              \/ /\ LeftMembers(c) = {}
                 /\ group' = Cleared(WithMembers(group, g, LeftMembers(c)), g)
                 /\ groups' = [groups EXCEPT ![keyOf[c]] = 0]
                 /\ entries' = [entries EXCEPT ![c] = 0]
                 /\ UNCHANGED ops
              \/ /\ LeftMembers(c) = {}
                 /\ group' = Cleared(WithMembers(group, g, LeftMembers(c)), g)
                 /\ ops' = ops \cup {Op("detach", e, 0, group[g].dispose, keyOf[c])}
                 /\ UNCHANGED <<groups, entries>>
    BY DetachForms DEF D
  <2> HIDE DEF D, E, L, G, left
  <2> QED
    BY <1>6, <1>7, <1>10, <2>1, <2>2
<1> QED
  BY <1>9, <1>10

LEMMA DetachRoster ==
  ASSUME Typed, Typed', Roster, Marks, NEW c \in Cwd, Detach(c)
  PROVE  Roster'
<1> PICK e, r, g : e = entries[c] /\ r = RepoOf[c] /\ g = groups[RepoOf[c]]
  OBVIOUS
<1> DEFINE D == Detaching(e)  E == Drop(D, e)  L == Leave(E, e)
<1>1. /\ wanted[c] /\ wanted' = [wanted EXCEPT ![c] = FALSE]
      /\ r \in Repo /\ e \in 0..Len(entry)
  BY DetachForms, TypedFacts, WatchAssumption
<1>2. ~wanted'[c] /\ \A d \in Cwd \ {c} : wanted'[d] = wanted[d]
  BY <1>1 DEF Typed, WorldTyped
\* A marked cwd may be subscribed and held by no entry.
<1>3. CASE e = 0 /\ c \in raced'
  <2>1. UNCHANGED <<entries, entry, keyOf, groups, group, sub, ops>>
    BY <1>3, DetachForms
  <2>2. SameMembers
    BY <1>2, <1>3, <2>1 DEF SameMembers, SameRole
  <2> QED
    BY <2>2, SameMembersStep
<1>4. CASE e # 0 /\ c \in raced'
  BY <1>4, DetachShared, ActorStep
<1> SUFFICES ASSUME c \notin raced' PROVE Shared(c, e) /\ Own(c, e)
  BY <1>3, <1>4, ActorStep
<1>5. c \notin raced /\ Held(c) /\ CwdOK(c)
  BY DEF Marks, Roster, Held
<1>6. /\ Present(c) /\ e \in 1..Len(entry) /\ entry[e].cwd = c
      /\ InGroup(c) \/ Waiting(c) \/ Idle(c)
  BY <1>1, <1>5 DEF CwdOK, Absent, Leaving, Present
<1>7. Shared(c, e)
  BY <1>6, DetachShared
<1>8. /\ ButFor(EntryRec, entry, D, e) /\ D[e].cwd = c /\ D[e].group = entry[e].group
      /\ D[e].attached = entry[e].attached /\ D[e].attaching = entry[e].attaching /\ D[e].detaching
  BY <1>6, DetachingEntry, TypedFacts
<1>9. \A o \in ops : o.kind = "detach" => o.e # e
  BY <1>1, <1>5, <1>6, DetachOpFacts DEF Leaving
<1> HIDE DEF D
\* While the attach awaits its recompute.
<1>10. CASE Waiting(c)
  <2>1. /\ ~entry[e].attached /\ entry[e].attaching /\ entry[e].group = NoRepo /\ Outside(c)
        /\ \E o \in ops : o.kind = "attach" /\ o.e = e
    BY <1>10 DEF Waiting
  <2>2. entry' = D /\ UNCHANGED <<entries, keyOf, groups, group, sub, ops>>
    BY <1>6, <2>1, DetachForms DEF D
  <2>3. Outside(c)'
    BY <2>1, <2>2 DEF Outside, Groups
  <2>4. CwdOK(c)'
    BY <1>2, <1>6, <1>8, <2>1, <2>2, <2>3 DEF CwdOK, Present, Waiting
  <2>5. EntryOK(e)'
    BY <1>8, <2>2 DEF EntryOK
  <2>6. \A o \in ops' : o.e = e => HandlerOK(o)'
    BY <1>6, <1>8, <1>9, <2>1, <2>2 DEF HandlerOK, Handlers
  <2>7. \A o, p \in ops' :
          (o.kind \in Handlers /\ p.kind = o.kind /\ o.e = e /\ p.e = e) => o = p
    BY <1>5, <1>6, <2>2 DEF Held
  <2> QED
    BY <1>7, <2>2, <2>4, <2>5, <2>6, <2>7 DEF Own
\* Neither attached nor attaching: the entry leaves at once.
<1>11. CASE Idle(c)
  <2>1. ~entry[e].attached /\ ~entry[e].attaching /\ entry[e].group = NoRepo /\ Outside(c)
    BY <1>11 DEF Idle
  <2>2. /\ entry' = D /\ entries' = [entries EXCEPT ![c] = 0]
        /\ UNCHANGED <<keyOf, groups, group, sub, ops>>
    BY <1>6, <2>1, DetachForms DEF D
  <2>3. entries'[c] = 0
    BY <2>2, TypedFacts
  <2>4. Outside(c)'
    BY <2>1, <2>2 DEF Outside, Groups
  <2>5. CwdOK(c)'
    BY <1>2, <2>3, <2>4 DEF CwdOK, Absent
  <2>6. EntryOK(e)'
    BY <1>8, <2>2 DEF EntryOK
  <2>7. \A o \in ops' : o.kind \in Handlers => o.e # e
    BY <1>5, <1>6, <1>9, <2>1, <2>2, AttachOpFacts DEF Waiting, Handlers
  <2>8. \A o \in ops' : o.e = e => HandlerOK(o)'
    BY <2>7 DEF HandlerOK, Handlers
  <2> QED
    BY <1>7, <2>3, <2>5, <2>6, <2>7, <2>8 DEF Own
\* Attached: the cwd leaves its group, and the last one takes the group along.
<1>12. CASE InGroup(c)
  <2>1. /\ entry[e].attached /\ ~entry[e].attaching /\ ~entry[e].detaching
        /\ entry[e].group = r /\ keyOf[c] = r /\ g # 0 /\ c \in group[g].members
        /\ \A h \in 1..Len(group) : c \in group[h].members => h = g
    BY <1>12, TypedFacts DEF InGroup
  <2>2. g \in 1..Len(group)
    BY <1>1, <2>1, TypedFacts
  <2> PICK left : left = group[g].members \ {c}
    OBVIOUS
  <2> DEFINE G == Resigned(g, c)
             n == Op("detach", e, 0, group[g].dispose, r)
  <2>3. DetachGroup(c) = g /\ LeftMembers(c) = left
    BY <1>1, <2>1, WatchAssumption DEF DetachGroup, LeftMembers
  <2>4. /\ entry' = L /\ keyOf' = [keyOf EXCEPT ![c] = NoRepo]
        /\ group' \in {G, Cleared(G, g)}
        /\ \/ entries' = [entries EXCEPT ![c] = 0] /\ UNCHANGED ops
           \/ ops' = ops \cup {n} /\ UNCHANGED entries
    BY <1>6, <2>1, <2>3, DetachForms DEF D, Present, Resigned
  <2>5. ButFor(GroupRec, group, group', g) /\ group'[g].members = left
    <3>1. /\ ButFor(GroupRec, group, G, g) /\ G[g].members = left
          /\ ButFor(GroupRec, group, Cleared(G, g), g)
          /\ Cleared(G, g)[g].members = left
      BY <2>2, ResignedGroup
    <3> QED
      BY <2>4, <3>1
  <2>6. /\ entry'[e].cwd = c /\ entry'[e].group = NoRepo
        /\ ~entry'[e].attached /\ ~entry'[e].attaching /\ entry'[e].detaching
    <3>1. /\ L[e].cwd = entry[e].cwd /\ L[e].group = NoRepo
          /\ ~L[e].attached /\ L[e].attaching = entry[e].attaching /\ L[e].detaching
      BY <1>6, DetachedEntry DEF D
    <3> QED
      BY <1>6, <2>1, <2>4, <3>1
  <2>7. /\ Len(group') = Len(group) /\ \A h \in 1..Len(group) : h # g => group'[h] = group[h]
    BY <2>5 DEF ButFor
  <2>8. keyOf'[c] = NoRepo /\ entries'[c] \in {0, e}
    BY <1>6, <2>4, TypedFacts
  <2>9. n.kind = "detach" /\ n.e = e /\ n.x = r
    BY DEF Op
  <2>15. Outside(c)'
    <3>1. \A h \in 1..Len(group') : c \notin group'[h].members
      BY <2>1, <2>5, <2>7
    <3> QED
      BY <2>8, <3>1 DEF Outside, Groups
  <2>16. CwdOK(c)'
    <3>1. CASE entries'[c] = 0
      BY <1>2, <2>15, <3>1 DEF CwdOK, Absent
    <3>2. CASE ops' = ops \cup {n} /\ UNCHANGED entries
      <4>1. n \in ops' /\ entries'[c] = e
        BY <3>2
      <4> QED
        BY <1>2, <1>6, <2>6, <2>9, <2>15, <4>1 DEF CwdOK, Present, Leaving
    <3> QED
      BY <2>4, <3>1, <3>2, TypedFacts
  <2>17. EntryOK(e)'
    BY <2>6 DEF EntryOK
  <2>19. \A o \in ops : o.kind \in Handlers => o.e # e
    BY <1>5, <1>6, <1>9, <2>1, AttachOpFacts DEF Waiting, Handlers
  <2>20. \A o \in ops' : o \in ops \/ (o = n /\ UNCHANGED entries)
    BY <2>4
  <2>21. \A o \in ops' : o.e = e => HandlerOK(o)'
    <3> TAKE o \in ops'
    <3> HAVE o.e = e
    <3>1. CASE o \in ops
      BY <2>19, <3>1 DEF HandlerOK, Handlers
    <3>2. CASE o = n /\ UNCHANGED entries
      BY <1>6, <2>6, <2>9, <3>2 DEF HandlerOK, Handlers
    <3> QED
      BY <2>20, <3>1, <3>2
  <2> HIDE DEF n
  <2>22. \A o, p \in ops' : (o.kind \in Handlers /\ p.kind = o.kind /\ o.e = e /\ p.e = e) => o = p
    BY <2>19, <2>20
  <2> QED
    BY <1>7, <2>8, <2>16, <2>17, <2>21, <2>22 DEF Own
<1> QED
  BY <1>6, <1>10, <1>11, <1>12

LEMMA MarksKept == [WatchNext /\ History]_specVars => Marks
BY DEF History, Marks, specVars, watchVars, Reattached, JoinedLate

LEMMA RosterNext ==
  ASSUME Typed, Typed', Roster, [WatchNext /\ History]_specVars
  PROVE  Roster'
<1>0. Marks
  BY MarksKept
<1>1. CASE \E c \in Cwd : Attach(c) \/ Detach(c) \/ Revalidate(c)
  BY <1>0, <1>1, AttachRoster, DetachRoster, RevalidateSameMembers, SameMembersStep
<1>2. ASSUME UNCHANGED <<wanted, entries, entry, keyOf, groups, group, ops>>
      PROVE  SameMembers
  BY <1>2 DEF SameMembers, SameRole
<1>3. CASE \/ \E r \in Repo : PathLost(r) \/ PathBack(r)
           \/ \E s \in Subs : Unsubscribed(s)
           \/ UNCHANGED specVars
  BY <1>0, <1>2, <1>3, SameMembersStep DEF PathLost, PathBack, Unsubscribed, specVars, watchVars, env
<1>4. CASE \/ \E g \in Groups : RestartFires(g) \/ ProbeTick(g)
           \/ \E g \in Groups, s \in Subs, cause \in {"callback-error", "path-missing"} :
                CallbackError(g, s, cause)
  BY <1>0, <1>4, RestartStep, ProbeTickStep, CallbackStep, WatcherSameMembers, SameMembersStep
<1>5. CASE \E e \in Entries : DebounceFires(e)
  BY <1>0, <1>5, DebounceSameMembers, SameMembersStep
<1>6. CASE \E o \in ops : AccessResumes(o) \/ SubscribeResumes(o) \/ FaultResumes(o)
                            \/ ProbeResumes(o)
  BY <1>0, <1>6, AccessStep, SubscribeStep, FaultStep, ProbeResumesStep, WatcherSameMembers,
     SameMembersStep
<1>7. CASE \E o \in ops : AttachResumes(o) \/ RecomputeResumes(o) \/ DetachResumes(o)
  BY <1>0, <1>7, AttachResumesRoster, RecomputeRoster, DetachResumesRoster
<1> QED
  BY <1>1, <1>3, <1>4, <1>5, <1>6, <1>7 DEF WatchNext, Resume

LEMMA InitRoster ==
  ASSUME WatchInit
  PROVE  Roster
<1>1. Entries = {} /\ Groups = {} /\ ops = {}
  BY DEF WatchInit, Entries, Groups
<1>2. \A r \in Repo : groups[r] = 0
  BY DEF WatchInit
<1>3. \A c \in Cwd : Absent(c) /\ MapOK(c)
  BY <1>1 DEF WatchInit, Absent, Outside, MapOK
<1>4. \A r \in Repo : RepoOK(r)
  BY <1>2 DEF RepoOK
<1> QED
  BY <1>1, <1>3, <1>4 DEF Roster, Held, CwdOK

LEMMA RosterCovers ==
  ASSUME Typed, Roster
  PROVE  HeartbeatCovers /\ ReleasedWhenUnwanted
<1> SUFFICES ASSUME NEW c \in Cwd \ raced, PendingOn(c) = {}
             PROVE  /\ wanted[c] =>
                         /\ entries[c] # 0 /\ ~entry[entries[c]].detaching
                         /\ entry[entries[c]].attached =>
                              /\ keyOf[c] = RepoOf[c] /\ entry[entries[c]].group = RepoOf[c]
                              /\ groups[RepoOf[c]] # 0
                              /\ c \in group[groups[RepoOf[c]]].members
                    /\ ~wanted[c] =>
                         /\ entries[c] = 0 /\ keyOf[c] = NoRepo
                         /\ \A g \in Groups : c \notin group[g].members
  BY DEF HeartbeatCovers, ReleasedWhenUnwanted
<1>1. \A o \in ops : (o.e # 0 /\ entry[o.e].cwd = c) => FALSE
  BY DEF PendingOn
<1>2. CwdOK(c) /\ entries[c] \in 0..Len(entry)
  BY TypedFacts DEF Roster, Held
<1>3. ~(Present(c) /\ (Waiting(c) \/ Leaving(c)))
  BY <1>1 DEF Present, Waiting, Leaving
<1> QED
  BY <1>2, <1>3 DEF CwdOK, Absent, Present, InGroup, Idle, Outside

-----------------------------------------------------------------------------
(* What a recompute that finds a repository leaves behind                  *)

\* attachWatcherForEntry starts no recompute.
LEMMA AttachStarts ==
  ASSUME Typed, NEW E \in Seq(EntryRec), NEW e \in 1..Len(E), NEW O, AttachWatcher(E, O, e)
  PROVE  O \subseteq ops' /\ \A o \in ops' \ O : o.kind = "access"
<1>1. ASSUME Joins(E, O, e) PROVE O \subseteq ops' /\ \A o \in ops' \ O : o.kind = "access"
  <2>1. ops' = O \/ ops' = O \cup {Op("access", 0, Len(group) + 1, 0, NoRepo)}
    BY <1>1 DEF Joins
  <2> QED
    BY <2>1 DEF Op
<1> QED
  BY <1>1, AttachOutcomes

LEMMA RecheckStep ==
  ASSUME Typed, Typed', Roster', NEW o \in ops, AttachResumes(o) \/ RecomputeResumes(o),
         o.kind = "attach" \/ (o.kind = "revalidate" /\ ~entry[o.e].attaching),
         entry'[o.e].known, ~entry[o.e].detaching, entry[o.e].cwd \notin raced'
  PROVE  /\ entry'[o.e].group # NoRepo
         /\ entry'[o.e].cwd \in group'[groups'[entry'[o.e].group]].members
<1> PICK e, c : e = o.e /\ c = entry[e].cwd
  OBVIOUS
<1>1. /\ e \in 1..Len(entry) /\ c \in Cwd /\ RepoOf[c] \in Repo /\ NoRepo \notin Repo
  BY TypedFacts, WatchAssumption DEF AttachResumes, RecomputeResumes, OpTyped, Recomputes
<1>2. PICK found \in Found :
        LET E == Recomputed(e, found) IN
        \/ AttachWatcher(E, ops \ {o}, e)
        \/ /\ o.kind = "revalidate" /\ entry' = E
           /\ ~(E[e].known /\ E[e].group = NoRepo /\ ~E[e].detaching /\ ~E[e].attaching)
  <2>1. CASE AttachResumes(o)
    BY <2>1 DEF AttachResumes
  <2>2. CASE RecomputeResumes(o)
    BY <2>2 DEF RecomputeResumes
  <2> QED
    BY <2>1, <2>2
<1> DEFINE E == Recomputed(e, found)
<1>3. /\ ButFor(EntryRec, entry, E, e) /\ SameRole(entry[e], E[e])
      /\ E \in Seq(EntryRec) /\ e \in 1..Len(E)
  <2>1. found \in BOOLEAN
    BY FoundTyped
  <2>2. ButFor(EntryRec, entry, E, e) /\ SameRole(entry[e], E[e])
    BY <1>1, <2>1, RecomputedEntry, TypedFacts
  <2> QED
    BY <1>1, <2>2 DEF ButFor
<1> HIDE DEF E
<1>4. /\ entry'[e].cwd = c /\ ~entry'[e].detaching /\ entry'[e].group # NoRepo
      /\ e \in 1..Len(entry')
  <2>1. E[e].cwd = c /\ ~E[e].detaching
    BY <1>3 DEF SameRole
  <2>2. CASE entry' = E
    <3>1. E[e].group # NoRepo
      <4>1. CASE AttachWatcher(E, ops \ {o}, e)
        <5>1. E[e].group = NoRepo => (entry' = EndWait(E, e) /\ ~E[e].known) \/ Joins(E, ops \ {o}, e)
          BY <1>3, <2>1, <4>1, AttachOutcomes
        <5>2. ASSUME Joins(E, ops \ {o}, e) PROVE entry'[e].group = RepoOf[c]
          BY <1>3, <2>1, <5>2, JoinedEntry, <1>1 DEF Joins
        <5> QED
          BY <1>1, <2>2, <5>1, <5>2
      <4>2. CASE /\ o.kind = "revalidate" /\ entry' = E
                 /\ ~(E[e].known /\ E[e].group = NoRepo /\ ~E[e].detaching /\ ~E[e].attaching)
        BY <1>3, <2>1, <4>2 DEF SameRole
      <4> QED
        BY <1>2, <4>1, <4>2 DEF E
    <3> QED
      BY <1>3, <2>1, <2>2, <3>1
  <2>3. CASE entry' = EndWait(E, e) /\ ~E[e].known
    <3>1. ~entry'[e].known
      BY <1>3, <2>3, EndedEntry
    <3> QED
      BY <3>1
  <2>4. CASE Joins(E, ops \ {o}, e)
    <3>1. entry' = Join(E, e, RepoOf[c])
      BY <2>1, <2>4 DEF Joins
    <3>2. /\ ButFor(EntryRec, E, entry', e) /\ entry'[e].cwd = c /\ entry'[e].group = RepoOf[c]
          /\ entry'[e].detaching = E[e].detaching
      BY <1>1, <1>3, <2>1, <3>1, JoinedEntry
    <3> QED
      BY <1>1, <1>3, <2>1, <3>2 DEF ButFor
  <2>5. entry' = E \/ (entry' = EndWait(E, e) /\ ~E[e].known) \/ Joins(E, ops \ {o}, e)
    <3>1. CASE AttachWatcher(E, ops \ {o}, e)
      BY <1>3, <3>1, AttachOutcomes
    <3> QED
      BY <1>2, <3>1 DEF E
  <2> QED
    BY <2>2, <2>3, <2>4, <2>5
<1>5. CwdOK(c)' /\ EntryOK(e)'
  BY <1>1, <1>4 DEF Roster, Held, Entries
<1>6. entries'[c] = e
  BY <1>4, <1>5 DEF EntryOK
<1>7. InGroup(c)'
  BY <1>1, <1>4, <1>5, <1>6 DEF CwdOK, Absent, Waiting, Idle, Leaving
<1> QED
  BY <1>4, <1>6, <1>7 DEF InGroup

\* An attach or a revalidation leaves only as it resumes.
LEMMA RecomputeEnds ==
  ASSUME Typed, [WatchNext]_watchVars, NEW o \in ops \ ops', o.kind \in Recomputes
  PROVE  AttachResumes(o) \/ RecomputeResumes(o)
<1>1. o.e # 0
  BY TypedFacts DEF OpTyped, Recomputes
<1>2. \A g \in 1..Len(group) : ~WatcherStep(g)
  BY <1>1 DEF WatcherStep
<1>3. ~\E g \in Groups : RestartFires(g) \/ ProbeTick(g)
  BY <1>2, RestartStep, ProbeTickStep
<1>4. ~\E g \in Groups, s \in Subs, cause \in {"callback-error", "path-missing"} :
         CallbackError(g, s, cause)
  BY <1>2, CallbackStep
<1>5. ~\E p \in ops : AccessResumes(p) \/ SubscribeResumes(p) \/ FaultResumes(p) \/ ProbeResumes(p)
  BY <1>2, AccessStep, SubscribeStep, FaultStep, ProbeResumesStep
<1>6. ~\E c \in Cwd : Attach(c)
  <2> SUFFICES ASSUME NEW c \in Cwd, Attach(c) PROVE FALSE
    OBVIOUS
  <2> DEFINE e == AttachEntry(c)  E == AttachBase(c)
  <2>1. /\ e <= MaxEntry
        /\ \/ ops \subseteq ops'
           \/ AttachWatcher(Queue(Wait(E, e), e), ops, e)
    BY AttachForms
  <2>2. E \in Seq(EntryRec) /\ e \in 1..Len(E)
    BY <2>1, AttachBaseTyped
  <2> HIDE DEF e, E
  <2> DEFINE F == Queue(Wait(E, e), e)
  <2>3. Wait(E, e) \in Seq(EntryRec) /\ Len(Wait(E, e)) = Len(E)
    BY <2>2, WaitingEntry DEF ButFor
  <2>4. F \in Seq(EntryRec) /\ Len(F) = Len(E)
    BY <2>2, <2>3, QueuedEntry DEF ButFor
  <2>5. ops \subseteq ops' \/ AttachWatcher(F, ops, e)
    BY <2>1
  <2> HIDE DEF F
  <2>6. CASE AttachWatcher(F, ops, e)
    BY <2>2, <2>4, <2>6, AttachStarts
  <2> QED
    BY <2>5, <2>6
<1>7. ~\E c \in Cwd : Detach(c)
  BY DetachForms
<1>8. ~\E p \in ops : DetachResumes(p)
  BY DEF DetachResumes, Recomputes
<1>9. ~\E c \in Cwd : Revalidate(c)
  BY DEF Revalidate, StartRecompute
<1>10. ~\E e \in Entries : DebounceFires(e)
  BY DEF DebounceFires, StartRecompute
<1>11. ~(\/ \E r \in Repo : PathLost(r) \/ PathBack(r)
         \/ \E s \in Subs : Unsubscribed(s)
         \/ UNCHANGED watchVars)
  BY DEF PathLost, PathBack, Unsubscribed, watchVars
<1>12. PICK p \in ops : AttachResumes(p) \/ RecomputeResumes(p)
  BY <1>3, <1>4, <1>5, <1>6, <1>7, <1>8, <1>9, <1>10, <1>11 DEF WatchNext, Resume
<1>13. p.e \in 1..Len(entry)
  BY <1>12, TypedFacts DEF AttachResumes, RecomputeResumes, OpTyped, Recomputes
<1>14. PICK found \in Found : \/ ops' = ops \ {p}
                              \/ AttachWatcher(Recomputed(p.e, found), ops \ {p}, p.e)
  BY <1>12 DEF AttachResumes, RecomputeResumes
<1> DEFINE E == Recomputed(p.e, found)
<1>15. E \in Seq(EntryRec) /\ p.e \in 1..Len(E)
  BY <1>13, FoundTyped, RecomputedEntry, TypedFacts DEF ButFor
<1>16. ops' = ops \ {p} \/ AttachWatcher(E, ops \ {p}, p.e)
  BY <1>14
<1> HIDE DEF E
<1>17. ops \ {p} \subseteq ops'
  BY <1>15, <1>16, AttachStarts
<1> QED
  BY <1>12, <1>17

InGroupsInv == Typed /\ Roster

LEMMA InGroupsAlways == WatchSpec => []InGroupsInv
<1>1. WatchInit => InGroupsInv
  BY InitTyped, InitRoster DEF InGroupsInv
<1>2. InGroupsInv /\ [WatchNext /\ History]_specVars => InGroupsInv'
  <2> SUFFICES ASSUME InGroupsInv, [WatchNext /\ History]_specVars PROVE InGroupsInv'
    OBVIOUS
  <2>1. Typed'
    BY WatchNextTyped DEF InGroupsInv, specVars
  <2> QED
    BY <2>1, RosterNext DEF InGroupsInv
<1> QED
  BY <1>1, <1>2, PTL DEF WatchSpec

\* Every settled directory that is subscribed is held by the worker, and once
\* attached is a member of its repository's current group, the one
\* runGroupReconcile walks, unless it itself attached or joined while a detach was
\* awaited (handleAttachWatch): such a directory never takes another one along.
THEOREM HeartbeatIsComplete == WatchSpec => []HeartbeatCovers
<1>1. InGroupsInv => HeartbeatCovers
  BY RosterCovers DEF InGroupsInv
<1> QED
  BY <1>1, InGroupsAlways, PTL

\* Nor does handleDetachWatch leave anything behind: a settled directory that is
\* not subscribed is in no map and in no group, unless it attached or joined while
\* a detach was awaited, whatever the others did.
THEOREM ReleaseIsComplete == WatchSpec => []ReleasedWhenUnwanted
<1>1. InGroupsInv => ReleasedWhenUnwanted
  BY RosterCovers DEF InGroupsInv
<1> QED
  BY <1>1, InGroupsAlways, PTL

\* handleAttachWatch and reattachWatcherIfBecameGit: the recompute of an attach,
\* or a user-driven one, that finds a repository ends with the directory in a
\* group, whatever it was found to be before.
THEOREM RecheckIsWatched == WatchSpec => RecheckWatches
<1>1. ASSUME InGroupsInv, InGroupsInv', [WatchNext /\ History]_specVars
      PROVE  [\A o \in ops \ ops' :
                (/\ o.kind = "attach" \/ (o.kind = "revalidate" /\ ~entry[o.e].attaching)
                 /\ entry'[o.e].known /\ ~entry[o.e].detaching
                 /\ entry[o.e].cwd \notin raced') =>
                  /\ entry'[o.e].group # NoRepo
                  /\ entry'[o.e].cwd \in group'[groups'[entry'[o.e].group]].members]_specVars
  <2>1. [WatchNext]_watchVars
    BY <1>1 DEF specVars
  <2> QED
    BY <1>1, <2>1, RecomputeEnds, RecheckStep DEF InGroupsInv, Recomputes
<1>2. InGroupsInv /\ InGroupsInv' /\ [WatchNext /\ History]_specVars =>
        [\A o \in ops \ ops' :
                (/\ o.kind = "attach" \/ (o.kind = "revalidate" /\ ~entry[o.e].attaching)
                 /\ entry'[o.e].known /\ ~entry[o.e].detaching
                 /\ entry[o.e].cwd \notin raced') =>
                  /\ entry'[o.e].group # NoRepo
                  /\ entry'[o.e].cwd \in group'[groups'[entry'[o.e].group]].members]_specVars
  BY <1>1
<1> QED
  BY <1>2, InGroupsAlways, PTL DEF WatchSpec, RecheckWatches

-----------------------------------------------------------------------------
(* What each watcher group is doing with its native subscription, until it *)
(* is joined during a detach or probed twice at once                       *)

\* A group with members is the one in the map, and no detach will take it out.
Served(g) == group[g].members # {} =>
  /\ groups[group[g].repo] = g
  /\ \A o \in ops : o.kind = "detach" => o.x # group[g].repo
Serving == \A g \in Groups \ spoilt : Served(g)

\* What a group holds or opens is its own, whatever else happened to it.
Holds(g) == LET d == group[g].dispose IN
  /\ d # 0 => sub[d] = "live" /\ opener[d] = g
  /\ \A o \in ops : (o.kind = "subscribe" /\ o.g = g) => sub[o.s] = "opening" /\ opener[o.s] = g
  /\ \A o, p \in ops :
       (o.kind = "subscribe" /\ p.kind = "subscribe" /\ o.g = g /\ p.g = g /\ o.s = p.s) => o = p

NoOp(g) == \A o \in ops : o.g # g
OnlyOp(g, o) == o.g = g /\ \A p \in ops : p.g = g => p = o
NotShownHealthy(a) == a.members # {} => a.health # "healthy"

\* Nothing is attached and nothing is under way: a timer may be set.
Resting(g) == LET a == group[g] IN
  /\ NoOp(g) /\ a.dispose = 0 /\ ~a.attaching /\ ~(a.restart /\ a.probe) /\ NotShownHealthy(a)
\* Attached.
Attached(g) == LET a == group[g] IN
  /\ NoOp(g) /\ a.dispose # 0 /\ a.members # {}
  /\ a.health = "healthy" /\ ~a.attaching /\ ~a.restart /\ ~a.probe
\* One handler is under way.
Handling(g, o) == LET a == group[g] IN
  /\ OnlyOp(g, o) /\ a.dispose = 0 /\ ~a.restart
  /\ \/ o.kind \in {"access", "subscribe"} /\ a.attaching /\ ~a.probe /\ NotShownHealthy(a)
     \/ o.kind = "fault" /\ ~a.attaching /\ ~a.probe
     \/ o.kind = "probe" /\ ~a.attaching /\ NotShownHealthy(a)

Stage(g) == Resting(g) \/ Attached(g) \/ \E o \in ops : Handling(g, o)

\* A live subscription of the group is the one it will dispose.
LiveHeld(g) == \A s \in Subs : (sub[s] = "live" /\ opener[s] = g) => group[g].dispose = s
Sound(g) == Stage(g) /\ LiveHeld(g)

Watching ==
  /\ \A s \in Subs : opener[s] \in Groups
  /\ \A g \in Groups : Holds(g)
  /\ \A g \in Groups \ spoilt : Sound(g)

\* What a step records of the groups.
Recorded ==
  /\ spoilt \subseteq spoilt'
  /\ \A g \in 1..Len(group') : (GroupLate(g) \/ ProbesOverlap(g)) => g \in spoilt'
  /\ \A s \in 1..Len(sub') : opener'[s] = IF s \in Subs THEN opener[s]
       ELSE (CHOOSE o \in ops' : o.kind = "subscribe" /\ o.s = s).g

LEMMA HistoryRecords == History => Recorded
BY DEF History, Recorded

\* A group with a handler has that one only.
LEMMA HandlerStage ==
  ASSUME Typed, Watching, NEW o \in ops, o.g \in 1..Len(group), o.g \notin spoilt
  PROVE  /\ Handling(o.g, o) /\ LiveHeld(o.g)
         /\ o.kind \in {"access", "subscribe", "fault", "probe"}
<1>2. Stage(o.g) /\ LiveHeld(o.g)
  BY TypedFacts DEF Watching, Sound
<1>3. ~Resting(o.g) /\ ~Attached(o.g)
  BY DEF Resting, Attached, NoOp
<1>4. PICK p \in ops : Handling(o.g, p)
  BY <1>2, <1>3 DEF Stage
<1>5. p = o
  BY <1>4 DEF Handling, OnlyOp
<1>6. o.kind \in {"access", "subscribe", "fault", "probe"}
  BY <1>4, <1>5 DEF Handling
<1> QED
  BY <1>2, <1>4, <1>5, <1>6

\* A group that holds a subscription is attached.
LEMMA HolderStage ==
  ASSUME Typed, Watching, NEW g \in 1..Len(group), g \notin spoilt, group[g].dispose # 0
  PROVE  Attached(g)
<1>1. Stage(g)
  BY TypedFacts DEF Watching, Sound
<1> QED
  BY <1>1 DEF Stage, Resting, Handling

\* A step in which only group g, its handlers and its subscriptions change; an
\* unsubscribe may complete.
GroupMoves(g) ==
  /\ \A h \in 1..Len(group) : h # g => group'[h] = group[h]
  /\ \A o \in ops : (o.g # g /\ o.g # 0) => o \in ops'
  /\ \A o \in ops' : (o.g # g /\ o.g # 0) => o \in ops
SubsMove(g) ==
  /\ Len(sub) <= Len(sub')
  /\ \A t \in 1..Len(sub) : \/ sub'[t] = sub[t]
                            \/ opener[t] = g
                            \/ {sub[t], sub'[t]} \cap {"opening", "live"} = {}
  /\ \A t \in 1..Len(sub') : t > Len(sub) => opener'[t] = g

LEMMA OthersKeep ==
  ASSUME Typed, Typed', Watching, Recorded, NEW g, GroupMoves(g), SubsMove(g),
         NEW h \in 1..Len(group), h # g
  PROVE  Holds(h)' /\ (h \notin spoilt' => Sound(h)')
<1>1. /\ group'[h] = group[h] /\ h # 0 /\ Holds(h)
      /\ Subs = 1..Len(sub) /\ Subs' = 1..Len(sub') /\ Len(sub) \in Nat /\ Len(sub') \in Nat
  BY TypedFacts DEF GroupMoves, Watching, Subs
<1>2. \A o : o.g = h => (o \in ops <=> o \in ops')
  BY <1>1 DEF GroupMoves
<1>3. \A t \in 1..Len(sub) : opener'[t] = opener[t]
  BY <1>1 DEF Recorded, SubsMove
<1>4. \A t \in 1..Len(sub) : (opener[t] = h /\ sub[t] \in {"opening", "live"}) => sub'[t] = sub[t]
  BY DEF SubsMove
<1>5. group[h].dispose # 0 => group[h].dispose \in 1..Len(sub)
  BY <1>1, TypedFacts, DisposeNat
<1>6. Holds(h)'
  <2>1. group[h].dispose # 0 => sub'[group[h].dispose] = "live" /\ opener'[group[h].dispose] = h
    BY <1>1, <1>3, <1>4, <1>5 DEF Holds
  <2>2. \A o \in ops' : (o.kind = "subscribe" /\ o.g = h) => sub'[o.s] = "opening" /\ opener'[o.s] = h
    <3> TAKE o \in ops'
    <3> HAVE o.kind = "subscribe" /\ o.g = h
    <3>1. o \in ops /\ o.s \in 1..Len(sub)
      BY <1>2, TypedFacts DEF OpTyped, Recomputes
    <3> QED
      BY <1>1, <1>3, <1>4, <3>1 DEF Holds
  <2>3. \A o, p \in ops' : (o.kind = "subscribe" /\ p.kind = "subscribe" /\ o.g = h /\ p.g = h
                             /\ o.s = p.s) => o = p
    BY <1>1, <1>2 DEF Holds
  <2> QED
    BY <1>1, <2>1, <2>2, <2>3 DEF Holds
<1>7. ASSUME h \notin spoilt' PROVE Sound(h)'
  <2>1. Stage(h) /\ LiveHeld(h)
    BY <1>7, TypedFacts DEF Recorded, Watching, Sound
  <2>2. NoOp(h) => NoOp(h)'
    BY <1>2 DEF NoOp
  <2>3. ASSUME NEW o \in ops, Handling(h, o) PROVE o \in ops' /\ Handling(h, o)'
    BY <1>1, <1>2, <2>3 DEF Handling, OnlyOp
  <2>4. Stage(h)'
    BY <1>1, <2>1, <2>2, <2>3 DEF Stage, Resting, Attached
  <2>5. LiveHeld(h)'
    <3> SUFFICES ASSUME NEW t \in Subs', sub'[t] = "live", opener'[t] = h
                 PROVE  group'[h].dispose = t
      BY DEF LiveHeld
    <3>1. t \in 1..Len(sub)
      BY <1>1 DEF SubsMove
    <3>2. opener[t] = h /\ sub[t] = "live"
      BY <1>3, <3>1 DEF SubsMove
    <3> QED
      BY <1>1, <2>1, <3>1, <3>2 DEF LiveHeld
  <2> QED
    BY <2>4, <2>5 DEF Sound
<1> QED
  BY <1>6, <1>7

\* A step of group g's watcher keeps the invariant if it keeps g's part of it.
LEMMA OneGroupStep ==
  ASSUME Typed, Typed', Watching, Recorded, NEW g \in 1..Len(group), Len(group') = Len(group),
         GroupMoves(g), SubsMove(g), Holds(g)', g \notin spoilt' => Sound(g)'
  PROVE  Watching'
<1>1. /\ Groups' = 1..Len(group) /\ Groups = 1..Len(group)
      /\ Subs' = 1..Len(sub') /\ Subs = 1..Len(sub) /\ Len(sub) \in Nat /\ Len(sub') \in Nat
  BY TypedFacts DEF Groups, Subs
<1>2. \A s \in Subs' : opener'[s] \in Groups'
  BY <1>1 DEF Recorded, SubsMove, Watching
<1>3. \A h \in Groups' : Holds(h)' /\ (h \notin spoilt' => Sound(h)')
  BY <1>1, OthersKeep
<1> QED
  BY <1>2, <1>3 DEF Watching

\* A step that neither opens nor hands over a subscription.
LEMMA SameSubsStep ==
  ASSUME Typed, Typed', Watching, Recorded, NEW g \in 1..Len(group), Len(group') = Len(group),
         GroupMoves(g), UNCHANGED sub, group'[g].dispose = group[g].dispose,
         g \notin spoilt' => Stage(g)',
         \A o \in ops' \ ops : o.kind # "subscribe"
  PROVE  Watching'
<1>1. /\ Holds(g) /\ Subs = 1..Len(sub) /\ Subs' = 1..Len(sub) /\ Len(sub) \in Nat
      /\ group[g].dispose # 0 => group[g].dispose \in 1..Len(sub)
  BY TypedFacts, DisposeNat DEF Watching, Subs
<1>2. SubsMove(g)
  BY <1>1 DEF SubsMove
<1>3. \A t \in 1..Len(sub) : opener'[t] = opener[t]
  BY <1>1 DEF Recorded
<1>4. Holds(g)'
  <2>1. \A o \in ops' : (o.kind = "subscribe" /\ o.g = g) =>
          o \in ops /\ sub'[o.s] = "opening" /\ opener'[o.s] = g
    <3> TAKE o \in ops'
    <3> HAVE o.kind = "subscribe" /\ o.g = g
    <3>1. o \in ops /\ o.s \in 1..Len(sub)
      BY TypedFacts DEF OpTyped, Recomputes
    <3> QED
      BY <1>1, <1>3, <3>1 DEF Holds
  <2>2. group[g].dispose # 0 => sub'[group[g].dispose] = "live" /\ opener'[group[g].dispose] = g
    BY <1>1, <1>3 DEF Holds
  <2>3. \A o, p \in ops' : (o.kind = "subscribe" /\ p.kind = "subscribe" /\ o.g = g /\ p.g = g
                             /\ o.s = p.s) => o = p
    BY <1>1, <2>1 DEF Holds
  <2> QED
    BY <2>1, <2>2, <2>3 DEF Holds
<1>5. ASSUME g \notin spoilt' PROVE Sound(g)'
  <2>1. LiveHeld(g)
    BY <1>5, TypedFacts DEF Recorded, Watching, Sound
  <2>2. LiveHeld(g)'
    BY <1>1, <1>3, <2>1 DEF LiveHeld
  <2> QED
    BY <1>5, <2>2 DEF Sound
<1> QED
  BY <1>2, <1>4, <1>5, OneGroupStep

-----------------------------------------------------------------------------
(* The steps of a group's watcher                                          *)

\* A group's fault once nothing of it is attached: it is left as it is, or polls
\* until its restart, or waits for its root.
Faulted(a, b) ==
  /\ Keeps(a, b) /\ b.dispose = 0 /\ b.attaching = a.attaching /\ ~(b.restart /\ b.probe)
  /\ NotShownHealthy(b)

LEMMA FaultedTwice ==
  ASSUME NEW a, NEW b, NEW c, Keeps(a, b), b.attaching = a.attaching, Faulted(b, c)
  PROVE  Faulted(a, c)
BY DEF Faulted, Keeps

LEMMA AfterNothing ==
  ASSUME NEW G \in Seq(GroupRec), NEW g \in 1..Len(G), G[g].dispose = 0, ~G[g].probe,
         NEW S, NEW O, NEW cause, AfterDispose(G, S, O, g, cause)
  PROVE  /\ sub' = S /\ ops' = O /\ ButFor(GroupRec, G, group', g) /\ Faulted(G[g], group'[g])
<1>1. CASE group' = Degraded(G, g) /\ sub' = S /\ ops' = O
  BY <1>1, DegradedGroup DEF Faulted, NotShownHealthy
<1>2. CASE cause = "path-missing"
  <2> DEFINE H == Quiet(G, g)
  <2>1. /\ ButFor(GroupRec, G, H, g) /\ Keeps(G[g], H[g]) /\ H[g].dispose = 0 /\ ~H[g].restart
        /\ H[g].attaching = G[g].attaching /\ H \in Seq(GroupRec) /\ g \in 1..Len(H)
    BY QuietGroup DEF ButFor
  <2>2. \/ H[g].dispose = 0 /\ group' = Suspended(H, g) /\ sub' = S /\ ops' = O
        \/ H[g].dispose # 0
    BY <1>2 DEF AfterDispose, Quiet
  <2> HIDE DEF H
  <2>3. group' = Suspended(H, g) /\ sub' = S /\ ops' = O
    BY <2>1, <2>2
  <2>4. /\ ButFor(GroupRec, H, group', g) /\ Keeps(H[g], group'[g]) /\ ~group'[g].restart
        /\ group'[g].dispose = 0 /\ group'[g].attaching = H[g].attaching
        /\ group'[g].health = "suspended"
    BY <2>1, <2>3, SuspendedGroup
  <2>5. Faulted(H[g], group'[g])
    BY <2>4 DEF Faulted, NotShownHealthy
  <2> QED
    BY <2>1, <2>3, <2>4, <2>5, ButForTwice, FaultedTwice
<1> QED
  BY <1>1, <1>2 DEF AfterDispose

LEMMA FaultNothing ==
  ASSUME NEW G \in Seq(GroupRec), NEW g \in 1..Len(G), G[g].dispose = 0, ~G[g].probe,
         NEW S, NEW O, NEW cause, Fault(G, S, O, g, cause)
  PROVE  /\ sub' = S /\ ops' = O /\ ButFor(GroupRec, G, group', g) /\ Faulted(G[g], group'[g])
<1>1. CASE G[g].members = {} /\ group' = G /\ sub' = S /\ ops' = O
  BY <1>1, ButForSame, KeepsSame, DisposeNat DEF Faulted, NotShownHealthy
<1>2. CASE AfterDispose(G, S, O, g, cause)
  BY <1>2, AfterNothing
<1> QED
  BY <1>1, <1>2 DEF Fault

\* Whatever the state of the group, a fault either leaves the subscriptions as
\* they are or begins to close the one the group holds, which it lets go.
LetsGo(G, S, g) ==
  \/ sub' = S /\ group'[g].dispose = G[g].dispose
  \/ /\ G[g].dispose # 0 /\ group'[g].dispose = 0
     /\ sub' = [S EXCEPT ![G[g].dispose] = "closing"]

LEMMA AfterDisposeLetsGo ==
  ASSUME NEW G \in Seq(GroupRec), NEW g \in 1..Len(G),
         NEW S, NEW O, NEW cause, AfterDispose(G, S, O, g, cause)
  PROVE  LetsGo(G, S, g)
<1>1. CASE group' = Degraded(G, g) /\ sub' = S
  BY <1>1, DegradedGroup DEF LetsGo
<1>2. CASE cause = "path-missing"
  <2> DEFINE H == Quiet(G, g)
  <2>1. /\ H[g].dispose = G[g].dispose /\ H \in Seq(GroupRec) /\ g \in 1..Len(H)
    BY QuietGroup DEF ButFor
  <2>2. \/ H[g].dispose = 0 /\ group' = Suspended(H, g) /\ sub' = S
        \/ /\ H[g].dispose # 0 /\ group' = Released(H, g)
           /\ sub' = [S EXCEPT ![H[g].dispose] = "closing"]
    BY <1>2 DEF AfterDispose, Quiet, Released
  <2> HIDE DEF H
  <2> QED
    BY <2>1, <2>2, SuspendedGroup, ReleasedGroup DEF LetsGo
<1> QED
  BY <1>1, <1>2 DEF AfterDispose

LEMMA FaultLetsGo ==
  ASSUME NEW G \in Seq(GroupRec), NEW g \in 1..Len(G),
         NEW S, NEW O, NEW cause, Fault(G, S, O, g, cause)
  PROVE  LetsGo(G, S, g)
<1>1. CASE group' = G /\ sub' = S
  BY <1>1 DEF LetsGo
<1>2. CASE AfterDispose(G, S, O, g, cause)
  BY <1>2, AfterDisposeLetsGo
<1>3. CASE /\ G[g].dispose # 0 /\ group' = Released(G, g)
           /\ sub' = [S EXCEPT ![G[g].dispose] = "closing"]
  BY <1>3, ReleasedGroup DEF LetsGo
<1> QED
  BY <1>1, <1>2, <1>3 DEF Fault, Released

\* A step of group g that starts no subscribe, settles the subscriptions in T and
\* lets go of the one the group held or keeps it.
LEMMA SettledStep ==
  ASSUME Typed, Typed', Watching, Recorded, NEW g \in 1..Len(group), Len(group') = Len(group),
         GroupMoves(g), Len(sub') = Len(sub),
         NEW T, \A t \in T : opener[t] = g,
         \A t \in 1..Len(sub) : t \notin T => sub'[t] = sub[t],
         group'[g].dispose # 0 => sub'[group'[g].dispose] = "live" /\ opener[group'[g].dispose] = g,
         \A o \in ops' : (o.kind = "subscribe" /\ o.g = g) => o \in ops /\ o.s \notin T,
         g \notin spoilt' =>
           /\ Stage(g)'
           /\ \A t \in 1..Len(sub) : (sub'[t] = "live" /\ opener[t] = g) => group'[g].dispose = t
  PROVE  Watching'
<1>1. /\ Holds(g) /\ Subs = 1..Len(sub) /\ Subs' = 1..Len(sub) /\ Len(sub) \in Nat
      /\ group'[g].dispose # 0 => group'[g].dispose \in 1..Len(sub)
  <2>1. group' \in Seq(GroupRec) /\ group'[g].dispose <= Len(sub')
    BY DEF Typed, GroupsTyped, Groups
  <2>2. group'[g].dispose \in Nat
    BY <2>1, DisposeNat
  <2>3. Len(sub) \in Nat /\ Subs = 1..Len(sub) /\ g \in Groups
    BY TypedFacts
  <2>4. Subs' = 1..Len(sub)
    BY DEF Subs
  <2> QED
    BY <2>1, <2>2, <2>3, <2>4 DEF Watching
<1>2. SubsMove(g)
  BY <1>1 DEF SubsMove
<1>3. \A t \in 1..Len(sub) : opener'[t] = opener[t]
  BY <1>1 DEF Recorded
<1>4. Holds(g)'
  <2>1. \A o \in ops' : (o.kind = "subscribe" /\ o.g = g) =>
          o \in ops /\ sub'[o.s] = "opening" /\ opener'[o.s] = g
    <3> TAKE o \in ops'
    <3> HAVE o.kind = "subscribe" /\ o.g = g
    <3>1. o \in ops /\ o.s \in 1..Len(sub) /\ o.s \notin T
      BY TypedFacts DEF OpTyped, Recomputes
    <3> QED
      BY <1>1, <1>3, <3>1 DEF Holds
  <2>2. group'[g].dispose # 0 => sub'[group'[g].dispose] = "live" /\ opener'[group'[g].dispose] = g
    BY <1>1, <1>3
  <2>3. \A o, p \in ops' : (o.kind = "subscribe" /\ p.kind = "subscribe" /\ o.g = g /\ p.g = g
                             /\ o.s = p.s) => o = p
    BY <1>1, <2>1 DEF Holds
  <2> QED
    BY <2>1, <2>2, <2>3 DEF Holds
<1>5. ASSUME g \notin spoilt' PROVE Sound(g)'
  BY <1>1, <1>3, <1>5 DEF Sound, LiveHeld
<1> QED
  BY <1>2, <1>4, <1>5, OneGroupStep

Unrestarted(G, g) == [G EXCEPT ![g].restart = FALSE]
Recovering(G, g) == [G EXCEPT ![g].probe = FALSE, ![g].health = "recovering"]

LEMMA UnrestartedGroup ==
  ASSUME NEW G \in Seq(GroupRec), NEW g \in 1..Len(G), NEW F, F = Unrestarted(G, g)
  PROVE  /\ ButFor(GroupRec, G, F, g) /\ Keeps(G[g], F[g])
         /\ ~F[g].restart /\ F[g].attaching = G[g].attaching /\ F[g].probe = G[g].probe
         /\ F[g].dispose = G[g].dispose /\ F[g].health = G[g].health
<1> DEFINE a == [G[g] EXCEPT !.restart = FALSE]
<1>1. G[g] \in GroupRec
  OBVIOUS
<1>2. /\ a \in GroupRec /\ a.repo = G[g].repo /\ a.members = G[g].members
      /\ ~a.restart /\ a.attaching = G[g].attaching /\ a.probe = G[g].probe
      /\ a.dispose = G[g].dispose /\ a.health = G[g].health
  BY <1>1 DEF GroupRec
<1>3. F = Put(G, g, a)
  BY DEF Put, Unrestarted
<1> HIDE DEF a
<1>4. ButFor(GroupRec, G, F, g) /\ F[g] = a
  BY <1>2, <1>3, PutAt
<1> QED
  BY <1>2, <1>4 DEF Keeps

LEMMA RecoveringGroup ==
  ASSUME NEW G \in Seq(GroupRec), NEW g \in 1..Len(G), NEW F, F = Recovering(G, g)
  PROVE  /\ ButFor(GroupRec, G, F, g) /\ Keeps(G[g], F[g])
         /\ ~F[g].probe /\ F[g].attaching = G[g].attaching /\ F[g].restart = G[g].restart
         /\ F[g].dispose = G[g].dispose /\ F[g].health = "recovering"
<1> DEFINE a == [G[g] EXCEPT !.probe = FALSE, !.health = "recovering"]
<1>1. G[g] \in GroupRec
  OBVIOUS
<1>2. /\ a \in GroupRec /\ a.repo = G[g].repo /\ a.members = G[g].members
      /\ ~a.probe /\ a.attaching = G[g].attaching /\ a.restart = G[g].restart
      /\ a.dispose = G[g].dispose /\ a.health = "recovering"
  BY <1>1 DEF GroupRec, Healths
<1>3. F = Put(G, g, a)
  BY DEF Put, Recovering
<1> HIDE DEF a
<1>4. ButFor(GroupRec, G, F, g) /\ F[g] = a
  BY <1>2, <1>3, PutAt
<1> QED
  BY <1>2, <1>4 DEF Keeps

\* ensureWatcherForGroup, for a group G[g] as a timer or a probe left it.
LEMMA EnsuresWatching ==
  ASSUME Typed, Typed', Watching, Recorded, NEW g \in 1..Len(group), UNCHANGED sub,
         NEW O, O \subseteq ops, \A o \in ops \ O : o.g = g,
         NEW G, ButFor(GroupRec, group, G, g), Keeps(group[g], G[g]),
         G[g].dispose = group[g].dispose,
         \/ group' = G /\ ops' = O
         \/ group' = Ensured(G, g, "recovering") /\ ops' = O \cup EnsureOps(G, g),
         g \notin spoilt' =>
           /\ \A o \in O : o.g # g
           /\ group[g].dispose = 0 /\ ~G[g].attaching /\ ~(G[g].restart /\ G[g].probe)
           /\ NotShownHealthy(G[g])
           /\ ops' # O => ~G[g].probe
  PROVE  Watching'
<1>1. G \in Seq(GroupRec) /\ g \in 1..Len(G) /\ g # 0
  BY DEF ButFor
<1>2. CASE group' = G /\ ops' = O
  <2>1. g \notin spoilt' => Stage(g)'
    BY <1>2 DEF Stage, Resting, NoOp
  <2> QED
    BY <1>2, <2>1, SameSubsStep DEF GroupMoves, ButFor
<1>3. CASE group' = Ensured(G, g, "recovering") /\ ops' = O \cup EnsureOps(G, g)
  <2>1. /\ ButFor(GroupRec, G, group', g) /\ Keeps(G[g], group'[g])
        /\ group'[g].dispose = group[g].dispose
    BY <1>1, <1>3, EnsuredKeeps DEF Healths
  <2>2. ButFor(GroupRec, group, group', g)
    BY <2>1, ButForTwice, TypedFacts
  <2>3. \A o \in ops' \ O : o.kind = "access" /\ o.g = g
    BY <1>3 DEF EnsureOps, Op
  <2>4. GroupMoves(g)
    BY <1>3, <2>2, <2>3 DEF GroupMoves, ButFor
  <2>5. ASSUME g \notin spoilt' PROVE Stage(g)'
    <3>1. PICK n : n = Op("access", 0, g, 0, NoRepo)
      OBVIOUS
    <3>2. ops' = O \cup {n} /\ n.kind = "access" /\ n.g = g
      BY <1>3, <2>5, <3>1 DEF EnsureOps, Op
    <3>3. ~G[g].probe
      BY <2>5, <3>2
    <3>4. /\ group'[g].attaching /\ ~group'[g].restart /\ group'[g].health = "recovering"
          /\ group'[g].dispose = 0 /\ ~group'[g].probe
      BY <1>1, <1>3, <2>1, <2>5, <3>3, EnsuredGroup DEF Healths
    <3>5. Handling(g, n)'
      BY <2>5, <3>2, <3>4 DEF Handling, OnlyOp, NotShownHealthy
    <3> QED
      BY <3>2, <3>5 DEF Stage
  <2>6. Len(group') = Len(group) /\ \A o \in ops' \ ops : o.kind # "subscribe"
    BY <2>2, <2>3 DEF ButFor
  <2> QED
    BY <2>1, <2>4, <2>5, <2>6, SameSubsStep
<1> QED
  BY <1>2, <1>3

LEMMA RestartWatching ==
  ASSUME Typed, Typed', Watching, Recorded, NEW g \in 1..Len(group), RestartFires(g)
  PROVE  Watching'
<1> DEFINE G == Unrestarted(group, g)
<1>1. /\ ButFor(GroupRec, group, G, g) /\ Keeps(group[g], G[g]) /\ ~G[g].restart
      /\ G[g].dispose = group[g].dispose /\ G[g].attaching = group[g].attaching
      /\ G[g].probe = group[g].probe /\ G[g].health = group[g].health
  BY UnrestartedGroup, TypedFacts
<1>2. \/ group' = G /\ ops' = ops
      \/ group' = Ensured(G, g, "recovering") /\ ops' = ops \cup EnsureOps(G, g)
  BY DEF RestartFires, Unrestarted
<1> HIDE DEF G
<1>3. ASSUME g \notin spoilt'
      PROVE  /\ \A o \in ops : o.g # g
             /\ group[g].dispose = 0 /\ ~G[g].attaching /\ ~G[g].probe /\ NotShownHealthy(G[g])
  <2>1. Stage(g) /\ group[g].restart
    BY <1>3, TypedFacts DEF Watching, Sound, Recorded, RestartFires
  <2>2. Resting(g) /\ ~group[g].probe
    BY <2>1 DEF Stage, Resting, Attached, Handling
  <2> QED
    BY <1>1, <2>2 DEF Resting, NoOp, NotShownHealthy, Keeps
<1>4. UNCHANGED sub
  BY DEF RestartFires
<1> QED
  BY <1>1, <1>2, <1>3, <1>4, EnsuresWatching

LEMMA ProbeTickWatching ==
  ASSUME Typed, Typed', Watching, Recorded, NEW g \in 1..Len(group), ProbeTick(g)
  PROVE  Watching'
<1>1. PICK n : Op("probe", 0, g, 0, n) \notin ops /\ ops' = ops \cup {Op("probe", 0, g, 0, n)}
  BY DEF ProbeTick
<1>2. group[g].probe /\ UNCHANGED <<group, sub>>
  BY DEF ProbeTick
<1>3. PICK o : o = Op("probe", 0, g, 0, n)
  OBVIOUS
<1>4. o \notin ops /\ ops' = ops \cup {o} /\ o.kind = "probe" /\ o.g = g
  BY <1>1, <1>3 DEF Op
<1>5. ASSUME g \notin spoilt' PROVE Stage(g)'
  <2>1. ~ProbesOverlap(g)
    BY <1>2, <1>5, TypedFacts DEF Recorded
  <2>2. \A p \in ops : ~(p.kind = "probe" /\ p.g = g)
    BY <1>4, <2>1 DEF ProbesOverlap
  <2>3. Stage(g)
    BY <1>5, TypedFacts DEF Watching, Sound, Recorded
  <2>4. Resting(g)
    BY <1>2, <2>2, <2>3 DEF Stage, Attached, Handling, OnlyOp
  <2>5. Handling(g, o)'
    BY <1>2, <1>4, <2>4 DEF Handling, OnlyOp, Resting, NoOp
  <2> QED
    BY <1>4, <2>5 DEF Stage
<1>6. GroupMoves(g) /\ Len(group') = Len(group)
  BY <1>2, <1>4 DEF GroupMoves
<1> QED
  BY <1>2, <1>4, <1>5, <1>6, SameSubsStep

LEMMA ProbeResumesWatching ==
  ASSUME Typed, Typed', Watching, Recorded, NEW o, ProbeResumes(o)
  PROVE  Watching'
<1> PICK g : g = o.g
  OBVIOUS
<1> DEFINE R == Recovering(group, g)  O == ops \ {o}
<1>1. o \in ops /\ o.kind = "probe" /\ g \in 1..Len(group) /\ UNCHANGED sub
  BY ProbeResumesStep DEF ProbeResumes
<1>2. /\ ButFor(GroupRec, group, R, g) /\ Keeps(group[g], R[g]) /\ ~R[g].probe
      /\ R[g].dispose = group[g].dispose /\ R[g].attaching = group[g].attaching
      /\ R[g].restart = group[g].restart /\ R[g].health = "recovering"
  BY <1>1, RecoveringGroup, TypedFacts
<1>3. /\ ButFor(GroupRec, group, group, g) /\ Keeps(group[g], group[g])
  BY <1>1, ButForSame, KeepsSame, DisposeNat, TypedFacts
<1>4. \/ group' = group /\ ops' = O
      \/ group' = R /\ ops' = O
      \/ group' = Ensured(R, g, "recovering") /\ ops' = O \cup EnsureOps(R, g)
  BY DEF ProbeResumes, Recovering
<1> HIDE DEF R
<1>5. O \subseteq ops /\ \A p \in ops \ O : p.g = g
  OBVIOUS
<1>6. ASSUME g \notin spoilt'
      PROVE  /\ \A p \in O : p.g # g
             /\ group[g].dispose = 0 /\ ~group[g].attaching /\ ~group[g].restart
             /\ NotShownHealthy(group[g]) /\ NotShownHealthy(R[g])
  <2>1. Handling(g, o)
    BY <1>1, <1>6, HandlerStage DEF Recorded
  <2> QED
    BY <1>1, <1>2, <2>1 DEF Handling, OnlyOp, NotShownHealthy
<1> HIDE DEF O
<1>7. CASE group' = group /\ ops' = O
  BY <1>1, <1>3, <1>5, <1>6, <1>7, EnsuresWatching
<1>8. CASE \/ group' = R /\ ops' = O
           \/ group' = Ensured(R, g, "recovering") /\ ops' = O \cup EnsureOps(R, g)
  BY <1>1, <1>2, <1>5, <1>6, <1>8, EnsuresWatching
<1> QED
  BY <1>4, <1>7, <1>8

\* What a fault of group g lets go of is its own.
LEMMA LetsGoStep ==
  ASSUME Typed, Typed', Watching, Recorded, NEW g \in 1..Len(group), Len(group') = Len(group),
         GroupMoves(g),
         NEW S \in Seq(SubStates), Len(S) = Len(sub),
         NEW T, \A t \in T : opener[t] = g, group[g].dispose \notin T,
         \A t \in 1..Len(sub) : t \notin T => S[t] = sub[t],
         \A t \in T \cap (1..Len(sub)) : S[t] # "live",
         NEW G, G[g].dispose = group[g].dispose, LetsGo(G, S, g),
         \A o \in ops' : (o.kind = "subscribe" /\ o.g = g) => o \in ops /\ o.s \notin T,
         g \notin spoilt' => Stage(g)'
  PROVE  Watching'
<1> DEFINE d == group[g].dispose
<1>1. /\ Holds(g) /\ Len(sub) \in Nat /\ Subs = 1..Len(sub)
      /\ d # 0 => d \in 1..Len(sub) /\ sub[d] = "live" /\ opener[d] = g
  <2>1. d \in Nat /\ d <= Len(sub) /\ Holds(g)
    BY TypedFacts, DisposeNat DEF Watching
  <2> QED
    BY <2>1, TypedFacts DEF Holds
<1>2. g \notin spoilt' => \A t \in 1..Len(sub) : (sub[t] = "live" /\ opener[t] = g) => d = t
  BY <1>1, TypedFacts DEF Recorded, Watching, Sound, LiveHeld
<1>3. \A o \in ops : (o.kind = "subscribe" /\ o.g = g) => o.s # d
  <2> TAKE o \in ops
  <2> HAVE o.kind = "subscribe" /\ o.g = g
  <2>1. o.s \in 1..Len(sub) /\ sub[o.s] = "opening"
    BY <1>1, TypedFacts DEF Holds, OpTyped, Recomputes
  <2> QED
    BY <1>1, <2>1
<1>4. CASE sub' = S /\ group'[g].dispose = d
  <2>1. Len(sub') = Len(sub) /\ \A t \in 1..Len(sub) : t \notin T => sub'[t] = sub[t]
    BY <1>4
  <2>2. group'[g].dispose # 0 => sub'[group'[g].dispose] = "live" /\ opener[group'[g].dispose] = g
    BY <1>1, <1>4, <2>1
  <2>3. \A t \in 1..Len(sub) : sub'[t] = "live" => sub[t] = "live"
    BY <1>4
  <2> QED
    BY <1>2, <1>4, <2>1, <2>2, <2>3, SettledStep
<1>5. CASE d # 0 /\ group'[g].dispose = 0 /\ sub' = [S EXCEPT ![d] = "closing"]
  <2> DEFINE U == T \cup {d}
  <2>1. /\ Len(sub') = Len(sub) /\ sub'[d] = "closing"
        /\ \A t \in 1..Len(sub) : t # d => sub'[t] = S[t]
    BY <1>1, <1>5, ClosedSub DEF SubStates
  <2>2. (\A t \in U : opener[t] = g) /\ \A t \in 1..Len(sub) : t \notin U => sub'[t] = sub[t]
    BY <1>1, <1>5, <2>1
  <2>3. \A o \in ops' : (o.kind = "subscribe" /\ o.g = g) => o \in ops /\ o.s \notin U
    BY <1>3
  <2>4. \A t \in 1..Len(sub) : sub'[t] = "live" => sub[t] = "live" /\ t # d
    BY <2>1
  <2>5. g \notin spoilt' =>
          \A t \in 1..Len(sub) : (sub'[t] = "live" /\ opener[t] = g) => group'[g].dispose = t
    BY <1>2, <2>4
  <2> HIDE DEF U
  <2> QED
    BY <1>5, <2>1, <2>2, <2>3, <2>5, SettledStep
<1> QED
  BY <1>4, <1>5 DEF LetsGo

\* A fault of group g, handled from a group G[g] that holds what group g did,
\* after the subscriptions in T have settled.
LEMMA SettlesWatching ==
  ASSUME Typed, Typed', Watching, Recorded, NEW g \in 1..Len(group),
         NEW S \in Seq(SubStates), Len(S) = Len(sub),
         NEW T, \A t \in T : opener[t] = g, group[g].dispose \notin T,
         \A t \in 1..Len(sub) : t \notin T => S[t] = sub[t],
         \A t \in T \cap (1..Len(sub)) : S[t] # "live",
         NEW G, ButFor(GroupRec, group, G, g), G[g].dispose = group[g].dispose,
         NEW O, O \subseteq ops, \A o \in ops \ O : o.g = g,
         \A o \in O : (o.kind = "subscribe" /\ o.g = g) => o.s \notin T,
         Settles(G, S, O, g), LetsGo(G, S, g),
         g \notin spoilt' => Stage(g)'
  PROVE  Watching'
<1>1. /\ ButFor(GroupRec, G, group', g) /\ O \subseteq ops'
      /\ \A o \in ops' \ O : o.kind \in {"fault", "suspend"} /\ o.g = g
  BY DEF Settles
<1>2. ButFor(GroupRec, group, group', g)
  BY <1>1, ButForTwice, TypedFacts
<1>3. GroupMoves(g) /\ Len(group') = Len(group)
  BY <1>1, <1>2 DEF GroupMoves, ButFor
<1>4. \A o \in ops' : (o.kind = "subscribe" /\ o.g = g) => o \in ops /\ o.s \notin T
  BY <1>1
<1> QED
  BY <1>3, <1>4, LetsGoStep

LEMMA SettlesSame ==
  ASSUME Typed, Typed', Watching, Recorded, NEW g \in 1..Len(group),
         NEW G, ButFor(GroupRec, group, G, g), G[g].dispose = group[g].dispose,
         NEW O, O \subseteq ops, \A o \in ops \ O : o.g = g,
         Settles(G, sub, O, g), LetsGo(G, sub, g),
         g \notin spoilt' => Stage(g)'
  PROVE  Watching'
<1> PICK T : T = {}
  OBVIOUS
<1>1. /\ \A t \in T : opener[t] = g
      /\ group[g].dispose \notin T
      /\ \A t \in 1..Len(sub) : t \notin T => sub[t] = sub[t]
      /\ \A t \in T \cap (1..Len(sub)) : sub[t] # "live"
      /\ \A o \in O : (o.kind = "subscribe" /\ o.g = g) => o.s \notin T
      /\ sub \in Seq(SubStates)
  BY TypedFacts
<1> QED
  BY <1>1, SettlesWatching

LEMMA AccessWatching ==
  ASSUME Typed, Typed', Watching, Recorded, NEW o, AccessResumes(o)
  PROVE  Watching'
<1> PICK g : g = o.g
  OBVIOUS
<1> DEFINE F == Freed(group, g)  O == ops \ {o}
<1>1. o \in ops /\ o.kind = "access" /\ g \in 1..Len(group) /\ Len(sub) \in Nat
  BY AccessStep, TypedFacts DEF AccessResumes
<1>2. /\ ButFor(GroupRec, group, F, g) /\ Keeps(group[g], F[g]) /\ ~F[g].attaching
      /\ F[g].dispose = group[g].dispose /\ F[g].restart = group[g].restart
      /\ F[g].probe = group[g].probe /\ F[g].health = group[g].health
  BY <1>1, FreedGroup, TypedFacts
<1>3. F \in Seq(GroupRec) /\ g \in 1..Len(F)
  BY <1>1, <1>2 DEF ButFor
<1>4. ASSUME g \notin spoilt'
      PROVE  /\ group[g].dispose = 0 /\ ~group[g].restart /\ group[g].attaching /\ ~group[g].probe
             /\ NotShownHealthy(group[g]) /\ NotShownHealthy(F[g])
             /\ (\A p \in ops : p.g = g => p = o) /\ LiveHeld(g)
  <2>1. Handling(g, o) /\ LiveHeld(g)
    BY <1>1, <1>4, HandlerStage DEF Recorded
  <2> QED
    BY <1>1, <1>2, <2>1 DEF Handling, OnlyOp, NotShownHealthy, Keeps
<1>5. \/ Fault(F, sub, O, g, "path-missing")
      \/ group' = F /\ ops' = O /\ UNCHANGED sub
      \/ /\ sub' = Append(sub, "opening") /\ UNCHANGED group
         /\ ops' = O \cup {Op("subscribe", 0, g, Len(sub) + 1, NoRepo)}
  BY DEF AccessResumes, Freed
<1>6. O \subseteq ops /\ (\A p \in ops \ O : p.g = g) /\ o \notin O
  OBVIOUS
<1>7. ASSUME g \notin spoilt', ops' = O, group'[g].dispose = 0, ~group'[g].attaching,
             ~(group'[g].restart /\ group'[g].probe), NotShownHealthy(group'[g])
      PROVE  Stage(g)'
  BY <1>4, <1>6, <1>7 DEF Stage, Resting, NoOp
<1> HIDE DEF F, O
<1>8. CASE Fault(F, sub, O, g, "path-missing")
  <2>1. Settles(F, sub, O, g) /\ LetsGo(F, sub, g)
    BY <1>1, <1>2, <1>3, <1>8, FaultSettles, FaultLetsGo, TypedFacts
  <2>2. ASSUME g \notin spoilt' PROVE Stage(g)'
    <3>1. ops' = O /\ Faulted(F[g], group'[g])
      BY <1>2, <1>3, <1>4, <1>8, <2>2, FaultNothing
    <3> QED
      BY <1>2, <1>7, <2>2, <3>1 DEF Faulted
  <2> QED
    BY <1>1, <1>2, <1>6, <2>1, <2>2, SettlesSame
<1>9. CASE group' = F /\ ops' = O /\ UNCHANGED sub
  <2>1. ASSUME g \notin spoilt' PROVE Stage(g)'
    BY <1>2, <1>4, <1>7, <1>9, <2>1
  <2>2. GroupMoves(g) /\ Len(group') = Len(group)
    BY <1>2, <1>6, <1>9 DEF GroupMoves, ButFor
  <2> QED
    BY <1>1, <1>2, <1>6, <1>9, <2>1, <2>2, SameSubsStep
<1>10. CASE /\ sub' = Append(sub, "opening") /\ UNCHANGED group
            /\ ops' = O \cup {Op("subscribe", 0, g, Len(sub) + 1, NoRepo)}
  <2> PICK n, k : n = Op("subscribe", 0, g, Len(sub) + 1, NoRepo) /\ k = Len(sub) + 1
    OBVIOUS
  <2>1. ops' = O \cup {n} /\ n.kind = "subscribe" /\ n.g = g /\ n.s = k
    BY <1>10 DEF Op
  <2>2. /\ Len(sub') = k /\ k \in Nat /\ k > Len(sub) /\ sub'[k] = "opening"
        /\ \A t \in 1..Len(sub) : sub'[t] = sub[t]
    BY <1>1, <1>10, SeqAdd, TypedFacts DEF SubStates
  <2>3. \A p \in ops : p.kind = "subscribe" => p.s \in 1..Len(sub) /\ p.s # k
    BY <1>1, <2>2, TypedFacts DEF OpTyped, Recomputes
  <2>4. (CHOOSE p \in ops' : p.kind = "subscribe" /\ p.s = k) = n
    BY <1>6, <2>1, <2>3
  <2>5. /\ opener'[k] = g /\ \A t \in 1..Len(sub) : opener'[t] = opener[t]
        /\ \A t \in 1..Len(sub') : t > Len(sub) => t = k
    <3>1. k \in 1..Len(sub') /\ k \notin Subs /\ Subs = 1..Len(sub)
      BY <1>1, <2>2, TypedFacts
    <3>2. opener'[k] = n.g
      BY <2>4, <3>1 DEF Recorded
    <3> QED
      BY <1>1, <2>1, <2>2, <3>1, <3>2 DEF Recorded
  <2>6. SubsMove(g) /\ GroupMoves(g) /\ Len(group') = Len(group)
    BY <1>1, <1>6, <1>10, <2>1, <2>2, <2>5 DEF SubsMove, GroupMoves
  <2>7. Holds(g) /\ (group[g].dispose # 0 => group[g].dispose \in 1..Len(sub))
    BY <1>1, TypedFacts, DisposeNat DEF Watching
  <2>8. Holds(g)'
    <3>1. group'[g].dispose # 0 => sub'[group'[g].dispose] = "live" /\ opener'[group'[g].dispose] = g
      BY <1>10, <2>2, <2>5, <2>7 DEF Holds
    <3>2. \A p \in ops' : (p.kind = "subscribe" /\ p.g = g) => sub'[p.s] = "opening" /\ opener'[p.s] = g
      BY <1>6, <2>1, <2>2, <2>3, <2>5, <2>7 DEF Holds
    <3>3. \A p, q \in ops' : (p.kind = "subscribe" /\ q.kind = "subscribe" /\ p.g = g /\ q.g = g
                               /\ p.s = q.s) => p = q
      BY <1>6, <2>1, <2>3, <2>7 DEF Holds
    <3> QED
      BY <3>1, <3>2, <3>3 DEF Holds
  <2>9. ASSUME g \notin spoilt' PROVE Sound(g)'
    <3>1. Handling(g, n)'
      BY <1>4, <1>6, <1>10, <2>1, <2>9 DEF Handling, OnlyOp, F, O
    <3>2. LiveHeld(g)'
      <4>1. Subs' = 1..Len(sub') /\ Subs = 1..Len(sub)
        BY TypedFacts DEF Subs
      <4>2. \A t \in 1..Len(sub') : sub'[t] = "live" => t \in 1..Len(sub) /\ t # k
        BY <1>1, <2>2, <2>5
      <4> QED
        BY <1>4, <1>10, <2>2, <2>5, <2>9, <4>1, <4>2 DEF LiveHeld
    <3> QED
      BY <2>1, <3>1, <3>2 DEF Sound, Stage
  <2> QED
    BY <1>1, <2>6, <2>8, <2>9, OneGroupStep
<1> QED
  BY <1>5, <1>8, <1>9, <1>10

LEMMA SubscribeWatching ==
  ASSUME Typed, Typed', Watching, Recorded, NEW o, SubscribeResumes(o)
  PROVE  Watching'
<1> PICK g : g = o.g
  OBVIOUS
<1> DEFINE F == Freed(group, g)  O == ops \ {o}  T == {o.s}  d == group[g].dispose
           S == [sub EXCEPT ![o.s] = "closed"]
<1>1. /\ o \in ops /\ o.kind = "subscribe" /\ g \in 1..Len(group) /\ Len(sub) \in Nat
      /\ o.s \in 1..Len(sub)
  BY SubscribeStep, TypedFacts DEF SubscribeResumes, OpTyped, Recomputes
<1>2. /\ ButFor(GroupRec, group, F, g) /\ Keeps(group[g], F[g]) /\ ~F[g].attaching
      /\ F[g].dispose = d /\ F[g].restart = group[g].restart
      /\ F[g].probe = group[g].probe /\ F[g].health = group[g].health
  BY <1>1, FreedGroup, TypedFacts
<1>3. F \in Seq(GroupRec) /\ g \in 1..Len(F) /\ Len(F) = Len(group)
  BY <1>1, <1>2 DEF ButFor
<1>4. ASSUME g \notin spoilt'
      PROVE  /\ d = 0 /\ ~group[g].restart /\ group[g].attaching /\ ~group[g].probe
             /\ NotShownHealthy(group[g]) /\ NotShownHealthy(F[g])
             /\ (\A p \in ops : p.g = g => p = o) /\ LiveHeld(g)
  <2>1. Handling(g, o) /\ LiveHeld(g)
    BY <1>1, <1>4, HandlerStage DEF Recorded
  <2> QED
    BY <1>1, <1>2, <2>1 DEF Handling, OnlyOp, NotShownHealthy, Keeps
<1>5. \/ /\ Current(g) /\ group' = Healthy(F, g, o.s) /\ ops' = O
         /\ sub' = [sub EXCEPT ![o.s] = "live"]
      \/ group' = F /\ ops' = O /\ sub' = [sub EXCEPT ![o.s] = "closing"]
      \/ Fault(F, S, O, g, "subscribe-error")
  BY DEF SubscribeResumes, Freed, Healthy
<1>6. O \subseteq ops /\ (\A p \in ops \ O : p.g = g) /\ o \notin O
  OBVIOUS
<1>7. /\ sub[o.s] = "opening" /\ opener[o.s] = g /\ o.s # d
      /\ d # 0 => sub[d] = "live" /\ opener[d] = g
      /\ \A p \in O : (p.kind = "subscribe" /\ p.g = g) => p.s # o.s
  <2>1. Holds(g)
    BY <1>1, TypedFacts DEF Watching
  <2> QED
    BY <1>1, <1>6, <2>1 DEF Holds
<1>8. \A z \in SubStates : LET Z == [sub EXCEPT ![o.s] = z] IN
        /\ Z \in Seq(SubStates) /\ Len(Z) = Len(sub) /\ Z[o.s] = z
        /\ \A t \in 1..Len(sub) : t # o.s => Z[t] = sub[t]
  BY <1>1, ClosedSub, TypedFacts
<1>9. ASSUME g \notin spoilt', ops' = O, group'[g].dispose = 0, ~group'[g].attaching,
             ~(group'[g].restart /\ group'[g].probe), NotShownHealthy(group'[g])
      PROVE  Stage(g)'
  BY <1>4, <1>6, <1>9 DEF Stage, Resting, NoOp
<1>10. g \notin spoilt' => \A t \in 1..Len(sub) : ~(sub[t] = "live" /\ opener[t] = g)
  <2> SUFFICES ASSUME g \notin spoilt', NEW t \in 1..Len(sub), sub[t] = "live", opener[t] = g
               PROVE  FALSE
    OBVIOUS
  <2>1. group[g].dispose = t
    BY <1>4, TypedFacts DEF LiveHeld
  <2> QED
    BY <1>4, <2>1
<1>11. (\A t \in T : opener[t] = g) /\ d \notin T
       /\ \A p \in O : (p.kind = "subscribe" /\ p.g = g) => p.s \notin T
  BY <1>7
<1>12. CASE Fault(F, S, O, g, "subscribe-error")
  <2>1. S \in Seq(SubStates) /\ Len(S) = Len(sub) /\ S[o.s] = "closed"
        /\ \A t \in 1..Len(sub) : t # o.s => S[t] = sub[t]
    BY <1>8 DEF SubStates
  <2>2. (\A t \in 1..Len(sub) : t \notin T => S[t] = sub[t])
        /\ \A t \in T \cap (1..Len(sub)) : S[t] # "live"
    BY <2>1
  <2> HIDE DEF F, O, T, S
  <2>3. Settles(F, S, O, g) /\ LetsGo(F, S, g)
    BY <1>1, <1>2, <1>3, <1>12, <2>1, FaultSettles, FaultLetsGo, TypedFacts
  <2>4. ASSUME g \notin spoilt' PROVE Stage(g)'
    <3>1. ops' = O /\ Faulted(F[g], group'[g])
      BY <1>2, <1>3, <1>4, <1>12, <2>4, FaultNothing
    <3> QED
      BY <1>2, <1>9, <2>4, <3>1 DEF Faulted
  <2> QED
    BY <1>1, <1>2, <1>6, <1>11, <2>1, <2>2, <2>3, <2>4, SettlesWatching
<1>13. CASE group' = F /\ ops' = O /\ sub' = [sub EXCEPT ![o.s] = "closing"]
  <2>1. /\ Len(sub') = Len(sub) /\ sub'[o.s] = "closing"
        /\ \A t \in 1..Len(sub) : t # o.s => sub'[t] = sub[t]
    BY <1>8, <1>13 DEF SubStates
  <2>2. GroupMoves(g) /\ Len(group') = Len(group)
    BY <1>2, <1>6, <1>13 DEF GroupMoves, ButFor
  <2>3. ASSUME g \notin spoilt'
        PROVE  /\ Stage(g)'
               /\ \A t \in 1..Len(sub) : (sub'[t] = "live" /\ opener[t] = g) => group'[g].dispose = t
    BY <1>2, <1>4, <1>9, <1>10, <1>13, <2>1, <2>3
  <2>4. group'[g].dispose # 0 => sub'[group'[g].dispose] = "live" /\ opener[group'[g].dispose] = g
    <3>1. d # 0 => d \in 1..Len(sub)
      BY <1>1, TypedFacts, DisposeNat
    <3> QED
      BY <1>2, <1>7, <1>13, <2>1, <3>1
  <2>5. \A t \in 1..Len(sub) : t \notin T => sub'[t] = sub[t]
    BY <2>1
  <2>6. \A p \in ops' : (p.kind = "subscribe" /\ p.g = g) => p \in ops /\ p.s \notin T
    BY <1>6, <1>11, <1>13
  <2> HIDE DEF F, O, T, S
  <2> QED
    BY <1>1, <1>11, <2>1, <2>2, <2>3, <2>4, <2>5, <2>6, SettledStep
<1>14. CASE /\ Current(g) /\ group' = Healthy(F, g, o.s) /\ ops' = O
            /\ sub' = [sub EXCEPT ![o.s] = "live"]
  <2>1. /\ ButFor(GroupRec, F, group', g) /\ Keeps(F[g], group'[g])
        /\ group'[g].dispose = o.s /\ ~group'[g].probe /\ group'[g].health = "healthy"
        /\ group'[g].attaching = F[g].attaching /\ group'[g].restart = F[g].restart
    BY <1>1, <1>3, <1>14, HealthyGroup
  <2>2. ButFor(GroupRec, group, group', g) /\ group'[g].members # {}
    BY <1>2, <1>14, <2>1, ButForTwice, TypedFacts DEF Keeps, Current
  <2>3. /\ Len(sub') = Len(sub) /\ sub'[o.s] = "live"
        /\ \A t \in 1..Len(sub) : t # o.s => sub'[t] = sub[t]
    BY <1>8, <1>14 DEF SubStates
  <2>4. GroupMoves(g) /\ Len(group') = Len(group)
    BY <1>6, <1>14, <2>2 DEF GroupMoves, ButFor
  <2>5. ASSUME g \notin spoilt'
        PROVE  /\ Stage(g)'
               /\ \A t \in 1..Len(sub) : (sub'[t] = "live" /\ opener[t] = g) => group'[g].dispose = t
    <3>1. NoOp(g)'
      BY <1>4, <1>6, <1>14, <2>5 DEF NoOp
    <3>2. Attached(g)'
      BY <1>1, <1>2, <1>4, <2>1, <2>2, <2>5, <3>1 DEF Attached
    <3> QED
      BY <1>10, <2>1, <2>3, <2>5, <3>2 DEF Stage
  <2>6. \A t \in 1..Len(sub) : t \notin T => sub'[t] = sub[t]
    BY <2>3
  <2>7. \A p \in ops' : (p.kind = "subscribe" /\ p.g = g) => p \in ops /\ p.s \notin T
    BY <1>6, <1>11, <1>14
  <2>8. sub'[group'[g].dispose] = "live" /\ opener[group'[g].dispose] = g
    BY <1>7, <2>1, <2>3
  <2> HIDE DEF F, O, T, S
  <2> QED
    BY <1>1, <1>11, <2>3, <2>4, <2>5, <2>6, <2>7, <2>8, SettledStep
<1> QED
  BY <1>5, <1>12, <1>13, <1>14

LEMMA FaultWatching ==
  ASSUME Typed, Typed', Watching, Recorded, NEW o, FaultResumes(o)
  PROVE  Watching'
<1> PICK g : g = o.g
  OBVIOUS
<1> DEFINE O == ops \ {o}
<1>1. o \in ops /\ o.kind \in {"fault", "suspend"} /\ g \in 1..Len(group)
  BY FaultStep DEF FaultResumes
<1>2. ASSUME g \notin spoilt'
      PROVE  /\ o.kind = "fault" /\ group[g].dispose = 0 /\ ~group[g].attaching /\ ~group[g].probe
             /\ \A p \in ops : p.g = g => p = o
  BY <1>1, <1>2, HandlerStage DEF Recorded, Handling, OnlyOp
<1>3. O \subseteq ops /\ (\A p \in ops \ O : p.g = g) /\ o \notin O
  OBVIOUS
<1>4. \/ o.kind = "fault" /\ AfterDispose(group, sub, O, g, o.x)
      \/ o.kind = "suspend" /\ group' = Suspended(group, g) /\ ops' = O /\ UNCHANGED sub
  BY DEF FaultResumes
<1>5. ButFor(GroupRec, group, group, g)
  BY ButForSame, TypedFacts
<1>6. CASE AfterDispose(group, sub, O, g, o.x)
  <2>1. Settles(group, sub, O, g) /\ LetsGo(group, sub, g)
    BY <1>1, <1>6, AfterDisposeSettles, AfterDisposeLetsGo, TypedFacts
  <2>2. ASSUME g \notin spoilt' PROVE Stage(g)'
    <3>1. ops' = O /\ Faulted(group[g], group'[g])
      BY <1>1, <1>2, <1>6, <2>2, AfterNothing, TypedFacts
    <3>2. Resting(g)'
      BY <1>2, <1>3, <2>2, <3>1 DEF Resting, NoOp, Faulted
    <3> QED
      BY <3>2 DEF Stage
  <2> HIDE DEF O
  <2> QED
    BY <1>1, <1>3, <1>5, <2>1, <2>2, SettlesSame
<1>7. CASE o.kind = "suspend" /\ group' = Suspended(group, g) /\ ops' = O /\ UNCHANGED sub
  <2>1. ButFor(GroupRec, group, group', g) /\ group'[g].dispose = group[g].dispose
    BY <1>1, <1>7, SuspendedGroup, TypedFacts
  <2>2. GroupMoves(g) /\ Len(group') = Len(group)
    BY <1>3, <1>7, <2>1 DEF GroupMoves, ButFor
  <2> QED
    BY <1>1, <1>2, <1>7, <2>1, <2>2, SameSubsStep
<1> QED
  BY <1>4, <1>6, <1>7

LEMMA CallbackWatching ==
  ASSUME Typed, Typed', Watching, Recorded, NEW g \in 1..Len(group), NEW s \in 1..Len(sub), NEW cause,
         CallbackError(g, s, cause)
  PROVE  Watching'
<1>1. /\ sub[s] = "live" /\ group[g].dispose = s /\ Fault(group, sub, ops, g, cause) /\ s # 0
      /\ ButFor(GroupRec, group, group, g)
  BY ButForSame, TypedFacts DEF CallbackError
<1>2. Settles(group, sub, ops, g) /\ LetsGo(group, sub, g)
  BY <1>1, FaultSettles, FaultLetsGo, TypedFacts
<1>3. ASSUME g \notin spoilt' PROVE Stage(g)'
  <2>1. Attached(g)
    BY <1>1, <1>3, HolderStage DEF Recorded
  <2>2. /\ group' = Released(group, g)
        /\ ops' = ops \cup {Op("fault", 0, g, s, cause)}
    BY <1>1, <2>1 DEF Fault, Attached, Released
  <2>3. PICK n : n = Op("fault", 0, g, s, cause)
    OBVIOUS
  <2>4. ops' = ops \cup {n} /\ n.kind = "fault" /\ n.g = g
    BY <2>2, <2>3 DEF Op
  <2>5. /\ group'[g].dispose = 0
        /\ ~group'[g].attaching /\ ~group'[g].restart /\ ~group'[g].probe
    BY <2>1, <2>2, ReleasedGroup, TypedFacts DEF Attached
  <2>6. Handling(g, n)'
    BY <2>1, <2>4, <2>5 DEF Handling, OnlyOp, Attached, NoOp
  <2> QED
    BY <2>4, <2>6 DEF Stage
<1>4. ops \subseteq ops /\ \A o \in ops \ ops : o.g = g
  OBVIOUS
<1> QED
  BY <1>1, <1>2, <1>3, <1>4, SettlesSame

-----------------------------------------------------------------------------
(* The steps of the entries and of the membership                          *)

\* A step that leaves every group and its handlers alone.
LEMMA NoGroupStep ==
  ASSUME Typed, Typed', Watching, Recorded, UNCHANGED group, GroupMoves(0), SubsMove(0),
         Len(sub') = Len(sub)
  PROVE  Watching'
<1>1. /\ Groups' = Groups /\ Groups = 1..Len(group) /\ Subs' = Subs /\ Subs = 1..Len(sub)
      /\ \A g \in Groups : g # 0
  BY TypedFacts DEF Groups, Subs
<1>2. \A g \in Groups : Holds(g)' /\ (g \notin spoilt' => Sound(g)')
  BY <1>1, OthersKeep
<1>3. \A s \in Subs' : opener'[s] \in Groups'
  BY <1>1 DEF Recorded, Watching
<1> QED
  BY <1>1, <1>2, <1>3 DEF Watching

LEMMA WatchingKept ==
  ASSUME Typed, Typed', Watching, Recorded, UNCHANGED <<group, sub>>,
         \A o \in ops' \ ops : o.g = 0,
         \A o \in ops \ ops' : o.g = 0
  PROVE  Watching'
<1>1. GroupMoves(0)
  BY DEF GroupMoves
<1>2. SubsMove(0)
  BY TypedFacts DEF SubsMove
<1> QED
  BY <1>1, <1>2, NoGroupStep

LEMMA UnsubscribedWatching ==
  ASSUME Typed, Typed', Watching, Recorded, NEW s \in 1..Len(sub), Unsubscribed(s)
  PROVE  Watching'
<1>1. /\ UNCHANGED <<group, ops>> /\ sub[s] = "closing" /\ sub' = [sub EXCEPT ![s] = "closed"]
  BY DEF Unsubscribed
<1>2. /\ Len(sub') = Len(sub) /\ sub'[s] = "closed"
      /\ \A t \in 1..Len(sub) : t # s => sub'[t] = sub[t]
  BY <1>1, ClosedSub, TypedFacts DEF SubStates
<1>3. GroupMoves(0) /\ SubsMove(0)
  BY <1>1, <1>2, TypedFacts DEF GroupMoves, SubsMove
<1> QED
  BY <1>1, <1>2, <1>3, NoGroupStep

\* Cwds join or leave a group that keeps some.
LEMMA MembersWatching ==
  ASSUME Typed, Typed', Watching, Recorded, NEW g \in 1..Len(group),
         ButFor(GroupRec, group, group', g), SameWatch(group[g], group'[g]), UNCHANGED sub,
         g \notin spoilt' => group[g].members # {} /\ group'[g].members # {},
         ops' \subseteq ops, \A o \in ops \ ops' : o.g = 0
  PROVE  Watching'
<1>1. g # 0 /\ Len(group') = Len(group) /\ group'[g].dispose = group[g].dispose
  BY TypedFacts DEF ButFor, SameWatch
<1>2. GroupMoves(g)
  BY DEF GroupMoves, ButFor
<1>3. ASSUME g \notin spoilt' PROVE Stage(g)'
  <2>1. Stage(g)
    BY <1>3, TypedFacts DEF Watching, Sound, Recorded
  <2>2. NotShownHealthy(group[g]) => NotShownHealthy(group'[g])
    BY <1>3 DEF NotShownHealthy, SameWatch
  <2>3. NoOp(g) => NoOp(g)'
    BY DEF NoOp
  <2>4. ASSUME NEW o \in ops, Handling(g, o) PROVE o \in ops' /\ Handling(g, o)'
    BY <1>1, <2>2, <2>4 DEF Handling, OnlyOp, SameWatch
  <2> QED
    BY <1>3, <2>1, <2>2, <2>3, <2>4 DEF Stage, Resting, Attached, SameWatch
<1> QED
  BY <1>1, <1>2, <1>3, SameSubsStep

LEMMA CreatedWatching ==
  ASSUME Typed, Typed', Watching, Recorded, UNCHANGED sub, Len(group') = Len(group) + 1,
         \A h \in 1..Len(group) : group'[h] = group[h],
         NEW g, g = Len(group) + 1, group'[g].dispose = 0, group'[g].attaching,
         ~group'[g].restart, ~group'[g].probe, group'[g].health = "attaching",
         NEW n, n.kind = "access", n.g = g, n \in ops',
         \A o \in ops' \ ops : o = n, \A o \in ops \ ops' : o.g = 0
  PROVE  Watching'
<1>1. /\ Groups = 1..Len(group) /\ Groups' = 1..g /\ Subs' = Subs /\ Len(group) \in Nat
      /\ g \notin Groups /\ Groups' = Groups \cup {g} /\ Subs = 1..Len(sub)
  BY TypedFacts DEF Groups, Subs
<1>2. \A o \in ops : o.g # g
  <2> TAKE o \in ops
  <2>1. OpTyped(o, Len(entry), Len(group), Len(sub))
    BY TypedFacts
  <2>2. o.g \in 0..Len(group)
    BY <1>1, <2>1 DEF OpTyped, OpKinds, Recomputes
  <2> QED
    BY <1>1, <2>2
<1>3. \A s \in Subs : opener'[s] = opener[s] /\ opener[s] \in Groups
  BY <1>1 DEF Recorded, Watching
<1>4. GroupMoves(g) /\ SubsMove(g)
  BY <1>1, TypedFacts DEF GroupMoves, SubsMove
<1>5. \A h \in Groups : Holds(h)' /\ (h \notin spoilt' => Sound(h)')
  BY <1>1, <1>4, OthersKeep
<1>6. Holds(g)'
  BY <1>2 DEF Holds
<1>7. Sound(g)'
  <2>1. OnlyOp(g, n)'
    BY <1>2 DEF OnlyOp
  <2>2. Stage(g)'
    BY <2>1 DEF Stage, Handling, NotShownHealthy
  <2>3. LiveHeld(g)'
    BY <1>1, <1>3 DEF LiveHeld
  <2> QED
    BY <2>2, <2>3 DEF Sound
<1> QED
  BY <1>1, <1>3, <1>5, <1>6, <1>7 DEF Watching

\* Who joins a group that is not marked meanwhile finds members in it, and no
\* detach of its repository.
LEMMA JoinsUnspoilt ==
  ASSUME Typed, Roster, Recorded, NEW r \in Repo, NEW c, NEW g \in 1..Len(group'),
         g \notin spoilt', group'[g].repo = r, c \in group'[g].members,
         c \notin (IF g \in Groups THEN group[g].members ELSE {}),
         NEW o \in ops, o.kind = "detach"
  PROVE  o.x # r
<1>1. ~GroupLate(g)
  BY DEF Recorded
<1>2. DetachesOf(r) = {}
  BY <1>1 DEF GroupLate
<1>3. o.x = RepoOf[entry[o.e].cwd]
  BY DEF Roster, DetachX
<1> QED
  BY <1>2, <1>3 DEF DetachesOf

LEMMA AttachWatcherWatching ==
  ASSUME Typed, Typed', Roster, Watching, Recorded, UNCHANGED sub,
         NEW E \in Seq(EntryRec), NEW e \in 1..Len(E),
         NEW O, O \subseteq ops, \A o \in ops \ O : o.g = 0, AttachWatcher(E, O, e)
  PROVE  Watching'
<1>1. CASE ops' = O /\ UNCHANGED group
  BY <1>1, WatchingKept
<1>2. CASE Joins(E, O, e)
  <2> PICK c, r : c = E[e].cwd /\ r = RepoOf[c]
    OBVIOUS
  <2>1. c \in Cwd /\ r \in Repo
    <3>1. E[e] \in EntryRec
      OBVIOUS
    <3> QED
      BY <3>1, WatchAssumption DEF EntryRec
  <2>2. \/ /\ groups[r] # 0
           /\ group' = WithMembers(group, groups[r], group[groups[r]].members \cup {c})
           /\ ops' = O
        \/ /\ group' = Created(group, r, c)
           /\ ops' = O \cup {Op("access", 0, Len(group) + 1, 0, NoRepo)}
    BY <1>2 DEF Joins
  <2>3. CASE /\ groups[r] # 0
             /\ group' = WithMembers(group, groups[r], group[groups[r]].members \cup {c})
             /\ ops' = O
    <3> PICK h : h = groups[r]
      OBVIOUS
    <3>1. h \in 1..Len(group) /\ h \in Groups
      BY <2>1, <2>3, TypedFacts
    <3> DEFINE m == group[h].members \cup {c}
    <3>2. m \in SUBSET Cwd /\ m # {} /\ c \in m /\ group' = WithMembers(group, h, m)
      BY <2>1, <2>3, <3>1, DisposeNat, TypedFacts
    <3> HIDE DEF m
    <3>3. ButFor(GroupRec, group, group', h) /\ SameWatch(group[h], group'[h]) /\ group'[h].members = m
      BY <3>1, <3>2, MembersGroup, TypedFacts
    <3>4. group[h].repo = r /\ group'[h].repo = r /\ h \in 1..Len(group')
      BY <2>1, <2>3, <3>1, <3>3 DEF Roster, RepoOK, SameWatch, ButFor
    <3>5. ASSUME h \notin spoilt', group[h].members = {} PROVE FALSE
      <4>1. PICK o \in ops : o.kind = "detach" /\ o.x = r
        BY <2>1, <2>3, <3>5 DEF Roster, RepoOK
      <4> QED
        BY <2>1, <3>1, <3>2, <3>3, <3>4, <3>5, <4>1, JoinsUnspoilt
    <3> QED
      BY <2>3, <3>1, <3>2, <3>3, <3>5, MembersWatching
  <2>4. CASE /\ group' = Created(group, r, c)
             /\ ops' = O \cup {Op("access", 0, Len(group) + 1, 0, NoRepo)}
    <3> PICK g, n : g = Len(group) + 1 /\ n = Op("access", 0, g, 0, NoRepo)
      OBVIOUS
    <3>1. n.kind = "access" /\ n.g = g /\ ops' = O \cup {n}
      BY <2>4 DEF Op
    <3>2. /\ Len(group') = Len(group) + 1
          /\ \A h \in 1..Len(group) : group'[h] = group[h]
          /\ group'[g].dispose = 0 /\ group'[g].attaching
          /\ ~group'[g].restart /\ ~group'[g].probe /\ group'[g].health = "attaching"
      BY <2>1, <2>4, CreatedGroup, TypedFacts
    <3> QED
      BY <3>1, <3>2, CreatedWatching
  <2> QED
    BY <2>2, <2>3, <2>4
<1> QED
  BY <1>1, <1>2, AttachOutcomes

LEMMA AttachWatching ==
  ASSUME Typed, Typed', Roster, Watching, Recorded, NEW c \in Cwd, Attach(c)
  PROVE  Watching'
<1> DEFINE e == AttachEntry(c)  E == AttachBase(c)
<1>1. /\ e <= MaxEntry /\ UNCHANGED sub
      /\ \/ UNCHANGED <<ops, group>>
         \/ ops' = ops \cup {Op("attach", e, 0, 0, NoRepo)} /\ UNCHANGED group
         \/ AttachWatcher(Queue(Wait(E, e), e), ops, e)
  BY AttachForms
<1>2. E \in Seq(EntryRec) /\ e \in 1..Len(E)
  BY <1>1, AttachBaseTyped
<1> HIDE DEF e, E
<1> DEFINE F == Queue(Wait(E, e), e)
<1>3. Wait(E, e) \in Seq(EntryRec) /\ Len(Wait(E, e)) = Len(E)
  BY <1>2, WaitingEntry DEF ButFor
<1>4. F \in Seq(EntryRec) /\ Len(F) = Len(E)
  BY <1>2, <1>3, QueuedEntry DEF ButFor
<1>5. \/ UNCHANGED <<ops, group>>
      \/ ops' = ops \cup {Op("attach", e, 0, 0, NoRepo)} /\ UNCHANGED group
      \/ AttachWatcher(F, ops, e)
  BY <1>1
<1> HIDE DEF F
<1>6. CASE AttachWatcher(F, ops, e)
  BY <1>1, <1>2, <1>4, <1>6, AttachWatcherWatching
<1>7. CASE ops' = ops \cup {Op("attach", e, 0, 0, NoRepo)} /\ UNCHANGED group
  <2>1. \A o \in ops' \ ops : o.g = 0
    BY <1>7 DEF Op
  <2> QED
    BY <1>1, <1>7, <2>1, WatchingKept
<1>8. CASE UNCHANGED <<ops, group>>
  BY <1>1, <1>8, WatchingKept
<1> QED
  BY <1>5, <1>6, <1>7, <1>8

\* A recompute that ends holds no group.
LEMMA RecomputedWatching ==
  ASSUME Typed, Typed', Roster, Watching, Recorded,
         NEW o \in ops, AttachResumes(o) \/ RecomputeResumes(o)
  PROVE  Watching'
<1>1. o.e \in 1..Len(entry) /\ o.g = 0 /\ UNCHANGED sub
  BY TypedFacts DEF AttachResumes, RecomputeResumes, OpTyped, Recomputes, env
<1>2. PICK found \in Found : \/ ops' = ops \ {o} /\ UNCHANGED group
                             \/ AttachWatcher(Recomputed(o.e, found), ops \ {o}, o.e)
  BY DEF AttachResumes, RecomputeResumes
<1> DEFINE E == Recomputed(o.e, found)  O == ops \ {o}
<1>3. E \in Seq(EntryRec) /\ o.e \in 1..Len(E)
  BY <1>1, FoundTyped, RecomputedEntry, TypedFacts DEF ButFor
<1>4. O \subseteq ops /\ \A p \in ops \ O : p.g = 0
  BY <1>1
<1>5. (ops' = O /\ UNCHANGED group) \/ AttachWatcher(E, O, o.e)
  BY <1>2
<1> HIDE DEF E, O
<1>6. CASE AttachWatcher(E, O, o.e)
  BY <1>1, <1>3, <1>4, <1>6, AttachWatcherWatching
<1>7. CASE ops' = O /\ UNCHANGED group
  BY <1>1, <1>4, <1>7, WatchingKept
<1> QED
  BY <1>5, <1>6, <1>7

LEMMA StartWatching ==
  ASSUME Typed, Typed', Watching, Recorded, NEW E, NEW e, NEW kind \in {"revalidate", "recompute"},
         StartRecompute(E, e, kind), UNCHANGED <<group, sub>>
  PROVE  Watching'
<1>1. ops' = ops \/ ops' = ops \cup {Op(kind, e, 0, 0, NoRepo)}
  BY DEF StartRecompute
<1>2. (\A o \in ops' \ ops : o.g = 0) /\ ops \subseteq ops'
  BY <1>1 DEF Op
<1> QED
  BY <1>2, WatchingKept

LEMMA DetachWatching ==
  ASSUME Typed, Typed', Watching, Recorded, NEW c \in Cwd, Detach(c)
  PROVE  Watching'
<1> PICK g, r, e : g = DetachGroup(c) /\ r = keyOf[c] /\ e = entries[c]
  OBVIOUS
<1> DEFINE G == Resigned(g, c)  C == Cleared(G, g)
<1>1. \/ UNCHANGED <<group, sub, ops>>
      \/ /\ g # 0 /\ group[g].members \ {c} # {} /\ group' = G /\ UNCHANGED <<sub, ops>>
      \/ /\ g # 0 /\ group[g].members \ {c} = {} /\ group[g].dispose = 0 /\ group' = C
         /\ UNCHANGED <<sub, ops>>
      \/ /\ g # 0 /\ group[g].members \ {c} = {} /\ group[g].dispose # 0 /\ group' = C
         /\ sub' = [sub EXCEPT ![group[g].dispose] = "closing"]
         /\ ops' = ops \cup {Op("detach", e, 0, group[g].dispose, r)}
  BY DetachForms DEF Resigned, LeftMembers
<1>2. g \in 0..Len(group)
  BY TypedFacts DEF DetachGroup
<1>3. CASE UNCHANGED <<group, sub, ops>>
  BY <1>3, WatchingKept
<1>4. ASSUME g # 0
      PROVE  /\ g \in 1..Len(group)
             /\ ButFor(GroupRec, group, G, g) /\ SameWatch(group[g], G[g])
             /\ G[g].members = group[g].members \ {c}
             /\ ButFor(GroupRec, group, C, g) /\ C[g].members = group[g].members \ {c}
             /\ C[g].dispose = 0 /\ ~C[g].restart /\ ~C[g].probe
             /\ C[g].attaching = group[g].attaching
  BY <1>2, <1>4, ResignedGroup
<1> HIDE DEF C, G
<1>5. CASE /\ g # 0 /\ group[g].members \ {c} # {} /\ group' = G /\ UNCHANGED <<sub, ops>>
  BY <1>4, <1>5, MembersWatching
<1>6. CASE /\ g # 0 /\ group[g].members \ {c} = {} /\ group[g].dispose = 0 /\ group' = C
           /\ UNCHANGED <<sub, ops>>
  <2>1. ASSUME g \notin spoilt' PROVE Stage(g)'
    <3>1. Stage(g) /\ ~Attached(g)
      BY <1>4, <1>6, <2>1, TypedFacts DEF Watching, Sound, Recorded, Attached
    <3>2. NotShownHealthy(group'[g])
      BY <1>4, <1>6 DEF NotShownHealthy
    <3>3. Resting(g) => Resting(g)'
      BY <1>4, <1>6, <3>2 DEF Resting, NoOp
    <3>4. \A o \in ops : Handling(g, o) => Handling(g, o)'
      BY <1>4, <1>6, <3>2 DEF Handling, OnlyOp
    <3> QED
      BY <1>6, <3>1, <3>3, <3>4 DEF Stage
  <2>2. GroupMoves(g) /\ Len(group') = Len(group)
    BY <1>4, <1>6 DEF GroupMoves, ButFor
  <2> QED
    BY <1>4, <1>6, <2>1, <2>2, SameSubsStep
<1>7. CASE /\ g # 0 /\ group[g].members \ {c} = {} /\ group[g].dispose # 0 /\ group' = C
           /\ sub' = [sub EXCEPT ![group[g].dispose] = "closing"]
           /\ ops' = ops \cup {Op("detach", e, 0, group[g].dispose, r)}
  <2> PICK s, n, T : s = group[g].dispose /\ n = Op("detach", e, 0, s, r) /\ T = {s}
    OBVIOUS
  <2>1. ops' = ops \cup {n} /\ n.kind = "detach" /\ n.g = 0
    BY <1>7 DEF Op
  <2>2. Holds(g) /\ g \in 1..Len(group) /\ s \in 1..Len(sub) /\ s # 0
    BY <1>4, <1>7, DisposeNat, TypedFacts DEF Watching
  <2>3. /\ Len(sub') = Len(sub) /\ sub'[s] = "closing"
        /\ \A t \in 1..Len(sub) : t # s => sub'[t] = sub[t]
    BY <1>7, <2>2, ClosedSub, TypedFacts DEF SubStates
  <2>4. /\ \A t \in T : opener[t] = g
        /\ \A t \in 1..Len(sub) : t \notin T => sub'[t] = sub[t]
    BY <2>2, <2>3 DEF Holds
  <2>5. \A o \in ops' : (o.kind = "subscribe" /\ o.g = g) => o \in ops /\ o.s \notin T
    BY <2>1, <2>2 DEF Holds
  <2>6. GroupMoves(g) /\ Len(group') = Len(group)
    BY <1>4, <1>7, <2>1 DEF GroupMoves, ButFor
  <2>7. ASSUME g \notin spoilt'
        PROVE  /\ Stage(g)'
               /\ \A t \in 1..Len(sub) : (sub'[t] = "live" /\ opener[t] = g) => group'[g].dispose = t
    <3>1. Attached(g) /\ LiveHeld(g) /\ Subs = 1..Len(sub)
      BY <1>7, <2>2, <2>7, HolderStage, TypedFacts DEF Recorded, Watching, Sound
    <3>2. Resting(g)'
      BY <1>4, <1>7, <2>1, <2>2, <3>1 DEF Resting, Attached, NoOp, NotShownHealthy
    <3>3. \A t \in 1..Len(sub) : ~(sub'[t] = "live" /\ opener[t] = g)
      BY <2>3, <3>1 DEF LiveHeld
    <3> QED
      BY <3>2, <3>3 DEF Stage
  <2>8. group'[g].dispose = 0
    BY <1>4, <1>7
  <2> QED
    BY <2>2, <2>3, <2>4, <2>5, <2>6, <2>7, <2>8, SettledStep
<1> QED
  BY <1>1, <1>3, <1>5, <1>6, <1>7

LEMMA WatchingNext ==
  ASSUME Typed, Typed', Roster, Watching, Recorded, WatchNext
  PROVE  Watching'
<1>0. Groups = 1..Len(group) /\ Subs = 1..Len(sub)
  BY TypedFacts
<1>1. CASE \E c \in Cwd : Attach(c) \/ Detach(c)
  BY <1>1, AttachWatching, DetachWatching
<1>2. ASSUME NEW c \in Cwd, Revalidate(c) PROVE Watching'
  BY <1>2, StartWatching DEF Revalidate
<1>3. ASSUME NEW e \in Entries, DebounceFires(e) PROVE Watching'
  <2>1. StartRecompute(Undebounce(entry, e), e, "recompute") /\ UNCHANGED <<group, sub>>
    BY <1>3 DEF DebounceFires, Undebounce
  <2> QED
    BY <2>1, StartWatching
<1>4. CASE \E r \in Repo : PathLost(r) \/ PathBack(r)
  <2>1. UNCHANGED <<group, sub, ops>>
    BY <1>4 DEF PathLost, PathBack
  <2> QED
    BY <2>1, WatchingKept
<1>5. CASE \E s \in Subs : Unsubscribed(s)
  BY <1>0, <1>5, UnsubscribedWatching
<1>6. CASE \/ \E g \in Groups : RestartFires(g) \/ ProbeTick(g)
           \/ \E g \in Groups, s \in Subs, cause \in {"callback-error", "path-missing"} :
                CallbackError(g, s, cause)
  BY <1>0, <1>6, RestartWatching, ProbeTickWatching, CallbackWatching
<1>7. CASE \E o \in ops : AccessResumes(o) \/ SubscribeResumes(o) \/ FaultResumes(o)
                            \/ ProbeResumes(o)
  BY <1>7, AccessWatching, SubscribeWatching, FaultWatching, ProbeResumesWatching
<1>8. CASE \E o \in ops : AttachResumes(o) \/ RecomputeResumes(o)
  BY <1>8, RecomputedWatching
<1>9. ASSUME NEW o \in ops, DetachResumes(o) PROVE Watching'
  <2>1. UNCHANGED <<group, sub>> /\ ops' = ops \ {o} /\ o.g = 0
    BY <1>9, TypedFacts DEF DetachResumes, OpTyped, Recomputes
  <2> QED
    BY <2>1, WatchingKept
<1> QED
  BY <1>1, <1>2, <1>3, <1>4, <1>5, <1>6, <1>7, <1>8, <1>9 DEF WatchNext, Resume

\* A step that leaves the map of the groups alone, adds no member to any and
\* awaits no new detach.
LEMMA ServingKept ==
  ASSUME Typed, Serving, Recorded, UNCHANGED groups, Len(group') = Len(group),
         \A g \in 1..Len(group) : /\ group'[g].repo = group[g].repo
                                  /\ group'[g].members \subseteq group[g].members,
         \A o \in ops' \ ops : o.kind # "detach"
  PROVE  Serving'
<1>1. Groups' = Groups /\ Groups = 1..Len(group) /\ spoilt \subseteq spoilt'
  BY TypedFacts DEF Groups, Recorded
<1>2. ASSUME NEW g \in Groups, g \notin spoilt' PROVE Served(g)'
  <2>1. Served(g)
    BY <1>1, <1>2 DEF Serving
  <2> QED
    BY <1>1, <2>1 DEF Served
<1> QED
  BY <1>1, <1>2 DEF Serving

LEMMA SameMembersServing ==
  ASSUME Typed, Serving, Recorded, SameMembers
  PROVE  Serving'
BY ServingKept DEF SameMembers, Handlers

LEMMA AttachWatcherServing ==
  ASSUME Typed, Typed', Roster, Serving, Recorded,
         NEW E \in Seq(EntryRec), NEW e \in 1..Len(E),
         NEW O, O \subseteq ops, AttachWatcher(E, O, e)
  PROVE  Serving'
<1>0. Groups = 1..Len(group) /\ Groups' = 1..Len(group') /\ spoilt \subseteq spoilt'
      /\ Len(group) \in Nat
  BY TypedFacts DEF Groups, Recorded
<1>1. CASE ops' = O /\ UNCHANGED <<group, groups>>
  BY <1>1, ServingKept
<1>2. CASE Joins(E, O, e)
  <2> PICK c, r : c = E[e].cwd /\ r = RepoOf[c]
    OBVIOUS
  <2>1. c \in Cwd /\ r \in Repo
    <3>1. E[e] \in EntryRec
      OBVIOUS
    <3> QED
      BY <3>1, WatchAssumption DEF EntryRec
  <2>2. \/ /\ groups[r] # 0
           /\ group' = WithMembers(group, groups[r], group[groups[r]].members \cup {c})
           /\ ops' = O /\ UNCHANGED groups
        \/ /\ groups[r] = 0 /\ groups' = [groups EXCEPT ![r] = Len(group) + 1]
           /\ group' = Created(group, r, c)
           /\ ops' = O \cup {Op("access", 0, Len(group) + 1, 0, NoRepo)}
    BY <1>2 DEF Joins
  <2>3. CASE /\ groups[r] # 0
             /\ group' = WithMembers(group, groups[r], group[groups[r]].members \cup {c})
             /\ ops' = O /\ UNCHANGED groups
    <3> PICK h : h = groups[r]
      OBVIOUS
    <3>1. h \in 1..Len(group) /\ h \in Groups
      BY <2>1, <2>3, TypedFacts
    <3> DEFINE m == group[h].members \cup {c}
    <3>2. m \in SUBSET Cwd /\ c \in m /\ group' = WithMembers(group, h, m)
          /\ (c \in group[h].members => m = group[h].members)
      BY <2>1, <2>3, <3>1, DisposeNat, TypedFacts
    <3> HIDE DEF m
    <3>3. ButFor(GroupRec, group, group', h) /\ SameWatch(group[h], group'[h]) /\ group'[h].members = m
      BY <3>1, <3>2, MembersGroup, TypedFacts
    <3>4. /\ group[h].repo = r /\ group'[h].repo = r /\ Len(group') = Len(group)
          /\ \A g \in Groups : g # h => group'[g] = group[g]
      BY <1>0, <2>1, <2>3, <3>1, <3>3 DEF Roster, RepoOK, SameWatch, ButFor
    <3>5. ASSUME h \notin spoilt', c \notin group[h].members PROVE Served(h)'
      <4>1. \A o \in ops : o.kind = "detach" => o.x # r
        BY <2>1, <3>1, <3>2, <3>3, <3>4, <3>5, JoinsUnspoilt
      <4> QED
        BY <2>3, <3>4, <4>1 DEF Served
    <3>6. ASSUME NEW g \in Groups, g \notin spoilt', g # h \/ c \in group[h].members
          PROVE  Served(g)'
      <4>1. Served(g) /\ group'[g].members = group[g].members /\ group'[g].repo = group[g].repo
        BY <1>0, <3>2, <3>3, <3>4, <3>6 DEF Serving
      <4> QED
        BY <2>3, <4>1 DEF Served
    <3> QED
      BY <1>0, <3>1, <3>4, <3>5, <3>6 DEF Serving
  <2>4. CASE /\ groups[r] = 0 /\ groups' = [groups EXCEPT ![r] = Len(group) + 1]
             /\ group' = Created(group, r, c)
             /\ ops' = O \cup {Op("access", 0, Len(group) + 1, 0, NoRepo)}
    <3> PICK g : g = Len(group) + 1
      OBVIOUS
    <3>1. \A o \in ops' : o.kind = "detach" => o \in ops
      BY <2>4 DEF Op
    <3>2. /\ Len(group') = g /\ \A h \in Groups : group'[h] = group[h]
          /\ group'[g].repo = r /\ group'[g].members = {c}
          /\ Groups' = Groups \cup {g} /\ g \notin Groups /\ g \in 1..Len(group')
      <4>1. /\ Len(group') = g /\ \A h \in Groups : group'[h] = group[h]
            /\ group'[g].repo = r /\ group'[g].members = {c}
        <5>1. group \in Seq(GroupRec) /\ g = Len(group) + 1
          BY TypedFacts
        <5> QED
          BY <1>0, <2>1, <2>4, <5>1, CreatedGroup
      <4>2. Groups = 1..Len(group) /\ Groups' = 1..g /\ Len(group) \in Nat
        BY <1>0, <4>1
      <4>3. Groups' = Groups \cup {g} /\ g \notin Groups /\ g \in 1..g
        BY <4>2
      <4> QED
        BY <4>1, <4>3
    <3>3. /\ groups'[r] = g
          /\ \A x \in Repo : x # r => groups'[x] = groups[x]
      BY <2>1, <2>4, TypedFacts
    <3>4. ASSUME g \notin spoilt' PROVE Served(g)'
      <4>1. \A o \in ops : o.kind = "detach" => o.x # r
        BY <2>1, <3>2, <3>4, JoinsUnspoilt
      <4> QED
        BY <3>1, <3>2, <3>3, <4>1 DEF Served
    <3>5. ASSUME NEW h \in Groups, h \notin spoilt' PROVE Served(h)'
      <4>1. Served(h) /\ group'[h] = group[h] /\ group[h].repo \in Repo /\ h # 0
        BY <1>0, <3>2, <3>5, DisposeNat, TypedFacts DEF Serving
      <4>2. group[h].members # {} => group[h].repo # r
        BY <2>4, <4>1 DEF Served
      <4> QED
        BY <3>1, <3>3, <4>1, <4>2 DEF Served
    <3> QED
      BY <3>2, <3>4, <3>5 DEF Serving
  <2> QED
    BY <2>2, <2>3, <2>4
<1>3. CASE ops' = O /\ UNCHANGED <<keyOf, groups, group>>
  BY <1>1, <1>3
<1> QED
  BY <1>2, <1>3, AttachOutcomes

LEMMA AttachServing ==
  ASSUME Typed, Typed', Roster, Serving, Recorded, NEW c \in Cwd, Attach(c)
  PROVE  Serving'
<1> DEFINE e == AttachEntry(c)  E == AttachBase(c)
<1>1. /\ e <= MaxEntry
      /\ \/ UNCHANGED <<ops, groups, group>>
         \/ ops' = ops \cup {Op("attach", e, 0, 0, NoRepo)} /\ UNCHANGED <<groups, group>>
         \/ AttachWatcher(Queue(Wait(E, e), e), ops, e)
  BY AttachForms
<1>2. E \in Seq(EntryRec) /\ e \in 1..Len(E)
  BY <1>1, AttachBaseTyped
<1> HIDE DEF e, E
<1> DEFINE F == Queue(Wait(E, e), e)
<1>3. Wait(E, e) \in Seq(EntryRec) /\ Len(Wait(E, e)) = Len(E)
  BY <1>2, WaitingEntry DEF ButFor
<1>4. F \in Seq(EntryRec) /\ Len(F) = Len(E)
  BY <1>2, <1>3, QueuedEntry DEF ButFor
<1>5. \/ UNCHANGED <<ops, groups, group>>
      \/ ops' = ops \cup {Op("attach", e, 0, 0, NoRepo)} /\ UNCHANGED <<groups, group>>
      \/ AttachWatcher(F, ops, e)
  BY <1>1
<1> HIDE DEF F
<1>6. CASE AttachWatcher(F, ops, e)
  BY <1>2, <1>4, <1>6, AttachWatcherServing
<1>7. CASE ops' = ops \cup {Op("attach", e, 0, 0, NoRepo)} /\ UNCHANGED <<groups, group>>
  <2>1. \A o \in ops' \ ops : o.kind # "detach"
    BY <1>7 DEF Op
  <2> QED
    BY <1>7, <2>1, ServingKept
<1>8. CASE UNCHANGED <<ops, groups, group>>
  BY <1>8, ServingKept
<1> QED
  BY <1>5, <1>6, <1>7, <1>8

LEMMA RecomputedServing ==
  ASSUME Typed, Typed', Roster, Serving, Recorded,
         NEW o \in ops, AttachResumes(o) \/ RecomputeResumes(o)
  PROVE  Serving'
<1>1. o.e \in 1..Len(entry)
  BY TypedFacts DEF AttachResumes, RecomputeResumes, OpTyped, Recomputes
<1>2. PICK found \in Found : \/ ops' = ops \ {o} /\ UNCHANGED <<groups, group>>
                             \/ AttachWatcher(Recomputed(o.e, found), ops \ {o}, o.e)
  BY DEF AttachResumes, RecomputeResumes
<1> DEFINE E == Recomputed(o.e, found)  O == ops \ {o}
<1>3. E \in Seq(EntryRec) /\ o.e \in 1..Len(E)
  BY <1>1, FoundTyped, RecomputedEntry, TypedFacts DEF ButFor
<1>4. O \subseteq ops
  OBVIOUS
<1>5. (ops' = O /\ UNCHANGED <<groups, group>>) \/ AttachWatcher(E, O, o.e)
  BY <1>2
<1> HIDE DEF E, O
<1>6. CASE AttachWatcher(E, O, o.e)
  BY <1>3, <1>4, <1>6, AttachWatcherServing
<1>7. CASE ops' = O /\ UNCHANGED <<groups, group>>
  BY <1>4, <1>7, ServingKept
<1> QED
  BY <1>5, <1>6, <1>7

LEMMA DetachServing ==
  ASSUME Typed, Typed', Roster, Serving, Recorded, NEW c \in Cwd, Detach(c)
  PROVE  Serving'
<1> PICK g, r, e : g = DetachGroup(c) /\ r = keyOf[c] /\ e = entries[c]
  OBVIOUS
<1> DEFINE G == Resigned(g, c)  C == Cleared(G, g)
<1>1. \/ UNCHANGED <<groups, group, ops>>
      \/ /\ g # 0 /\ group' = G /\ UNCHANGED <<groups, ops>>
      \/ /\ g # 0 /\ group[g].members \ {c} = {} /\ group' = C
         /\ \/ groups' = [groups EXCEPT ![r] = 0] /\ UNCHANGED ops
            \/ ops' = ops \cup {Op("detach", e, 0, group[g].dispose, r)} /\ UNCHANGED groups
  BY DetachForms DEF Resigned, LeftMembers
<1>2. g \in 0..Len(group)
  BY TypedFacts DEF DetachGroup
<1>3. CASE UNCHANGED <<groups, group, ops>>
  BY <1>3, ServingKept
<1>4. ASSUME g # 0
      PROVE  /\ g \in 1..Len(group) /\ g = groups[r] /\ r \in Repo
             /\ ButFor(GroupRec, group, G, g) /\ SameWatch(group[g], G[g])
             /\ G[g].members = group[g].members \ {c}
             /\ ButFor(GroupRec, group, C, g) /\ C[g].members = group[g].members \ {c}
             /\ C[g].repo = group[g].repo
  BY <1>2, <1>4, ResignedGroup, TypedFacts DEF DetachGroup
<1> HIDE DEF C, G
<1>5. CASE g # 0 /\ group' = G /\ UNCHANGED <<groups, ops>>
  <2>1. Len(group') = Len(group) /\ \A h \in 1..Len(group) : /\ group'[h].repo = group[h].repo
                                         /\ group'[h].members \subseteq group[h].members
    BY <1>4, <1>5 DEF ButFor, SameWatch
  <2> QED
    BY <1>5, <2>1, ServingKept
<1>6. CASE /\ g # 0 /\ group[g].members \ {c} = {} /\ group' = C
           /\ \/ groups' = [groups EXCEPT ![r] = 0] /\ UNCHANGED ops
              \/ ops' = ops \cup {Op("detach", e, 0, group[g].dispose, r)} /\ UNCHANGED groups
  <2>1. Groups' = Groups /\ Groups = 1..Len(group) /\ spoilt \subseteq spoilt'
    BY <1>4, <1>6, TypedFacts DEF Groups, Recorded, ButFor
  <2>2. ASSUME NEW h \in Groups, h \notin spoilt', group'[h].members # {} PROVE Served(h)'
    <3>1. h # g /\ group'[h] = group[h] /\ Served(h) /\ group[h].repo \in Repo
      BY <1>4, <1>6, <2>1, <2>2, DisposeNat, TypedFacts DEF ButFor, Serving
    <3>2. groups[group[h].repo] = h /\ group[h].repo # r
      BY <1>4, <1>6, <2>2, <3>1 DEF Served
    <3>3. groups'[group[h].repo] = h
      BY <1>4, <1>6, <3>1, <3>2, TypedFacts
    <3>4. \A o \in ops' : o.kind = "detach" => o \in ops \/ o.x = r
      BY <1>6 DEF Op
    <3> QED
      BY <2>2, <3>1, <3>2, <3>3, <3>4 DEF Served
  <2> QED
    BY <2>1, <2>2 DEF Serving, Served
<1> QED
  BY <1>1, <1>3, <1>5, <1>6

LEMMA DetachResumesServing ==
  ASSUME Typed, Serving, Recorded, NEW o \in ops, DetachResumes(o)
  PROVE  Serving'
<1>1. /\ o.kind = "detach" /\ groups' = [groups EXCEPT ![o.x] = 0] /\ ops' = ops \ {o}
      /\ UNCHANGED group
  BY DEF DetachResumes
<1>2. Groups' = Groups /\ Groups = 1..Len(group) /\ spoilt \subseteq spoilt'
  BY <1>1, TypedFacts DEF Groups, Recorded
<1>3. ASSUME NEW g \in Groups, g \notin spoilt' PROVE Served(g)'
  <2>1. Served(g) /\ group[g].repo \in Repo
    BY <1>2, <1>3, DisposeNat, TypedFacts DEF Serving
  <2> QED
    BY <1>1, <2>1, TypedFacts DEF Served
<1> QED
  BY <1>2, <1>3 DEF Serving

LEMMA ServingNext ==
  ASSUME Typed, Typed', Roster, Serving, Recorded, WatchNext
  PROVE  Serving'
<1>1. CASE \E c \in Cwd : Attach(c) \/ Detach(c) \/ Revalidate(c)
  BY <1>1, AttachServing, DetachServing, RevalidateSameMembers, SameMembersServing
<1>2. CASE \/ \E r \in Repo : PathLost(r) \/ PathBack(r)
           \/ \E s \in Subs : Unsubscribed(s)
  <2>1. UNCHANGED <<groups, group, ops>>
    BY <1>2 DEF PathLost, PathBack, Unsubscribed
  <2> QED
    BY <2>1, ServingKept
<1>3. CASE \/ \E g \in Groups : RestartFires(g) \/ ProbeTick(g)
           \/ \E g \in Groups, s \in Subs, cause \in {"callback-error", "path-missing"} :
                CallbackError(g, s, cause)
  BY <1>3, RestartStep, ProbeTickStep, CallbackStep, WatcherSameMembers, SameMembersServing
<1>4. CASE \E e \in Entries : DebounceFires(e)
  BY <1>4, DebounceSameMembers, SameMembersServing
<1>5. CASE \E o \in ops : AccessResumes(o) \/ SubscribeResumes(o) \/ FaultResumes(o)
                            \/ ProbeResumes(o)
  BY <1>5, AccessStep, SubscribeStep, FaultStep, ProbeResumesStep, WatcherSameMembers,
     SameMembersServing
<1>6. CASE \E o \in ops : AttachResumes(o) \/ RecomputeResumes(o) \/ DetachResumes(o)
  BY <1>6, RecomputedServing, DetachResumesServing
<1> QED
  BY <1>1, <1>2, <1>3, <1>4, <1>5, <1>6 DEF WatchNext, Resume

-----------------------------------------------------------------------------
(* The theorems about the groups *)

WatchInv == InGroupsInv /\ Serving /\ Watching

LEMMA WatchInvNext == WatchInv /\ [WatchNext /\ History]_specVars => WatchInv'
<1> SUFFICES ASSUME WatchInv, [WatchNext /\ History]_specVars
             PROVE  WatchInv'
  OBVIOUS
<1>1. Typed /\ Roster /\ Serving /\ Watching
  BY DEF WatchInv, InGroupsInv
<1>2. Typed' /\ Roster'
  <2>1. Typed'
    BY <1>1, WatchNextTyped DEF specVars
  <2> QED
    BY <1>1, <2>1, RosterNext
<1>3. CASE WatchNext /\ History
  BY <1>1, <1>2, <1>3, HistoryRecords, ServingNext, WatchingNext DEF WatchInv, InGroupsInv
<1>4. CASE UNCHANGED specVars
  BY <1>1, <1>2, <1>4 DEF specVars, watchVars, WatchInv, InGroupsInv, Serving, Served, Watching,
     Holds, Sound, Stage, LiveHeld, Resting, Attached, Handling, NoOp, OnlyOp, Groups, Subs
<1> QED
  BY <1>3, <1>4

LEMMA WatchAlways == WatchSpec => []WatchInv
<1>1. WatchInit => WatchInv
  <2> SUFFICES ASSUME WatchInit PROVE WatchInv
    OBVIOUS
  <2>1. Groups = {} /\ Subs = {}
    BY DEF WatchInit, Groups, Subs
  <2> QED
    BY <2>1, InitTyped, InitRoster DEF WatchInv, InGroupsInv, Serving, Watching
<1> QED
  BY <1>1, WatchInvNext, PTL DEF WatchSpec

LEMMA WatchingIsHonest ==
  ASSUME WatchInv
  PROVE  NoOrphanSubscription /\ HealthIsHonest
<1>1. Groups = 1..Len(group) /\ Subs = 1..Len(sub) /\ Typed
  BY TypedFacts DEF WatchInv, InGroupsInv
<1>2. ASSUME NEW s \in Subs, sub[s] = "live", opener[s] \notin spoilt
      PROVE  Current(opener[s]) /\ group[opener[s]].dispose = s
  <2> PICK g : g = opener[s]
    OBVIOUS
  <2>1. g \in Groups /\ Sound(g) /\ Served(g)
    BY <1>2 DEF WatchInv, Watching, Serving
  <2>2. group[g].dispose = s /\ s # 0
    BY <1>1, <1>2, <2>1 DEF Sound, LiveHeld
  <2>3. Attached(g)
    BY <1>1, <1>2, <2>1, <2>2, HolderStage DEF WatchInv
  <2> QED
    BY <2>1, <2>2, <2>3 DEF Attached, Served, Current
<1>3. ASSUME NEW g \in Groups \ spoilt, Current(g),
             {o \in ops : o.g = g /\ o.kind \in {"fault", "suspend"}} = {}
      PROVE  group[g].health = "healthy" <=> group[g].dispose # 0
  <2>1. Stage(g) /\ group[g].members # {}
    BY <1>3 DEF WatchInv, Watching, Sound, Current
  <2>2. \A o \in ops : ~(o.g = g /\ o.kind = "fault")
    BY <1>3
  <2> QED
    BY <2>1, <2>2 DEF Stage, Resting, Attached, Handling, OnlyOp, NotShownHealthy
<1> QED
  BY <1>1, <1>2, <1>3, TypedImpliesTypeOK DEF NoOrphanSubscription, HealthIsHonest

\* ensureWatcherForGroup, handleWatcherFault, runSuspendedProbe and
\* scheduleWatcherRestart, in any order, never leave a live native subscription
\* that its group will not dispose, but in a group joined while a detach was
\* awaited or probed twice at once: whatever such a group does, the others keep
\* theirs.
THEOREM NoOrphanTheorem == WatchSpec => []NoOrphanSubscription
<1>1. WatchInv => NoOrphanSubscription
  BY WatchingIsHonest
<1> QED
  BY <1>1, WatchAlways, PTL

\* Nor do they, between the steps of a fault, show a group as healthy that is not
\* attached, or one that is attached as anything else, with the same exception.
THEOREM HealthTheorem == WatchSpec => []HealthIsHonest
<1>1. WatchInv => HealthIsHonest
  BY WatchingIsHonest
<1> QED
  BY <1>1, WatchAlways, PTL

=============================================================================
