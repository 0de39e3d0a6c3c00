------------------------- MODULE GitAutofetch_proofs -------------------------
(***************************************************************************)
(* The background fetch, for any finite set of repositories and any values *)
(* of the intervals and bounds: the counter the loop reads is the number   *)
(* of fetches under way, so the loop keeps its cap, and no in-flight mark  *)
(* outlives the fetches it stands for.  Its queue lists what it tracks,    *)
(* and from the window's first event on it starts nothing behind a hidden  *)
(* one.                                                                    *)
(***************************************************************************)
EXTENDS GitAutofetch, FiniteSetTheorems, TLAPS

\* The part of the type invariant the proofs need.
Typed ==
  /\ roots \subseteq Repo
  /\ DOMAIN repos \subseteq Repo
  /\ repos \in [DOMAIN repos -> RepoFetchState]
  /\ fetches \subseteq Process

\* A repository's number tells its fetches apart, so none is lost in the set.
Numbered == \A f, g \in fetches : f.repo = g.repo /\ f.n = g.n => f = g

\* activeFetches counts the processes.
Counted == IsFiniteSet(fetches) /\ active = Cardinality(fetches)

\* The inductive invariant: the cap follows from the exact count, the count from
\* the numbering.
IInv == Typed /\ Numbered /\ Counted /\ CapKept /\ InFlightHonest

-----------------------------------------------------------------------------
LEMMA ConstantTypes ==
  /\ Cap \in Nat /\ Cap > 0 /\ MaxBackoff \in Nat /\ Cooldown \in Nat
  /\ MaxStreak \in Nat /\ MaxSpawn \in Nat /\ FetchTimeout \in Nat
  BY ConstantsAssumption

\* What the scheduler does to a state keeps its type, and marks what it says.
LEMMA StateSteps ==
  ASSUME NEW s \in RepoFetchState
  PROVE  /\ Older(s) \in RepoFetchState /\ Older(s).inFlight = s.inFlight
         /\ Granted(s) \in RepoFetchState /\ Granted(s).inFlight = s.inFlight
         /\ Started(s) \in RepoFetchState
         /\ \A ok \in BOOLEAN : Done(s, ok) \in RepoFetchState /\ Done(s, ok).inFlight = FALSE
<1>1. /\ Least(s.age + 1, MaxBackoff) \in 0..MaxBackoff
      /\ Least(s.grant + 1, Cooldown) \in 0..Cooldown
      /\ Least(s.streak + 1, MaxStreak) \in 0..MaxStreak
      /\ 0 \in 0..MaxBackoff /\ 0 \in 0..Cooldown /\ 0 \in 0..MaxStreak
  BY ConstantTypes DEF RepoFetchState, Least, Never
<1> HIDE DEF Least
<1>2. Older(s) \in RepoFetchState /\ Granted(s) \in RepoFetchState /\ Started(s) \in RepoFetchState
  BY <1>1 DEF RepoFetchState, Older, Granted, Started, Never
<1>3. \A ok \in BOOLEAN : Done(s, ok) \in RepoFetchState
  BY <1>1 DEF RepoFetchState, Done, Never
<1>4. Older(s).inFlight = s.inFlight /\ Granted(s).inFlight = s.inFlight
  BY DEF RepoFetchState, Older, Granted
<1>5. \A ok \in BOOLEAN : Done(s, ok).inFlight = FALSE
  BY DEF RepoFetchState, Done
<1> QED BY <1>2, <1>3, <1>4, <1>5

TimersOf(S) == {f \in S : f.by = "timer"}
Aged(S) == {[f EXCEPT !.age = @ + 1] : f \in S}

\* Growing older leaves a set of numbered fetches its size.
LEMMA AgedCardinality ==
  ASSUME NEW S, S \subseteq fetches, Typed, Numbered, IsFiniteSet(S)
  PROVE  IsFiniteSet(Aged(S)) /\ Cardinality(Aged(S)) = Cardinality(S)
<1> DEFINE h == [f \in S |-> [f EXCEPT !.age = @ + 1]]
<1>1. \A f \in S : h[f].repo = f.repo /\ h[f].n = f.n
  BY DEF Typed, Process
<1>2. h \in [S -> Aged(S)]
  BY DEF Aged
<1>3. \A g \in Aged(S) : \E f \in S : h[f] = g
  BY DEF Aged
<1> HIDE DEF h
<1>4. \A f, g \in S : h[f] = h[g] => f = g
  BY <1>1 DEF Numbered
<1>5. h \in Bijection(S, Aged(S))
  BY <1>2, <1>3, <1>4 DEF Bijection, Injection, Surjection, IsInjective
<1> QED BY <1>5, FS_Bijection DEF ExistsBijection

\* A fetch is given a number its repository does not use.
LEMMA SpareNumber ==
  ASSUME NEW r \in Repo, Spare(r) # {}, NEW by \in {"timer", "user"}
  PROVE  /\ Fetch(r, by) \in Process
         /\ Fetch(r, by).repo = r /\ Fetch(r, by).by = by
         /\ Fetch(r, by).n \in Spare(r)
<1>1. (CHOOSE n \in Spare(r) : TRUE) \in Spare(r)
  OBVIOUS
<1>2. Spare(r) \subseteq 1..MaxSpawn /\ 0 \in 0..FetchTimeout
  BY ConstantsAssumption DEF Spare
<1> QED BY <1>1, <1>2 DEF Fetch, Process

\* A set of repositories gets as many fetches as it has members.
LEMMA NewFetches ==
  ASSUME NEW run, run \subseteq Repo, IsFiniteSet(run), \A r \in run : Spare(r) # {}
  PROVE  LET new == {Fetch(r, "timer") : r \in run} IN
         IsFiniteSet(new) /\ Cardinality(new) = Cardinality(run)
<1> DEFINE new == {Fetch(r, "timer") : r \in run}
           h == [r \in run |-> Fetch(r, "timer")]
<1>1. \A r \in run : h[r].repo = r
  BY DEF Fetch
<1>2. h \in [run -> new] /\ \A f \in new : \E r \in run : h[r] = f
  OBVIOUS
<1> HIDE DEF h
<1>3. \A q, r \in run : h[q] = h[r] => q = r
  BY <1>1
<1>4. h \in Bijection(run, new)
  BY <1>2, <1>3 DEF Bijection, Injection, Surjection, IsInjective
<1> QED BY <1>4, FS_Bijection DEF ExistsBijection

\* The loop over the due repositories, whatever the states and the fetches it
\* starts from: rs and fs are those of the tick or of the focus it runs in.
LEMMA RunTickKeeps ==
  ASSUME IInv, roots' = roots,
         NEW rs, rs \in [TrackedRepos -> RepoFetchState],
         NEW fs, fs \subseteq Process, IsFiniteSet(fs), Cardinality(fs) = active,
         \A f, g \in fs : f.repo = g.repo /\ f.n = g.n => f = g,
         \A g \in fs : g.n \notin Spare(g.repo),
         Cardinality(TimersOf(fs)) <= Cap,
         \A r \in TrackedRepos : rs[r].inFlight => \E g \in fs : g.repo = r,
         RunTick(rs, fs)
  PROVE  IInv'
<1> USE DEF TrackedRepos
<1>1. CASE ~visible
  <2>1. repos' = rs /\ fetches' = fs /\ active' = active
    BY <1>1 DEF RunTick
  <2>2. Typed' /\ Numbered' /\ Counted'
    BY <2>1 DEF IInv, Typed, Numbered, Counted
  <2>3. CapKept'
    BY <2>1 DEF CapKept, TimerFetches, TimersOf
  <2>4. InFlightHonest'
    BY <2>1 DEF InFlightHonest, FetchesOf
  <2> QED BY <2>2, <2>3, <2>4 DEF IInv
<1>2. CASE visible
  <2> DEFINE synced == Synced(rs)
             due == {r \in roots : Due(synced[r])}
  <2>1. PICK run \in SUBSET due :
          /\ Cardinality(run) = Least(Cardinality(due), Slots)
          /\ \A r \in run : Spare(r) # {}
          /\ repos' = [r \in roots |-> IF r \in run THEN Started(synced[r]) ELSE synced[r]]
          /\ fetches' = fs \cup {Fetch(r, "timer") : r \in run}
          /\ active' = active + Cardinality(run)
    BY <1>2 DEF RunTick
  <2> DEFINE new == {Fetch(r, "timer") : r \in run}
  <2>2. run \subseteq roots /\ roots \subseteq Repo
    BY DEF IInv, Typed
  <2>3. IsFiniteSet(run) /\ IsFiniteSet(due) /\ Cardinality(run) \in Nat /\ Cardinality(due) \in Nat
    BY <2>2, ConstantsAssumption, FS_Subset, FS_CardinalityType
  <2>4. IsFiniteSet(new) /\ Cardinality(new) = Cardinality(run)
    BY <2>1, <2>2, <2>3, NewFetches
  <2>5. \A f \in new : /\ f \in Process /\ f.by = "timer" /\ f.repo \in run
                       /\ f.n \in Spare(f.repo) /\ f = Fetch(f.repo, "timer")
    BY <2>1, <2>2, SpareNumber
  <2>6. \A r \in run : \E f \in new : f.repo = r
    BY <2>1, <2>2, SpareNumber
  <2> HIDE DEF new
  <2>7. fetches' = fs \cup new /\ fs \cap new = {}
    BY <2>1, <2>5 DEF new
  <2>8. synced \in [roots -> RepoFetchState]
    <3>1. NewRepo \in RepoFetchState
      BY ConstantsAssumption DEF NewRepo, RepoFetchState, Never
    <3> QED BY <3>1 DEF Synced
  <2>9. \A r \in roots : synced[r].inFlight => \E g \in fs : g.repo = r
    BY DEF Synced, NewRepo
  <2>10. Typed'
    <3>1. \A s \in RepoFetchState : Started(s) \in RepoFetchState
      BY StateSteps
    <3>2. repos' \in [roots -> RepoFetchState]
      <4> HIDE DEF synced, due
      <4> QED BY <2>1, <2>8, <3>1
    <3>3. fetches' \subseteq Process
      BY <2>5, <2>7
    <3> QED BY <2>2, <3>2, <3>3 DEF Typed
  <2>11. Numbered'
    BY <2>5, <2>7 DEF Numbered
  <2>12. Counted'
    <3>1. Cardinality({}) = 0 /\ active \in Nat
      BY FS_EmptySet, FS_CardinalityType
    <3>2. /\ IsFiniteSet(fs \cup new)
          /\ Cardinality(fs \cup new) = Cardinality(fs) + Cardinality(new) - Cardinality(fs \cap new)
      BY <2>4, FS_Union
    <3>3. Cardinality(fs \cup new) = active + Cardinality(run)
      <4>1. Cardinality(fs \cap new) = 0
        BY <2>7, <3>1
      <4> HIDE DEF synced, due
      <4> QED BY <2>3, <2>4, <3>1, <3>2, <4>1
    <3>4. active' = active + Cardinality(run)
      BY <2>1
    <3> HIDE DEF synced, due
    <3> QED BY <2>7, <3>2, <3>3, <3>4 DEF Counted
  <2>13. CapKept'
    <3>1. CASE run = {}
      <4>1. TimerFetches' = TimersOf(fs)
        BY <2>5, <2>7, <3>1 DEF TimerFetches, TimersOf
      <4> QED BY <4>1 DEF CapKept
    <3>2. CASE run # {}
      <4>1. Cardinality(run) # 0
        BY <2>3, <3>2, FS_EmptySet
      <4>2. active' <= Cap
        BY <2>1, <2>3, <4>1, ConstantsAssumption, FS_CardinalityType DEF Least, Slots
      <4>3. Cardinality(TimerFetches') <= Cardinality(fetches')
        BY <2>12, FS_Subset DEF Counted, TimerFetches
      <4>4. Cardinality(TimerFetches') \in Nat
        BY <2>12, FS_Subset, FS_CardinalityType DEF Counted, TimerFetches
      <4> QED BY <2>12, <4>2, <4>3, <4>4, FS_CardinalityType, ConstantsAssumption DEF CapKept, Counted
    <3> QED BY <3>1, <3>2
  <2>14. InFlightHonest'
    <3> SUFFICES ASSUME NEW r \in roots, repos'[r].inFlight
                 PROVE  \E f \in fetches' : f.repo = r
      BY <2>1 DEF InFlightHonest, FetchesOf
    <3>1. CASE r \in run
      BY <2>6, <2>7, <3>1
    <3>2. CASE r \notin run
      BY <2>1, <2>7, <2>9, <3>2
    <3> QED BY <3>1, <3>2
  <2> QED BY <2>10, <2>11, <2>12, <2>13, <2>14 DEF IInv
<1> QED BY <1>1, <1>2

-----------------------------------------------------------------------------
LEMMA InitInv == Init => IInv
<1> SUFFICES ASSUME Init PROVE IInv
  OBVIOUS
<1>1. Typed /\ Numbered
  BY DEF Init, Typed, Numbered
<1>2. Counted
  BY FS_EmptySet DEF Init, Counted
<1>3. CapKept
  <2>1. TimerFetches = {}
    BY DEF Init, TimerFetches
  <2> QED BY <2>1, FS_EmptySet, ConstantsAssumption DEF CapKept
<1>4. InFlightHonest
  BY DEF Init, InFlightHonest, TrackedRepos
<1> QED BY <1>1, <1>2, <1>3, <1>4 DEF IInv

\* A step that leaves the fetches, the count, the set of tracked repositories and
\* their marks alone keeps the invariant.
LEMMA QuietStep ==
  ASSUME IInv, UNCHANGED <<fetches, active>>, roots' \subseteq Repo,
         DOMAIN repos' = DOMAIN repos, repos' \in [DOMAIN repos -> RepoFetchState],
         \A r \in DOMAIN repos : repos'[r].inFlight = repos[r].inFlight
  PROVE  IInv'
<1>1. Typed' /\ Numbered' /\ Counted'
  BY DEF IInv, Typed, Numbered, Counted
<1>2. CapKept'
  BY DEF IInv, CapKept, TimerFetches
<1>3. InFlightHonest'
  BY DEF IInv, InFlightHonest, FetchesOf, TrackedRepos
<1> QED BY <1>1, <1>2, <1>3 DEF IInv

\* The time step hands the loop the fetches grown older.
LEMMA TickKeeps ==
  ASSUME IInv, Tick
  PROVE  IInv'
<1> DEFINE rs == [r \in TrackedRepos |-> Older(repos[r])]
           fs == Aged(fetches)
<1> USE DEF TrackedRepos
<1>1. RunTick(rs, fs) /\ roots' = roots
  BY DEF Tick, Aged
<1>2. /\ rs \in [TrackedRepos -> RepoFetchState]
      /\ \A r \in TrackedRepos : rs[r].inFlight = repos[r].inFlight
  BY StateSteps DEF IInv, Typed
<1>3. \A f \in fetches : LET g == [f EXCEPT !.age = @ + 1] IN
        g \in Process /\ g.repo = f.repo /\ g.n = f.n /\ g.by = f.by
  <2>1. ASSUME NEW f \in Process, f.age < FetchTimeout
        PROVE  LET g == [f EXCEPT !.age = @ + 1] IN
               g \in Process /\ g.repo = f.repo /\ g.n = f.n /\ g.by = f.by
    <3>1. f.age + 1 \in 0..FetchTimeout
      BY <2>1, ConstantTypes DEF Process
    <3> QED BY <3>1 DEF Process
  <2> QED BY <2>1 DEF Tick, IInv, Typed
<1>4. \A g \in fs : \E f \in fetches : g = [f EXCEPT !.age = @ + 1]
  BY DEF Aged
<1>5. fs \subseteq Process /\ \A g \in fs : g.n \notin Spare(g.repo)
  BY <1>3, <1>4 DEF Spare, FetchesOf
<1>6. \A f, g \in fs : f.repo = g.repo /\ f.n = g.n => f = g
  <2> SUFFICES ASSUME NEW f \in fs, NEW g \in fs, f.repo = g.repo, f.n = g.n
               PROVE  f = g
    OBVIOUS
  <2>1. PICK x \in fetches, y \in fetches :
          f = [x EXCEPT !.age = @ + 1] /\ g = [y EXCEPT !.age = @ + 1]
    BY <1>4
  <2>2. x.repo = y.repo /\ x.n = y.n
    BY <1>3, <2>1
  <2> QED BY <2>1, <2>2 DEF IInv, Numbered
<1>7. IsFiniteSet(fs) /\ Cardinality(fs) = active
  BY AgedCardinality DEF IInv, Counted
<1>8. Cardinality(TimersOf(fs)) <= Cap
  <2>1. TimersOf(fs) = Aged(TimerFetches)
    BY <1>3 DEF TimersOf, Aged, TimerFetches
  <2>2. TimerFetches \subseteq fetches /\ IsFiniteSet(TimerFetches)
    BY FS_Subset DEF IInv, Counted, TimerFetches
  <2>3. Cardinality(Aged(TimerFetches)) = Cardinality(TimerFetches)
    BY <2>2, AgedCardinality DEF IInv
  <2> QED BY <2>1, <2>3 DEF IInv, CapKept
<1>9. \A r \in TrackedRepos : rs[r].inFlight => \E g \in fs : g.repo = r
  <2> SUFFICES ASSUME NEW r \in TrackedRepos, rs[r].inFlight
               PROVE  \E g \in fs : g.repo = r
    OBVIOUS
  <2>1. PICK f \in fetches : f.repo = r
    BY <1>2 DEF IInv, InFlightHonest, FetchesOf
  <2> QED BY <1>3, <2>1 DEF Aged
<1> HIDE DEF rs, fs
<1> QED BY <1>1, <1>2, <1>5, <1>6, <1>7, <1>8, <1>9, RunTickKeeps

LEMMA FocusKeeps ==
  ASSUME IInv, NEW r \in Repo, Focus(r)
  PROVE  IInv'
<1> DEFINE rs == [repos EXCEPT ![r] = Granted(@)]
<1> USE DEF TrackedRepos
<1>1. RunTick(rs, fetches) /\ roots' = roots /\ r \in TrackedRepos
  BY DEF Focus
<1>2. /\ rs \in [TrackedRepos -> RepoFetchState]
      /\ \A q \in TrackedRepos : rs[q].inFlight = repos[q].inFlight
  BY <1>1, StateSteps DEF IInv, Typed
<1>3. /\ fetches \subseteq Process
      /\ \A g \in fetches : g.n \notin Spare(g.repo)
  BY DEF IInv, Typed, Spare, FetchesOf
<1>4. Cardinality(TimersOf(fetches)) <= Cap
  BY DEF IInv, CapKept, TimersOf, TimerFetches
<1>5. \A q \in TrackedRepos : rs[q].inFlight => \E g \in fetches : g.repo = q
  BY <1>2 DEF IInv, InFlightHonest, FetchesOf
<1> HIDE DEF rs
<1> QED BY <1>1, <1>2, <1>3, <1>4, <1>5, RunTickKeeps DEF IInv, Numbered, Counted

LEMMA FetchNowKeeps ==
  ASSUME IInv, NEW r \in Repo, FetchNow(r)
  PROVE  IInv'
<1> USE DEF TrackedRepos
<1> DEFINE f == Fetch(r, "user")
<1>1. f \in Process /\ f.repo = r /\ f.by = "user" /\ f.n \in Spare(r)
  BY SpareNumber DEF FetchNow
<1> HIDE DEF f
<1>2. fetches' = fetches \cup {f} /\ f \notin fetches /\ active' = active + 1 /\ roots' = roots
  BY <1>1 DEF FetchNow, Spare, FetchesOf, f
<1>3. Typed'
  <2>1. \A s \in RepoFetchState : Started(s) \in RepoFetchState
    BY StateSteps
  <2>2. DOMAIN repos' = DOMAIN repos /\ repos' \in [DOMAIN repos -> RepoFetchState]
    BY <2>1 DEF FetchNow, IInv, Typed
  <2> QED BY <1>1, <1>2, <2>2 DEF IInv, Typed
<1>4. Numbered'
  BY <1>1, <1>2 DEF IInv, Numbered, Spare, FetchesOf
<1>5. Counted'
  BY <1>2, FS_AddElement DEF IInv, Counted
<1>6. CapKept'
  <2>1. TimerFetches' = TimerFetches
    BY <1>1, <1>2 DEF TimerFetches
  <2> QED BY <2>1 DEF IInv, CapKept
<1>7. InFlightHonest'
  <2> SUFFICES ASSUME NEW q \in DOMAIN repos', repos'[q].inFlight
               PROVE  \E g \in fetches' : g.repo = q
    BY DEF InFlightHonest, FetchesOf
  <2>1. CASE q = r
    BY <1>1, <1>2, <2>1
  <2>2. CASE q # r
    BY <1>2, <2>2 DEF FetchNow, IInv, InFlightHonest, FetchesOf
  <2> QED BY <2>1, <2>2
<1> QED BY <1>3, <1>4, <1>5, <1>6, <1>7 DEF IInv

LEMMA SettleKeeps ==
  ASSUME IInv, NEW f \in fetches, NEW ok \in BOOLEAN, Settle(f, ok)
  PROVE  IInv'
<1> USE DEF TrackedRepos
<1>1. fetches' = fetches \ {f} /\ active' = active - 1 /\ roots' = roots
  BY DEF Settle
<1>2. /\ DOMAIN repos' = DOMAIN repos /\ repos' \in [DOMAIN repos -> RepoFetchState]
      /\ f.repo \in DOMAIN repos => ~repos'[f.repo].inFlight
      /\ \A q \in DOMAIN repos : q # f.repo => repos'[q] = repos[q]
  BY StateSteps DEF Settle, IInv, Typed
<1>3. Typed' /\ Numbered'
  BY <1>1, <1>2 DEF IInv, Typed, Numbered
<1>4. Counted'
  BY <1>1, FS_RemoveElement DEF IInv, Counted
<1>5. CapKept'
  <2>1. TimerFetches' \subseteq TimerFetches /\ IsFiniteSet(TimerFetches)
    BY <1>1, FS_Subset DEF TimerFetches, IInv, Counted
  <2>2. Cardinality(TimerFetches') <= Cardinality(TimerFetches)
    BY <2>1, FS_Subset
  <2>3. Cardinality(TimerFetches') \in Nat /\ Cardinality(TimerFetches) \in Nat
    BY <2>1, FS_Subset, FS_CardinalityType
  <2> QED BY <2>2, <2>3, ConstantsAssumption DEF IInv, CapKept
<1>6. InFlightHonest'
  BY <1>1, <1>2 DEF IInv, InFlightHonest, FetchesOf
<1> QED BY <1>3, <1>4, <1>5, <1>6 DEF IInv

LEMMA WindowKeeps ==
  ASSUME IInv, NEW shown \in BOOLEAN, Window(shown)
  PROVE  IInv'
<1> USE DEF TrackedRepos
<1>1. UNCHANGED <<fetches, active>> /\ roots' \subseteq Repo
  BY DEF Window, IInv, Typed
<1>2. /\ DOMAIN repos' = DOMAIN repos /\ repos' \in [DOMAIN repos -> RepoFetchState]
      /\ \A r \in DOMAIN repos : repos'[r].inFlight = repos[r].inFlight
  <2>1. CASE shown /\ ~visible
    <3>1. PICK half \in [DOMAIN repos -> 0..MaxStreak] :
            repos' = [r \in DOMAIN repos |-> [repos[r] EXCEPT !.streak = half[r]]]
      BY <2>1 DEF Window
    <3>2. ASSUME NEW s \in RepoFetchState, NEW n \in 0..MaxStreak
          PROVE  /\ [s EXCEPT !.streak = n] \in RepoFetchState
                 /\ [s EXCEPT !.streak = n].inFlight = s.inFlight
      BY DEF RepoFetchState
    <3> QED BY <3>1, <3>2 DEF IInv, Typed
  <2>2. CASE ~(shown /\ ~visible)
    BY <2>2 DEF Window, IInv, Typed
  <2> QED BY <2>1, <2>2
<1> QED BY <1>1, <1>2, QuietStep

LEMMA NextKeeps == IInv /\ [Next]_vars => IInv'
<1> SUFFICES ASSUME IInv, [Next]_vars PROVE IInv'
  OBVIOUS
<1>1. CASE Tick
  BY <1>1, TickKeeps
<1>2. CASE \E r \in Repo : Focus(r)
  BY <1>2, FocusKeeps
<1>3. CASE \E r \in Repo : FetchNow(r)
  BY <1>3, FetchNowKeeps
<1>4. CASE \E f \in fetches, ok \in BOOLEAN : Settle(f, ok)
  BY <1>4, SettleKeeps
<1>5. CASE \E b \in BOOLEAN : Window(b)
  BY <1>5, WindowKeeps
<1>6. CASE Dispose \/ \E b \in BOOLEAN : Start(b)
  <2>1. UNCHANGED <<roots, repos, fetches, active>>
    BY <1>6 DEF Dispose, Start
  <2> QED BY <2>1, QuietStep DEF IInv, Typed
<1>7. CASE \E r \in Repo : Opens(r) \/ Closes(r)
  <2>1. UNCHANGED <<repos, fetches, active>> /\ roots' \subseteq Repo
    BY <1>7 DEF Opens, Closes, IInv, Typed
  <2> QED BY <2>1, QuietStep DEF IInv, Typed
<1>8. CASE UNCHANGED vars
  <2>1. UNCHANGED <<roots, repos, fetches, active>>
    BY <1>8 DEF vars
  <2> QED BY <2>1, QuietStep DEF IInv, Typed
<1> QED BY <1>1, <1>2, <1>3, <1>4, <1>5, <1>6, <1>7, <1>8 DEF Next

\* IInv holds in every reachable state.
THEOREM Invariance == Spec => []IInv
BY InitInv, NextKeeps, PTL DEF Spec

\* The loop's own fetches never exceed the cap (runTick), whatever the number of
\* repositories, clicks and fetches of pruned repositories that end late.
THEOREM CapTheorem == Spec => []CapKept
<1>1. IInv => CapKept
  BY DEF IInv
<1> QED BY <1>1, Invariance, PTL

\* No in-flight mark is left behind (onFetchStart, onFetchDone, syncRepos).
THEOREM InFlightTheorem == Spec => []InFlightHonest
<1>1. IInv => InFlightHonest
  BY DEF IInv
<1> QED BY <1>1, Invariance, PTL

\* activeFetches is the number of git fetch processes under way.
THEOREM CountTheorem == Spec => [](active = Cardinality(fetches))
<1>1. IInv => active = Cardinality(fetches)
  BY DEF IInv, Counted
<1> QED BY <1>1, Invariance, PTL

\* A tick starts what is due or uses every slot.
LEMMA TickConserves ==
  ASSUME IInv, Tick, visible
  PROVE  \/ Cardinality(fetches') >= Cap
         \/ \A r \in DOMAIN repos' : LET s == repos'[r] IN
              s.inFlight \/ ~(s.pending \/ s.age >= Gap(s.streak))
<1> DEFINE synced == Synced([r \in TrackedRepos |-> Older(repos[r])])
           due == {r \in roots : Due(synced[r])}
<1>1. PICK run \in SUBSET due :
        /\ Cardinality(run) = Least(Cardinality(due), Slots)
        /\ repos' = [r \in roots |-> IF r \in run THEN Started(synced[r]) ELSE synced[r]]
        /\ active' = active + Cardinality(run)
  BY DEF Tick, RunTick
<1>2. due \subseteq Repo /\ synced \in [roots -> RepoFetchState]
  <2>1. NewRepo \in RepoFetchState
    BY ConstantsAssumption DEF NewRepo, RepoFetchState, Never
  <2>2. \A r \in TrackedRepos : Older(repos[r]) \in RepoFetchState
    BY StateSteps DEF IInv, Typed, TrackedRepos
  <2> QED BY <2>1, <2>2 DEF Synced, IInv, Typed
<1>3. \A r \in roots : r \notin due =>
        synced[r].inFlight \/ ~(synced[r].pending \/ synced[r].age >= Gap(synced[r].streak))
  BY DEF Due
<1> HIDE DEF synced
<1>4. IsFiniteSet(due)
  BY <1>2, ConstantsAssumption, FS_Subset
<1> HIDE DEF due
<1>5. IsFiniteSet(run) /\ Cardinality(run) \in Nat /\ Cardinality(due) \in Nat
  BY <1>4, FS_Subset, FS_CardinalityType
<1>6. CASE Cardinality(due) <= Slots
  <2>1. run = due
    BY <1>1, <1>4, <1>5, <1>6, FS_Subset DEF Least
  <2>2. \A r \in roots : r \in run => repos'[r].inFlight
    BY <1>1, <1>2 DEF Started, RepoFetchState
  <2> QED BY <1>1, <1>3, <2>1, <2>2
<1>7. CASE ~(Cardinality(due) <= Slots)
  <2>1. active' = active + Slots
    BY <1>1, <1>7 DEF Least
  <2>2. active \in Nat /\ Cap \in Nat
    BY ConstantTypes, FS_CardinalityType DEF IInv, Counted
  <2>3. active' >= Cap
    BY <2>1, <2>2 DEF Slots
  <2> QED BY <2>3, TickKeeps DEF IInv, Counted
<1> QED BY <1>6, <1>7

\* A tick in a visible window leaves nothing due beside a free slot (runTick), so
\* no slot leaks and no granted retry is lost.
THEOREM ConservingTheorem == Spec => WorkConserving
BY TickConserves, Invariance, PTL DEF Spec, WorkConserving

-----------------------------------------------------------------------------
(* The type invariant: the scheduler's queue lists what it tracks, each once. *)

Listed == order \in Seq(Repo) /\ IsInjective(order) /\ ToSet(order) = DOMAIN repos
Control ==
  /\ phase \in {"launch", "on", "parked", "disposed"}
  /\ window \in BOOLEAN /\ visible \in BOOLEAN

\* A sequence of SetToSeqs lists the members of its set, all of them and each once.
LEMMA SeqsOfSet ==
  ASSUME NEW S, IsFiniteSet(S), NEW keys \in SetToSeqs(S)
  PROVE  keys \in Seq(S) /\ IsInjective(keys) /\ ToSet(keys) = S
<1> DEFINE n == Cardinality(S)
<1>1. n \in Nat /\ IsFiniteSet(1..n) /\ Cardinality(1..n) = n
  BY FS_CardinalityType, FS_Interval
<1>2. keys \in [1..n -> S] /\ \A i, j \in 1..n : i # j => keys[i] # keys[j]
  BY DEF SetToSeqs
<1> HIDE DEF n
<1>3. keys \in Seq(S) /\ IsInjective(keys)
  BY <1>1, <1>2 DEF IsInjective
<1>4. keys \in Injection(1..n, S)
  BY <1>2 DEF Injection, IsInjective
<1>5. keys \in Surjection(1..n, S)
  BY <1>1, <1>4, FS_Injection DEF n
<1>6. ToSet(keys) = S
  BY <1>2, <1>5 DEF ToSet, Surjection
<1> QED BY <1>3, <1>6

LEMMA InitListed == Init => Listed /\ Control
<1> SUFFICES ASSUME Init PROVE Listed /\ Control
  OBVIOUS
<1>1. order = <<>> /\ repos = <<>>
  BY DEF Init
<1>2. Listed
  BY <1>1 DEF Listed, IsInjective, ToSet
<1>3. Control
  BY ConstantsAssumption DEF Init, Control
<1> QED BY <1>2, <1>3

\* The loop leaves the queue as it is, or lists what is in use.
LEMMA RunTickLists ==
  ASSUME IInv, Listed, NEW rs, DOMAIN rs = DOMAIN repos, NEW fs, RunTick(rs, fs)
  PROVE  Listed'
<1>1. CASE ~visible
  BY <1>1 DEF RunTick, Listed
<1>2. CASE visible
  <2>1. order' \in SetToSeqs(roots) /\ DOMAIN repos' = roots
    BY <1>2 DEF RunTick
  <2>2. roots \subseteq Repo /\ IsFiniteSet(roots)
    BY ConstantsAssumption, FS_Subset DEF IInv, Typed
  <2>3. order' \in Seq(roots) /\ IsInjective(order') /\ ToSet(order') = roots
    BY <2>1, <2>2, SeqsOfSet
  <2>4. order' \in Seq(Repo)
    BY <2>2, <2>3
  <2> QED BY <2>1, <2>3, <2>4 DEF Listed
<1> QED BY <1>1, <1>2

LEMMA NextLists == IInv /\ Listed /\ Control /\ [Next]_vars => Listed' /\ Control'
<1> SUFFICES ASSUME IInv, Listed, Control, [Next]_vars PROVE Listed' /\ Control'
  OBVIOUS
<1>1. ASSUME UNCHANGED order, DOMAIN repos' = DOMAIN repos PROVE Listed'
  BY <1>1 DEF Listed
<1>2. ASSUME UNCHANGED <<phase, window, visible>> PROVE Control'
  BY <1>2 DEF Control
<1>3. CASE Tick
  <2> DEFINE rs == [r \in TrackedRepos |-> Older(repos[r])]
             fs == {[f EXCEPT !.age = @ + 1] : f \in fetches}
  <2>1. RunTick(rs, fs) /\ DOMAIN rs = DOMAIN repos
    BY <1>3 DEF Tick, TrackedRepos
  <2>2. Listed'
    <3> HIDE DEF rs, fs
    <3> QED BY <2>1, RunTickLists
  <2>3. Control'
    BY <1>2, <1>3 DEF Tick
  <2> QED BY <2>2, <2>3
<1>4. CASE \E r \in Repo : Focus(r)
  <2>1. PICK r \in Repo : Focus(r)
    BY <1>4
  <2>2. RunTick([repos EXCEPT ![r] = Granted(@)], fetches) /\ Control'
    BY <1>2, <2>1 DEF Focus
  <2> QED BY <2>2, RunTickLists
<1>5. CASE \E r \in Repo : FetchNow(r)
  BY <1>1, <1>2, <1>5 DEF FetchNow
<1>6. CASE \E f \in fetches, ok \in BOOLEAN : Settle(f, ok)
  BY <1>1, <1>2, <1>6 DEF Settle
<1>7. CASE \E b \in BOOLEAN : Start(b) \/ Window(b)
  <2>1. PICK b \in BOOLEAN : Start(b) \/ Window(b)
    BY <1>7
  <2>2. Control'
    BY <2>1 DEF Control, Start, Window
  <2>3. UNCHANGED order /\ DOMAIN repos' = DOMAIN repos
    BY <2>1 DEF Start, Window, TrackedRepos
  <2> QED BY <1>1, <2>2, <2>3
<1>8. CASE Dispose
  <2>1. Control'
    BY <1>8 DEF Dispose, Control
  <2> QED BY <1>1, <1>8, <2>1 DEF Dispose
<1>9. CASE \E r \in Repo : Opens(r) \/ Closes(r)
  BY <1>1, <1>2, <1>9 DEF Opens, Closes
<1>10. CASE UNCHANGED vars
  BY <1>1, <1>2, <1>10 DEF vars
<1> QED BY <1>3, <1>4, <1>5, <1>6, <1>7, <1>8, <1>9, <1>10 DEF Next

\* The state is well typed, and the queue the loop takes from lists exactly the
\* repositories the scheduler tracks, each once (syncRepos).
THEOREM TypeTheorem == Spec => []TypeOK
<1>1. IInv /\ Listed /\ Control => TypeOK
  BY FS_CardinalityType DEF IInv, Typed, Counted, Listed, Control, TypeOK, TrackedRepos
<1>2. Spec => [](Listed /\ Control)
  BY InitListed, NextLists, Invariance, PTL DEF Spec
<1> QED BY <1>1, <1>2, Invariance, PTL

-----------------------------------------------------------------------------
(* A hidden window: from its first event on, the scheduler's flag follows it *)

\* Growing older changes neither who began a fetch nor how many there are.
LEMMA AgedTimers ==
  ASSUME IInv
  PROVE  Cardinality(TimersOf(Aged(fetches))) = Cardinality(TimerFetches)
<1>1. \A f \in fetches : [f EXCEPT !.age = @ + 1].by = f.by
  BY DEF IInv, Typed, Process
<1>2. TimersOf(Aged(fetches)) = Aged(TimerFetches)
  BY <1>1 DEF TimersOf, Aged, TimerFetches
<1>3. TimerFetches \subseteq fetches /\ IsFiniteSet(TimerFetches)
  BY FS_Subset DEF IInv, Counted, TimerFetches
<1> QED BY <1>2, <1>3, AgedCardinality DEF IInv

\* Only the loop starts fetches of its own, and only in a window it takes for shown.
LEMMA LoopStarts ==
  ASSUME IInv, Listed, Control, [Next]_vars,
         Cardinality({f \in fetches' : f.by = "timer"}) > Cardinality(TimerFetches)
  PROVE  phase = "on" /\ visible
<1> DEFINE timers == {f \in fetches' : f.by = "timer"}
<1>1. Cardinality(TimerFetches) \in Nat /\ IsFiniteSet(TimerFetches)
  BY FS_Subset, FS_CardinalityType DEF IInv, Counted, TimerFetches
<1>2. ASSUME timers \subseteq TimerFetches PROVE FALSE
  <2>1. Cardinality(timers) \in Nat /\ Cardinality(timers) <= Cardinality(TimerFetches)
    BY <1>1, <1>2, FS_Subset, FS_CardinalityType
  <2> QED BY <1>1, <2>1
<1>3. ASSUME UNCHANGED fetches PROVE FALSE
  BY <1>2, <1>3 DEF TimerFetches
<1>4. CASE Tick
  <2>1. CASE ~visible
    <3>1. timers = TimersOf(Aged(fetches))
      BY <1>4, <2>1 DEF Tick, RunTick, TimersOf, Aged
    <3> QED BY <1>1, <3>1, AgedTimers
  <2> QED BY <1>4, <2>1 DEF Tick, Control
<1>5. CASE \E r \in Repo : Focus(r)
  BY <1>3, <1>5 DEF Focus, RunTick, Control
<1>6. CASE \E r \in Repo : FetchNow(r)
  <2>1. PICK r \in Repo : fetches' = fetches \cup {Fetch(r, "user")}
    BY <1>6 DEF FetchNow
  <2>2. Fetch(r, "user").by = "user"
    BY DEF Fetch
  <2> QED BY <1>2, <2>1, <2>2 DEF TimerFetches
<1>7. CASE \E f \in fetches, ok \in BOOLEAN : Settle(f, ok)
  BY <1>2, <1>7 DEF Settle, TimerFetches
<1>8. CASE \E b \in BOOLEAN : Start(b) \/ Window(b)
  BY <1>3, <1>8 DEF Start, Window
<1>9. CASE Dispose \/ (\E r \in Repo : Opens(r) \/ Closes(r)) \/ UNCHANGED vars
  BY <1>3, <1>9 DEF Dispose, Opens, Closes, vars
<1> QED BY <1>4, <1>5, <1>6, <1>7, <1>8, <1>9 DEF Next

\* The scheduler that runs has the window's state.
Told == phase # "launch" /\ window = visible

\* A fetch of the loop starts only behind a window that is shown, and only while
\* the manager is at work.
StartsShown ==
  Cardinality({f \in fetches' : f.by = "timer"}) > Cardinality(TimerFetches)
    => window /\ phase = "on"

\* setAppVisible tells every change of the window; only what it was told before
\* start() is lost.
LEMMA StaysTold == Told /\ [Next]_vars => Told'
<1> SUFFICES ASSUME Told, [Next]_vars PROVE Told'
  OBVIOUS
<1>1. CASE Tick \/ Dispose \/ \E r \in Repo : Focus(r) \/ FetchNow(r) \/ Opens(r) \/ Closes(r)
  BY <1>1 DEF Told, Tick, Dispose, Focus, FetchNow, Opens, Closes
<1>2. CASE \E f \in fetches, ok \in BOOLEAN : Settle(f, ok)
  BY <1>2 DEF Told, Settle
<1>3. CASE \E b \in BOOLEAN : Start(b) \/ Window(b)
  BY <1>3 DEF Told, Start, Window
<1>4. CASE UNCHANGED vars
  BY <1>4 DEF Told, vars
<1> QED BY <1>1, <1>2, <1>3, <1>4 DEF Next

\* From the first event of the window on, no fetch of the loop ever starts behind a
\* hidden or minimized window, or after the manager is disposed, as the comment at
\* index.ts:1147 has it; before that event it may.
THEOREM HiddenTheorem == Spec => [](Told => [][StartsShown]_vars)
<1>1. IInv /\ Listed /\ Control /\ Told /\ [Next]_vars => [StartsShown]_vars
  BY LoopStarts DEF Told, StartsShown
<1>2. Spec => [](IInv /\ Listed /\ Control)
  BY InitListed, NextLists, Invariance, PTL DEF Spec
<1> QED BY <1>1, <1>2, StaysTold, PTL DEF Spec

=============================================================================
