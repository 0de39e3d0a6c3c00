----------------------------- MODULE GitAutofetch -----------------------------
(***************************************************************************)
(* The background git fetch (git-autofetch-scheduler.ts) with the host     *)
(* that drives it in the main process (git-autofetch-manager.ts): when     *)
(* each repository is fetched, how failures stretch the gap, how a focus   *)
(* or a click buys a fetch outside of it, and what a hidden window and a   *)
(* repository that comes and goes do to the fetches under way.             *)
(*                                                                         *)
(* The clock advances by one tick of the manager's timer.  A repository    *)
(* keeps the age of its last attempt and of its last granted retry instead *)
(* of their times; an age at Never, or at Cooldown, is at least that.      *)
(***************************************************************************)
EXTENDS Integers, FiniteSets, SequencesExt

CONSTANTS
  Repo,
  Cap,                         \* MAX_CONCURRENT_FETCHES
  Interval, MaxBackoff,        \* GIT_AUTOFETCH_DEFAULT_INTERVAL_MS, _MAX_BACKOFF_MS
  MinSince, Cooldown,          \* GIT_AUTOFETCH_PRIORITY_MIN_SINCE_ATTEMPT_MS, _COOLDOWN_MS
  FetchTimeout,                \* FETCH_TIMEOUT_MS, in started ticks
  MaxStreak,                   \* a streak at MaxStreak stands for it and every longer one
  MaxSpawn, MaxClicks          \* bounds: fetches of a repository at once, clicks

ASSUME ConstantsAssumption ==
  /\ IsFiniteSet(Repo)
  /\ {Cap, Interval, MaxBackoff, MinSince, Cooldown, FetchTimeout, MaxStreak, MaxSpawn} \subseteq Nat \ {0}
  /\ MinSince <= Cooldown /\ Interval <= MaxBackoff
  /\ Interval * 2 ^ MaxStreak >= MaxBackoff
  /\ MaxClicks \in Nat

VARIABLES
  phase,      \* started, enabled and disposed of the manager
  window,     \* the window is shown and not minimized
  visible,    \* the scheduler's appVisible
  roots,      \* getAutofetchRepoRoots() of the mirror router
  order,      \* the keys of the scheduler's repos, in insertion order
  repos,      \* their states
  fetches,    \* the git fetch processes under way
  active,     \* activeFetches
  clicks      \* how much of its bound is used

vars == <<phase, window, visible, roots, order, repos, fetches, active, clicks>>

Never == MaxBackoff   \* NEGATIVE_INFINITY, and anything as old

NewRepo == [inFlight |-> FALSE, age |-> Never, streak |-> 0, grant |-> Cooldown, pending |-> FALSE]
TrackedRepos == DOMAIN repos

RepoFetchState ==
  [inFlight : BOOLEAN, age : 0..Never, streak : 0..MaxStreak, grant : 0..Cooldown, pending : BOOLEAN]
Process == [repo : Repo, by : {"timer", "user"}, age : 0..FetchTimeout, n : 1..MaxSpawn]

TypeOK ==
  /\ phase \in {"launch", "on", "parked", "disposed"}
  /\ {window, visible} \subseteq BOOLEAN
  /\ roots \subseteq Repo
  /\ order \in Seq(Repo) /\ IsInjective(order) /\ ToSet(order) = TrackedRepos
  /\ repos \in [TrackedRepos -> RepoFetchState]
  /\ fetches \subseteq Process
  /\ active \in Nat

\* The window is made hidden (index.ts:658) and is shown once it is ready.
Init ==
  /\ phase = "launch" /\ window = FALSE /\ visible = TRUE
  /\ roots = {} /\ order = <<>> /\ repos = <<>>
  /\ fetches = {} /\ active = 0 /\ clicks = 0

Least(a, b) == IF a <= b THEN a ELSE b

-----------------------------------------------------------------------------
(* The scheduler                                                           *)

\* computeAutofetchBackoffMs
Gap(streak) == IF streak = 0 THEN Interval ELSE Least(Interval * 2 ^ streak, MaxBackoff)

\* Mutation: a granted retry waits for the gap like any other.
Due_NoPriority(s) == ~s.inFlight /\ s.age >= Gap(s.streak)

\* tick, for one repository
Due(s) == ~s.inFlight /\ (s.pending \/ s.age >= Gap(s.streak))

Older(s) == [s EXCEPT !.age = Least(@ + 1, Never), !.grant = Least(@ + 1, Cooldown)]

\* onFetchStart
Started(s) == [s EXCEPT !.inFlight = TRUE, !.pending = FALSE]

\* Mutation: only a success clears the mark.
Done_OkOnly(s, ok) ==
  [s EXCEPT !.inFlight = ~ok, !.age = 0, !.streak = IF ok THEN 0 ELSE Least(@ + 1, MaxStreak)]

\* Mutation: the time of the attempt is not taken down.
Done_NoTime(s, ok) ==
  [s EXCEPT !.inFlight = FALSE, !.streak = IF ok THEN 0 ELSE Least(@ + 1, MaxStreak)]

\* onFetchDone
Done(s, ok) ==
  [s EXCEPT !.inFlight = FALSE, !.age = 0, !.streak = IF ok THEN 0 ELSE Least(@ + 1, MaxStreak)]

\* What half a streak may be; of the longest, every length it stands for.
Halves(streak) == IF streak = MaxStreak THEN (streak \div 2)..streak ELSE {streak \div 2}

\* requestPriorityRetry
Grants(s) ==
  /\ ~s.inFlight /\ s.streak > 0 /\ ~s.pending
  /\ s.age >= MinSince
  /\ s.grant >= Cooldown

Granted(s) == [s EXCEPT !.grant = 0, !.pending = TRUE]

-----------------------------------------------------------------------------
(* The manager                                                             *)

FetchesOf(r) == {f \in fetches : f.repo = r}
Spare(r) == (1..MaxSpawn) \ {f.n : f \in FetchesOf(r)}
Fetch(r, by) == [repo |-> r, by |-> by, age |-> 0,
                 n |-> CHOOSE n \in Spare(r) : TRUE]

\* Mutation: one fetch more than the cap.
Slots_OffByOne == IF active <= Cap THEN Cap + 1 - active ELSE 0

\* How often the loop over the due repositories gets past its break.
Slots == IF active < Cap THEN Cap - active ELSE 0

\* syncRepos: what is gone is forgotten, what is new goes to the end.
Synced(rs) == [r \in roots |-> IF r \in DOMAIN rs THEN rs[r] ELSE NewRepo]

Before(keys, r, q) == \E i, j \in DOMAIN keys : i < j /\ keys[i] = r /\ keys[j] = q

\* The Map's order: what stays keeps its place, in front of what is new.
InInsertionOrder(keys) ==
  \A r, q \in roots :
    Before(order, r, q) \/ (r \in TrackedRepos /\ q \notin TrackedRepos)
    => Before(keys, r, q)

\* runTick on the states rs, with the fetches under way aged to fs: the first of
\* the repositories that are due, in insertion order, until the slots are used.
RunTick(rs, fs) ==
  IF ~visible
  THEN repos' = rs /\ fetches' = fs /\ UNCHANGED <<order, active>>
  ELSE LET synced == Synced(rs)
           due == {r \in roots : Due(synced[r])} IN
       \E keys \in SetToSeqs(roots), run \in SUBSET due :
         /\ InInsertionOrder(keys) /\ order' = keys
         /\ Cardinality(run) = Least(Cardinality(due), Slots)
         /\ \A r \in run, q \in due \ run : Before(keys, r, q)
         /\ \A r \in run : Spare(r) # {}
         /\ repos' = [r \in roots |-> IF r \in run THEN Started(synced[r]) ELSE synced[r]]
         /\ fetches' = fs \cup {Fetch(r, "timer") : r \in run}
         /\ active' = active + Cardinality(run)

\* The timer fires.  No fetch is older than its timeout, which kills it.
Tick ==
  /\ phase = "on"
  /\ \A f \in fetches : f.age < FetchTimeout
  /\ RunTick([r \in TrackedRepos |-> Older(repos[r])], {[f EXCEPT !.age = @ + 1] : f \in fetches})
  /\ UNCHANGED <<phase, window, visible, roots, clicks>>

\* handleRepoFocused, where a retry is granted; a refusal changes nothing.
Focus(r) ==
  /\ phase = "on"
  /\ r \in TrackedRepos /\ Grants(repos[r])
  /\ RunTick([repos EXCEPT ![r] = Granted(@)], fetches)
  /\ UNCHANGED <<phase, window, visible, roots, clicks>>

\* fetchNow: a click on the badge of any repository.
FetchNow(r) ==
  /\ phase # "disposed" /\ clicks < MaxClicks
  /\ r \in TrackedRepos => ~repos[r].inFlight
  /\ Spare(r) # {}
  /\ repos' = IF r \in TrackedRepos THEN [repos EXCEPT ![r] = Started(@)] ELSE repos
  /\ fetches' = fetches \cup {Fetch(r, "user")}
  /\ active' = active + 1 /\ clicks' = clicks + 1
  /\ UNCHANGED <<phase, window, visible, roots, order>>

\* Mutation: a fetch whose repository is no longer tracked is not counted out.
Settle_KeepSlot(f, ok) ==
  /\ f \in fetches
  /\ fetches' = fetches \ {f}
  /\ active' = IF f.repo \in TrackedRepos THEN active - 1 ELSE active
  /\ repos' = IF f.repo \in TrackedRepos THEN [repos EXCEPT ![f.repo] = Done(@, ok)] ELSE repos
  /\ UNCHANGED <<phase, window, visible, roots, order, clicks>>

\* runScheduledFetch and fetchNow after the await, disposed or not.
Settle(f, ok) ==
  /\ f \in fetches
  /\ fetches' = fetches \ {f}
  /\ active' = active - 1
  /\ repos' = IF f.repo \in TrackedRepos THEN [repos EXCEPT ![f.repo] = Done(@, ok)] ELSE repos
  /\ UNCHANGED <<phase, window, visible, roots, order, clicks>>

\* The window's state is told to the scheduler of before, and then start() makes
\* a new one, which takes the window for shown until its first event, unless the
\* kill switch parks the loop.
Start(parked) ==
  /\ phase = "launch"
  /\ phase' = IF parked THEN "parked" ELSE "on"
  /\ visible' = IF parked THEN window ELSE TRUE
  /\ UNCHANGED <<window, roots, order, repos, fetches, active, clicks>>

\* show, hide, minimize and restore: setAppVisible halves the streaks on an edge.
Window(shown) ==
  /\ phase # "launch"
  /\ window' = shown /\ visible' = shown
  /\ IF shown /\ ~visible
     THEN \E half \in [TrackedRepos -> 0..MaxStreak] :
            /\ \A r \in TrackedRepos : half[r] \in Halves(repos[r].streak)
            /\ repos' = [r \in TrackedRepos |-> [repos[r] EXCEPT !.streak = half[r]]]
     ELSE UNCHANGED repos
  /\ UNCHANGED <<phase, roots, order, fetches, active, clicks>>

Dispose ==
  /\ phase # "disposed" /\ phase' = "disposed"
  /\ UNCHANGED <<window, visible, roots, order, repos, fetches, active, clicks>>

\* A repository gains its first or loses its last directory in use.
Opens(r) ==
  r \notin roots /\ roots' = roots \cup {r}
  /\ UNCHANGED <<phase, window, visible, order, repos, fetches, active, clicks>>
Closes(r) ==
  r \in roots /\ roots' = roots \ {r}
  /\ UNCHANGED <<phase, window, visible, order, repos, fetches, active, clicks>>

Next ==
  \/ Tick \/ Dispose
  \/ \E b \in BOOLEAN : Start(b) \/ Window(b)
  \/ \E r \in Repo : Focus(r) \/ FetchNow(r) \/ Opens(r) \/ Closes(r)
  \/ \E f \in fetches, ok \in BOOLEAN : Settle(f, ok)

\* The timer keeps firing and every fetch ends, at the latest by its timeout.
Fairness ==
  /\ WF_vars(Tick)
  /\ \A r \in Repo, n \in 1..MaxSpawn :
       WF_vars(\E f \in fetches, ok \in BOOLEAN : f.repo = r /\ f.n = n /\ Settle(f, ok))

Spec == Init /\ [][Next]_vars
FairSpec == Spec /\ Fairness

-----------------------------------------------------------------------------
(* Properties                                                              *)

TimerFetches == {f \in fetches : f.by = "timer"}

\* The loop's own fetches never exceed the cap, whatever clicks, repositories
\* that come and go and failures do to the count the loop reads.
CapKept == Cardinality(TimerFetches) <= Cap

\* A repository the scheduler takes to be in flight has a fetch under way, so no
\* mark is left behind that would keep it from being fetched for ever.
InFlightHonest == \A r \in TrackedRepos : repos[r].inFlight => FetchesOf(r) # {}

\* A tick in a visible window leaves no granted retry, and no repository past its
\* gap, waiting beside a free slot: no slot leaks and no grant is lost.
WorkConserving ==
  [][Tick /\ visible =>
       \/ Cardinality(fetches') >= Cap
       \/ \A r \in DOMAIN repos' : LET s == repos'[r] IN
            s.inFlight \/ ~(s.pending \/ s.age >= Gap(s.streak))]_vars

\* A repository in use is fetched again and again while the window is visible,
\* however often the others fail, come back or are granted a retry.
NoStarvation ==
  \A r \in Repo : []<>(phase # "on" \/ ~visible \/ r \notin roots \/ FetchesOf(r) # {})

=============================================================================
