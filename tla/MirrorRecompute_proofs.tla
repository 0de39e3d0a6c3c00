----------------------- MODULE MirrorRecompute_proofs -----------------------
(***************************************************************************)
(* The recompute loop, for any finite set of directories, any budget and   *)
(* any number of changes, refreshes and failures: no trigger is lost, so a *)
(* directory at rest has a current snapshot, in the worker and (unless its *)
(* watcher was opened by a user-driven recompute) in the router, which     *)
(* never goes back to an older one.                                        *)
(***************************************************************************)
EXTENDS MirrorRecompute, FiniteSetTheorems, TLAPS

\* The governor's count is exact, and the bound on what happens bounds the
\* versions.
Busy == {c \in Cwd : run[c] # Idle}
Counted == running = Cardinality(Busy)
Bounded == \A c \in Cwd : data[c] <= pokes + 1 /\ gen[c] <= pokes

\* What git status has read is a version there was, a failure or nothing yet;
\* nobody waits behind an idle entry.
Entry(c) ==
  /\ run[c].seen # None.data /\ run[c].seen <= data[c] /\ run[c].gen <= gen[c]
  /\ queued[c] => run[c] # Idle

Reads(c) == run[c] # Idle /\ run[c].gen = gen[c] /\ run[c].seen \in {NotYet, data[c]}

\* No trigger is lost.  A deferred one counts while nothing runs: whatever is
\* started next reads the directory afterwards, also when the timer's own rerun
\* then finds it busy and is dropped.
NotLost(c) ==
  watch[c] = "live" /\ ~excused[c] =>
    \/ event[c] \/ debounce[c] \/ queued[c]
    \/ Reads(c)
    \/ run[c] = Idle /\ (retry[c] # NoRetry \/ state[c] = Truth(c))

\* What the router has been told, or will be, and the last of it.
LastTold(c) ==
  /\ (\A i \in 1..Len(channel) : channel[i].cwd # c) => latest[c] = state[c]
  /\ \A i \in 1..Len(channel) :
       channel[i].cwd = c /\ (\A j \in i+1..Len(channel) : channel[j].cwd # c)
         => channel[i].snap = state[c]

\* The snapshots of the router and those on the way come in the order of what
\* they saw, and none is newer than the repository or what is being read.
InOrder(s, t) ==
  /\ s.gen <= t.gen
  /\ s.data > 0 /\ t.data > 0 => s.data <= t.data
Ordered(c) ==
  /\ \A i \in 1..Len(channel) : channel[i].cwd = c => InOrder(latest[c], channel[i].snap)
  /\ \A i \in 1..Len(channel) : \A j \in i+1..Len(channel) :
       channel[i].cwd = c /\ channel[j].cwd = c => InOrder(channel[i].snap, channel[j].snap)
NotNewer(c, s) ==
  /\ s.data <= data[c] /\ s.gen <= gen[c]
  /\ run[c] # Idle => s.gen <= run[c].gen
  /\ run[c].seen > 0 => s.data <= run[c].seen
ToldInOrder(c) ==
  /\ Ordered(c)
  /\ NotNewer(c, latest[c])
  /\ \A i \in 1..Len(channel) : channel[i].cwd = c => NotNewer(c, channel[i].snap)

\* A directory no emission of which has waited for a reattach: its snapshots are
\* emitted as they are taken.
Plain == Cwd \ reattached
Told(c) == tail[c] = NoTail /\ LastTold(c) /\ ToldInOrder(c)

\* The inductive invariant.
IInv ==
  /\ TypeOK /\ Counted /\ Bounded
  /\ \A c \in Cwd : Entry(c) /\ NotLost(c)
  /\ \A c \in Plain : Told(c)

-----------------------------------------------------------------------------
(* Types *)

Snaps == Snapshots \cup {None}
Recomputes == {Idle} \cup [why : Reasons, gen : 0..MaxPoke, seen : NotYet..Versions, inner : BOOLEAN]
Retries == {NoRetry} \cup [why : Reasons, queue : BOOLEAN]
Tails == [phase : {"none", "opening", "inner", "ready"}, snap : Snaps]
Updates == [cwd : Cwd, snap : Snapshots]

RunTyped == run \in [Cwd -> Recomputes] /\ queued \in [Cwd -> BOOLEAN]
RetryTyped == retry \in [Cwd -> Retries]
RepoTyped == data \in [Cwd -> 0..Versions] /\ gen \in [Cwd -> 0..MaxPoke] /\ pokes \in 0..MaxPoke
WatchTyped ==
  /\ event \in [Cwd -> BOOLEAN] /\ watch \in [Cwd -> {"none", "opening", "live"}]
  /\ debounce \in [Cwd -> BOOLEAN]
  /\ attached \in [Cwd -> BOOLEAN] /\ excused \in [Cwd -> BOOLEAN]
ClockTyped == yield \in [Cwd -> {"no", "busy", "grace"}] /\ floor \in [Cwd -> BOOLEAN]
SnapTyped ==
  /\ state \in [Cwd -> Snaps] /\ latest \in [Cwd -> Snaps]
  /\ tail \in [Cwd -> Tails] /\ channel \in Seq(Updates)
Typed == RunTyped /\ RetryTyped /\ RepoTyped /\ WatchTyped /\ ClockTyped /\ SnapTyped

LEMMA TypeSplit == TypeOK <=> Typed /\ running \in 0..Cardinality(Cwd)
BY DEF TypeOK, Typed, RunTyped, RetryTyped, RepoTyped, WatchTyped, ClockTyped, SnapTyped,
       Snaps, Recomputes, Retries, Tails, Updates

LEMMA ConstantTypes ==
  /\ IsFiniteSet(Cwd) /\ Cardinality(Cwd) \in Nat
  /\ MaxPoke \in Nat /\ Versions \in Nat /\ Versions = MaxPoke + 1
BY ConstantsAssumption, FS_CardinalityType DEF Versions

LEMMA BusyFinite ==
  IsFiniteSet(Busy) /\ Cardinality(Busy) \in Nat /\ Cardinality(Busy) <= Cardinality(Cwd)
BY ConstantTypes, FS_Subset, FS_CardinalityType DEF Busy

LEMMA RunningTyped == Counted => running \in 0..Cardinality(Cwd)
BY BusyFinite, ConstantTypes DEF Counted

-----------------------------------------------------------------------------
(* A step of one directory leaves the others alone *)

Slice(c) == <<data[c], gen[c], event[c], watch[c], run[c], state[c], queued[c], debounce[c],
              retry[c], tail[c], attached[c], excused[c]>>
Alone(c) == \A d \in Cwd \ {c} : Slice(d)' = Slice(d)

\* What the router has been told stays true of what moves on.
MovesOn(c) ==
  /\ data[c] <= data'[c] /\ gen[c] <= gen'[c]
  /\ \/ run'[c] = run[c]
     \/ run'[c] = Idle
     \/ run'[c].gen >= gen[c] /\ run'[c].seen = NotYet
     \/ run[c] # Idle /\ run'[c].gen = run[c].gen /\ run'[c].seen \in {data[c], 0, Unknown}

LEMMA AliveValues ==
  ASSUME Typed, NEW c \in Cwd
  PROVE  /\ data[c] \in Nat /\ gen[c] \in Nat /\ run[c].gen \in Nat /\ run[c].seen \in Int
         /\ state[c].data \in Int /\ state[c].gen \in Int
         /\ latest[c].data \in Int /\ latest[c].gen \in Int
BY ConstantTypes DEF Typed, RepoTyped, RunTyped, SnapTyped, Recomputes, Idle, Snaps, Snapshots,
   None, Unknown, NotYet

LEMMA Assemble ==
  ASSUME IInv, NEW c \in Cwd, Alone(c), Typed', Counted', Bounded', Entry(c)', NotLost(c)',
         \A d \in Plain' : Told(d)'
  PROVE  IInv'
<1>1. TypeOK'
  BY TypeSplit, RunningTyped, PTL
<1>2. ASSUME NEW d \in Cwd PROVE Entry(d)' /\ NotLost(d)'
  <2>1. CASE d = c
    BY <2>1
  <2>2. CASE d # c
    BY <2>2 DEF Alone, Slice, IInv, Entry, NotLost, Reads, Truth
  <2> QED BY <2>1, <2>2
<1> QED BY <1>1, <1>2 DEF IInv

LEMMA NotNewerKept ==
  ASSUME Typed, Typed', NEW d \in Cwd, MovesOn(d), NEW s \in Snaps, NotNewer(d, s)
  PROVE  NotNewer(d, s)'
<1>1. s.data \in Int /\ s.gen \in Int
  BY ConstantTypes DEF Snaps, Snapshots, None, Unknown
<1>2. data[d] \in Nat /\ gen[d] \in Nat /\ run[d].gen \in Nat /\ run[d].seen \in Int
  BY AliveValues
<1>3. data'[d] \in Nat /\ gen'[d] \in Nat /\ run'[d].gen \in Nat /\ run'[d].seen \in Int
  BY ConstantTypes DEF Typed, RepoTyped, RunTyped, Recomputes, Idle, NotYet
<1> QED BY <1>1, <1>2, <1>3 DEF NotNewer, MovesOn, Idle, NotYet, Unknown

\* A directory stays an exception.
LEMMA PlainBefore == History => Plain' \subseteq Plain
BY DEF History, Plain

\* A step that tells the router nothing.
LEMMA ToldQuietly ==
  ASSUME IInv, History, Typed', channel' = channel, latest' = latest, state' = state,
         \A d \in Cwd : MovesOn(d) /\ (tail[d] = NoTail => tail'[d] = NoTail)
  PROVE  \A d \in Plain' : Told(d)'
<1>1. Typed
  BY TypeSplit DEF IInv
<1> SUFFICES ASSUME NEW d \in Plain' PROVE Told(d)'
  OBVIOUS
<1>2. d \in Cwd /\ LastTold(d) /\ ToldInOrder(d) /\ tail'[d] = NoTail
  BY PlainBefore DEF IInv, Plain, Told
<1>3. LastTold(d)'
  BY <1>2 DEF LastTold
<1>4. Ordered(d)'
  BY <1>2 DEF ToldInOrder, Ordered
<1>5. NotNewer(d, latest[d])'
  <2>1. latest[d] \in Snaps /\ NotNewer(d, latest[d])
    BY <1>1, <1>2 DEF Typed, SnapTyped, ToldInOrder
  <2> HIDE DEF NotNewer
  <2>2. \A s \in Snaps : NotNewer(d, s) => NotNewer(d, s)'
    BY <1>1, <1>2, NotNewerKept
  <2> QED BY <2>1, <2>2 DEF NotNewer
<1>6. ASSUME NEW i \in 1..Len(channel), channel[i].cwd = d
      PROVE  NotNewer(d, channel[i].snap)'
  <2>0. channel[i] \in Updates
    BY <1>1 DEF Typed, SnapTyped
  <2>1. channel[i].snap \in Snaps /\ NotNewer(d, channel[i].snap)
    BY <2>0, <1>2, <1>6 DEF ToldInOrder, Updates, Snaps
  <2>2. \A s \in Snaps : NotNewer(d, s) => NotNewer(d, s)'
    BY <1>1, <1>2, NotNewerKept
  <2> QED BY <2>1, <2>2 DEF NotNewer
<1> QED BY <1>2, <1>3, <1>4, <1>5, <1>6 DEF Told, ToldInOrder

-----------------------------------------------------------------------------
(* What asking for a recompute does: it waits for the governor, joins the   *)
(* queue behind the one in flight, or begins                                *)

Waits(c) ==
  /\ run[c] = Idle /\ run' = run /\ queued' = queued /\ running' = running
  /\ retry'[c] # NoRetry
Joins(c, queue) ==
  /\ run[c] # Idle /\ run' = run /\ running' = running
  /\ queued'[c] = (queued[c] \/ queue)
Begins(c, why, g) ==
  /\ run[c] = Idle /\ queued' = queued
  /\ run'[c] # Idle /\ run'[c].why = why /\ run'[c].gen = g /\ run'[c].seen = NotYet
Asked(c) ==
  /\ run' \in [Cwd -> Recomputes] /\ queued' \in [Cwd -> BOOLEAN] /\ Counted'
  /\ \A d \in Cwd \ {c} : run'[d] = run[d] /\ queued'[d] = queued[d]

LEMMA BusyGrows ==
  ASSUME Counted, NEW c \in Cwd, run[c] = Idle, run'[c] # Idle, running' = running + 1,
         \A d \in Cwd \ {c} : run'[d] = run[d]
  PROVE  Counted'
<1>1. Busy' = Busy \cup {c} /\ c \notin Busy
  BY DEF Busy
<1>2. Cardinality(Busy \cup {c}) = Cardinality(Busy) + 1
  BY <1>1, BusyFinite, FS_AddElement
<1> QED BY <1>1, <1>2 DEF Counted

LEMMA BusyShrinks ==
  ASSUME Counted, NEW c \in Cwd, run[c] # Idle, run'[c] = Idle,
         running' = (IF running = 0 THEN 0 ELSE running - 1),
         \A d \in Cwd \ {c} : run'[d] = run[d]
  PROVE  Counted'
<1>1. Busy' = Busy \ {c} /\ c \in Busy
  BY DEF Busy
<1>2. Cardinality(Busy \ {c}) = Cardinality(Busy) - 1
  BY <1>1, BusyFinite, FS_RemoveElement
<1>3. Cardinality(Busy) # 0
  BY <1>1, BusyFinite, FS_EmptySet
<1> QED BY <1>1, <1>2, <1>3, BusyFinite DEF Counted

LEMMA BusySame ==
  ASSUME Counted, running' = running, \A c \in Cwd : run'[c] = Idle <=> run[c] = Idle
  PROVE  Counted'
<1>1. Busy' = Busy
  BY DEF Busy
<1> QED BY <1>1 DEF Counted

LEMMA QueueOrStartAsks ==
  ASSUME Typed, Counted, NEW c \in Cwd, NEW why \in Reasons, NEW queue \in BOOLEAN,
         NEW g \in 0..MaxPoke, NEW inner \in BOOLEAN, QueueOrStart(c, why, queue, g, inner)
  PROVE  Asked(c) /\ (Joins(c, queue) \/ Begins(c, why, g))
<1>0. run \in [Cwd -> Recomputes] /\ queued \in [Cwd -> BOOLEAN]
  BY DEF Typed, RunTyped
<1>1. CASE run[c] # Idle
  <2>1. run' = run /\ running' = running /\ queued' = [queued EXCEPT ![c] = queued[c] \/ queue]
    BY <1>1 DEF QueueOrStart
  <2>2. (queued[c] \/ queue) \in BOOLEAN
    OBVIOUS
  <2>3. queued' \in [Cwd -> BOOLEAN] /\ queued'[c] = (queued[c] \/ queue)
        /\ \A d \in Cwd \ {c} : queued'[d] = queued[d]
    BY <2>1, <2>2, <1>0, Zenon
  <2>4. Counted'
    BY <2>1, BusySame
  <2> QED BY <2>1, <2>3, <2>4, <1>0, <1>1 DEF Asked, Joins
<1>2. CASE run[c] = Idle
  <2> DEFINE x == [why |-> why, gen |-> g, seen |-> NotYet, inner |-> inner]
  <2>1. run' = [run EXCEPT ![c] = x] /\ running' = running + 1 /\ queued' = queued
    BY <1>2 DEF QueueOrStart
  <2>2. x \in Recomputes /\ x # Idle /\ x.why = why /\ x.gen = g /\ x.seen = NotYet
    <3>1. NotYet \in NotYet..Versions /\ "idle" \notin Reasons
      BY ConstantTypes DEF NotYet, Reasons
    <3> QED BY <3>1 DEF Recomputes, Idle
  <2> HIDE DEF x
  <2>3. run' \in [Cwd -> Recomputes] /\ run'[c] = x /\ \A d \in Cwd \ {c} : run'[d] = run[d]
    BY <2>1, <2>2, <1>0, Zenon
  <2>4. Counted'
    BY <2>1, <2>2, <2>3, <1>2, BusyGrows
  <2> QED BY <2>1, <2>2, <2>3, <2>4, <1>0, <1>2 DEF Asked, Begins
<1> QED BY <1>1, <1>2

LEMMA RunAsks ==
  ASSUME Typed, Counted, NEW c \in Cwd, NEW why \in Reasons, NEW queue \in BOOLEAN,
         NEW g \in 0..MaxPoke, NEW inner \in BOOLEAN, Run(c, why, queue, g, inner)
  PROVE  /\ Asked(c) /\ RetryTyped'
         /\ \A d \in Cwd \ {c} : retry'[d] = retry[d]
         /\ \/ Waits(c) /\ Deferred(c, why)
            \/ retry' = retry /\ (Joins(c, queue) \/ Begins(c, why, g))
<1>0. run \in [Cwd -> Recomputes] /\ queued \in [Cwd -> BOOLEAN] /\ retry \in [Cwd -> Retries]
  BY DEF Typed, RunTyped, RetryTyped
<1>1. CASE run[c] = Idle /\ Deferred(c, why)
  <2> DEFINE x == [why |-> why, queue |-> queue]
  <2>1. /\ run' = run /\ queued' = queued /\ running' = running
        /\ retry' = IF retry[c] = NoRetry THEN [retry EXCEPT ![c] = x] ELSE retry
    BY <1>1 DEF Run
  <2>2. x \in Retries /\ x # NoRetry
    BY DEF Retries, NoRetry, Reasons
  <2> HIDE DEF x
  <2>3. /\ retry' \in [Cwd -> Retries] /\ retry'[c] # NoRetry
        /\ \A d \in Cwd \ {c} : retry'[d] = retry[d]
    BY <2>1, <2>2, <1>0
  <2>4. Counted'
    BY <2>1, BusySame
  <2> QED BY <2>1, <2>3, <2>4, <1>0, <1>1 DEF Asked, Waits, RetryTyped
<1>2. CASE ~(run[c] = Idle /\ Deferred(c, why))
  <2>1. retry' = retry /\ QueueOrStart(c, why, queue, g, inner)
    BY <1>2 DEF Run
  <2> QED BY <2>1, <1>0, QueueOrStartAsks DEF RetryTyped
<1> QED BY <1>1, <1>2

\* What the user asks for is never deferred.
LEMMA UserNotDeferred == \A c \in Cwd : ~Deferred(c, "attach") /\ ~Deferred(c, "focus-resync")
BY DEF Deferred, Kind

LEMMA DeferredTrigger ==
  ASSUME Typed, NEW c \in Cwd, retry[c] # NoRetry
  PROVE  retry[c].why \in Reasons /\ retry[c].queue \in BOOLEAN
BY DEF Typed, RetryTyped, Retries

\* The entry of c is left as it was, or a recompute begins with the current generation.
Outcome(c) ==
  \/ run' = run /\ (queued'[c] => queued[c] \/ run[c] # Idle)
  \/ /\ run[c] = Idle /\ queued' = queued
     /\ run'[c] # Idle /\ run'[c].gen = gen'[c] /\ run'[c].seen = NotYet

LEMMA AskedOutcome ==
  ASSUME NEW c \in Cwd, NEW why, NEW queue \in BOOLEAN,
         Waits(c) \/ Joins(c, queue) \/ Begins(c, why, gen'[c])
  PROVE  Outcome(c)
BY DEF Waits, Joins, Begins, Outcome

\* A trigger that may be queued is never lost.
LEMMA AskedIsRead ==
  ASSUME NEW c \in Cwd, NEW why, Waits(c) \/ Joins(c, TRUE) \/ Begins(c, why, gen'[c])
  PROVE  NotLost(c)'
BY DEF Waits, Joins, Begins, NotLost, Reads

\* The other variables of a step that asks for a recompute of c.
Around(c) ==
  /\ data' = data /\ state' = state /\ channel' = channel /\ latest' = latest
  /\ excused' = excused /\ yield' = yield /\ floor' = floor
  /\ gen[c] <= gen'[c]
  /\ \A d \in Cwd \ {c} :
       /\ gen'[d] = gen[d] /\ event'[d] = event[d] /\ watch'[d] = watch[d]
       /\ debounce'[d] = debounce[d] /\ tail'[d] = tail[d] /\ attached'[d] = attached[d]
       /\ retry'[d] = retry[d]

LEMMA AskStep ==
  ASSUME IInv, History, NEW c \in Cwd, Asked(c), Outcome(c), Around(c),
         RepoTyped', RetryTyped', WatchTyped', tail' \in [Cwd -> Tails], Bounded',
         NotLost(c)', tail[c] = NoTail => tail'[c] = NoTail
  PROVE  IInv'
<1>0. Typed /\ Counted
  BY TypeSplit DEF IInv
<1>1. Typed'
  BY <1>0 DEF Typed, Asked, Around, RunTyped, ClockTyped, SnapTyped
<1>2. Alone(c)
  BY DEF Alone, Slice, Asked, Around
<1>3. Entry(c)'
  <2>1. Entry(c) /\ gen[c] \in Nat /\ gen'[c] \in Nat /\ data[c] \in Nat /\ run[c].gen \in Nat
        /\ gen[c] <= gen'[c] /\ data' = data
    BY <1>0, <1>1, ConstantTypes, AliveValues DEF IInv, Around, Typed, RepoTyped
  <2> QED BY <2>1 DEF Entry, Outcome, None, NotYet
<1>4. ASSUME NEW d \in Cwd PROVE MovesOn(d)
  <2>1. /\ data[d] \in Nat /\ gen[d] \in Nat /\ gen[d] <= gen'[d] /\ data'[d] = data[d]
        /\ gen'[d] \in Nat
    BY <1>0, <1>1, ConstantTypes, AliveValues DEF Around, Typed, RepoTyped
  <2> QED BY <2>1 DEF MovesOn, Outcome, Asked
<1>5. \A d \in Plain' : Told(d)'
  BY <1>1, <1>4, ToldQuietly DEF Around
<1>6. Counted'
  BY DEF Asked
<1> QED BY <1>1, <1>2, <1>3, <1>5, <1>6, Assemble

-----------------------------------------------------------------------------
(* The triggers *)

LEMMA AttachStep == ASSUME IInv, History, NEW c \in Cwd, Attach(c) PROVE IInv'
<1>0. Typed /\ Counted /\ gen[c] \in 0..MaxPoke
  BY TypeSplit DEF IInv, Typed, RepoTyped
<1>1. /\ Asked(c) /\ RetryTyped' /\ \A d \in Cwd \ {c} : retry'[d] = retry[d]
  BY <1>0, RunAsks DEF Attach, Reasons
<1>2. retry' = retry /\ (Joins(c, TRUE) \/ Begins(c, "attach", gen[c]))
  BY <1>0, RunAsks, UserNotDeferred DEF Attach, Reasons
<1>3. gen' = gen
  BY DEF Attach
<1>4. Outcome(c) /\ NotLost(c)'
  BY <1>2, <1>3, AskedOutcome, AskedIsRead
<1>5. Around(c) /\ RepoTyped' /\ WatchTyped' /\ tail' \in [Cwd -> Tails] /\ Bounded'
  BY <1>0, <1>1 DEF Attach, Around, Typed, RepoTyped, WatchTyped, SnapTyped, IInv, Bounded
<1>6. tail[c] = NoTail => tail'[c] = NoTail
  BY DEF Attach
<1> QED BY <1>1, <1>4, <1>5, <1>6, AskStep

LEMMA DebounceFiresStep == ASSUME IInv, History, NEW c \in Cwd, DebounceFires(c) PROVE IInv'
<1>0. Typed /\ Counted /\ gen[c] \in 0..MaxPoke
  BY TypeSplit DEF IInv, Typed, RepoTyped
<1>1. /\ Asked(c) /\ RetryTyped' /\ \A d \in Cwd \ {c} : retry'[d] = retry[d]
      /\ Waits(c) \/ Joins(c, TRUE) \/ Begins(c, "watcher", gen[c])
  BY <1>0, RunAsks DEF DebounceFires, Reasons
<1>3. gen' = gen
  BY DEF DebounceFires
<1>4. Outcome(c) /\ NotLost(c)'
  BY <1>1, <1>3, AskedOutcome, AskedIsRead
<1>5. Around(c) /\ RepoTyped' /\ WatchTyped' /\ tail' \in [Cwd -> Tails] /\ Bounded'
  BY <1>0, <1>1 DEF DebounceFires, Around, Typed, RepoTyped, WatchTyped, SnapTyped, IInv, Bounded
<1>6. tail[c] = NoTail => tail'[c] = NoTail
  BY DEF DebounceFires
<1> QED BY <1>1, <1>4, <1>5, <1>6, AskStep

LEMMA RetryFiresStep == ASSUME IInv, History, NEW c \in Cwd, RetryFires(c) PROVE IInv'
<1> DEFINE r == retry[c]
<1>0. Typed /\ Counted /\ gen[c] \in 0..MaxPoke
  BY TypeSplit DEF IInv, Typed, RepoTyped
<1>1. r # NoRetry /\ r.why \in Reasons /\ r.queue \in BOOLEAN
  BY <1>0, DeferredTrigger DEF RetryFires
<1>2. Asked(c) /\ (Joins(c, r.queue) \/ Begins(c, r.why, gen[c]))
  BY <1>0, <1>1, QueueOrStartAsks DEF RetryFires
<1>3. gen' = gen /\ retry' = [retry EXCEPT ![c] = NoRetry] /\ retry \in [Cwd -> Retries]
  BY <1>0 DEF RetryFires, Typed, RetryTyped
<1>4. RetryTyped' /\ \A d \in Cwd \ {c} : retry'[d] = retry[d]
  BY <1>3 DEF Retries, RetryTyped
<1>5. Outcome(c)
  BY <1>1, <1>2, <1>3, AskedOutcome
<1>6. Around(c) /\ RepoTyped' /\ WatchTyped' /\ tail' \in [Cwd -> Tails] /\ Bounded'
  BY <1>0, <1>4 DEF RetryFires, Around, Typed, RepoTyped, WatchTyped, SnapTyped, IInv, Bounded
<1>7. NotLost(c)'
  <2>1. NotLost(c) /\ UNCHANGED <<data, gen, event, watch, debounce, state, excused>>
    BY DEF RetryFires, IInv
  <2>2. CASE Joins(c, r.queue)
    BY <2>1, <2>2 DEF Joins, NotLost, Reads
  <2>3. CASE Begins(c, r.why, gen[c])
    BY <2>1, <2>3 DEF Begins, NotLost, Reads
  <2> QED BY <1>2, <2>2, <2>3
<1>8. tail[c] = NoTail => tail'[c] = NoTail
  BY DEF RetryFires
<1> QED BY <1>2, <1>4, <1>5, <1>6, <1>7, <1>8, AskStep

LEMMA BackgroundStep ==
  ASSUME IInv, History, NEW c \in Cwd, NEW why \in {"reconcile", "polling"}, Background(c, why)
  PROVE  IInv'
<1>0. Typed /\ Counted /\ gen[c] \in 0..MaxPoke /\ why \in Reasons
  BY TypeSplit DEF IInv, Typed, RepoTyped, Reasons
<1>1. /\ Asked(c) /\ RetryTyped' /\ \A d \in Cwd \ {c} : retry'[d] = retry[d]
      /\ Waits(c) \/ (retry' = retry /\ (Joins(c, FALSE) \/ Begins(c, why, gen[c])))
  <2>1. Run(c, why, FALSE, gen[c], FALSE)
    BY DEF Background
  <2> QED BY <1>0, <2>1, RunAsks
<1>3. gen' = gen
  BY DEF Background
<1>4. Outcome(c)
  BY <1>1, <1>3, AskedOutcome
<1>5. Around(c) /\ RepoTyped' /\ WatchTyped' /\ tail' \in [Cwd -> Tails] /\ Bounded'
  BY <1>0, <1>1 DEF Background, Around, Typed, RepoTyped, WatchTyped, SnapTyped, IInv, Bounded
<1>6. NotLost(c)'
  <2>1. NotLost(c) /\ UNCHANGED <<data, gen, event, watch, debounce, state, excused>>
    BY DEF Background, IInv
  <2> QED BY <2>1, <1>1 DEF Waits, Joins, Begins, NotLost, Reads
<1>7. tail[c] = NoTail => tail'[c] = NoTail
  BY DEF Background
<1> QED BY <1>1, <1>4, <1>5, <1>6, <1>7, AskStep

LEMMA RevalidateStep == ASSUME IInv, History, NEW c \in Cwd, Revalidate(c) PROVE IInv'
<1>0. Typed /\ Counted /\ gen[c] \in 0..MaxPoke
  BY TypeSplit DEF IInv, Typed, RepoTyped
<1>1. /\ Asked(c) /\ RetryTyped' /\ \A d \in Cwd \ {c} : retry'[d] = retry[d]
      /\ Waits(c) \/ (retry' = retry /\ (Joins(c, TRUE) \/ Begins(c, "reconcile", gen[c])))
  <2>1. Run(c, "reconcile", TRUE, gen[c], FALSE) /\ "reconcile" \in Reasons
    BY DEF Revalidate, Reasons
  <2> QED BY <1>0, <2>1, RunAsks
<1>3. gen' = gen
  BY DEF Revalidate
<1>4. Outcome(c) /\ NotLost(c)'
  BY <1>1, <1>3, AskedOutcome, AskedIsRead
<1>5. Around(c) /\ RepoTyped' /\ WatchTyped' /\ tail' \in [Cwd -> Tails] /\ Bounded'
  BY <1>0, <1>1 DEF Revalidate, Around, Typed, RepoTyped, WatchTyped, SnapTyped, IInv, Bounded
<1>6. tail[c] = NoTail => tail'[c] = NoTail
  BY DEF Revalidate
<1> QED BY <1>1, <1>4, <1>5, <1>6, AskStep

LEMMA FocusResyncStep == ASSUME IInv, History, NEW c \in Cwd, FocusResync(c) PROVE IInv'
<1>0. /\ Typed /\ Counted /\ Bounded /\ gen[c] \in 0..MaxPoke /\ pokes \in 0..MaxPoke
      /\ MaxPoke \in Nat /\ gen[c] <= pokes
  BY TypeSplit, ConstantTypes DEF IInv, Typed, RepoTyped, Bounded
<1>1. /\ pokes < MaxPoke /\ pokes' = pokes + 1 /\ gen[c] + 1 \in 0..MaxPoke
      /\ gen' = [gen EXCEPT ![c] = @ + 1] /\ gen'[c] = gen[c] + 1
  BY <1>0 DEF FocusResync, Poke, Typed, RepoTyped
<1>2. /\ Asked(c) /\ RetryTyped' /\ \A d \in Cwd \ {c} : retry'[d] = retry[d]
      /\ Waits(c) \/ (retry' = retry /\ (Joins(c, TRUE) \/ Begins(c, "focus-resync", gen'[c])))
  <2>1. Run(c, "focus-resync", TRUE, gen'[c], FALSE) /\ "focus-resync" \in Reasons
    BY <1>1 DEF FocusResync, Reasons
  <2> QED BY <1>0, <1>1, <2>1, RunAsks
<1>3. Outcome(c) /\ NotLost(c)'
  BY <1>2, AskedOutcome, AskedIsRead
<1>4. Around(c) /\ WatchTyped' /\ tail' \in [Cwd -> Tails]
  BY <1>0, <1>1, <1>2 DEF FocusResync, Around, Typed, RepoTyped, WatchTyped, SnapTyped
<1>5. RepoTyped' /\ Bounded'
  BY <1>0, <1>1, ConstantTypes DEF FocusResync, Typed, RepoTyped, Bounded
<1>6. tail[c] = NoTail => tail'[c] = NoTail
  BY DEF FocusResync
<1> QED BY <1>2, <1>3, <1>4, <1>5, <1>6, AskStep

LEMMA SubscribedStep == ASSUME IInv, History, NEW c \in Cwd, Subscribed(c) PROVE IInv'
<1> DEFINE why == IF tail[c].phase = "opening" THEN "watcher" ELSE "attach"
<1>0. Typed /\ Counted /\ gen[c] \in 0..MaxPoke /\ why \in Reasons
  BY TypeSplit DEF IInv, Typed, RepoTyped, Reasons
<1>1. /\ Asked(c) /\ RetryTyped' /\ \A d \in Cwd \ {c} : retry'[d] = retry[d]
      /\ Waits(c) \/ Joins(c, TRUE) \/ Begins(c, why, gen[c])
  BY <1>0, RunAsks DEF Subscribed
<1>2. gen' = gen /\ watch[c] = "opening" /\ watch' = [watch EXCEPT ![c] = "live"]
  BY DEF Subscribed
<1>3. Outcome(c) /\ NotLost(c)'
  BY <1>1, <1>2, AskedOutcome, AskedIsRead
<1>4. tail' \in [Cwd -> Tails] /\ (\A d \in Cwd \ {c} : tail'[d] = tail[d])
      /\ (tail[c] = NoTail => tail'[c] = NoTail)
  <2> DEFINE x(p) == [tail[c] EXCEPT !.phase = p]
  <2>1. tail \in [Cwd -> Tails]
    BY <1>0 DEF Typed, SnapTyped
  <2>2. \A p \in {"none", "opening", "inner", "ready"} : x(p) \in Tails
    BY <2>1 DEF Tails
  <2>3. tail[c].phase \in {"none", "opening", "inner", "ready"} /\ x(tail[c].phase) = tail[c]
    BY <2>1 DEF Tails
  <2>4. tail' = [tail EXCEPT ![c] =
          x(IF tail[c].phase = "opening" THEN (IF run' # run THEN "inner" ELSE "ready")
            ELSE tail[c].phase)]
    BY DEF Subscribed
  <2>5. tail[c] = NoTail => tail[c].phase # "opening"
    BY DEF NoTail
  <2> HIDE DEF x
  <2> QED BY <2>1, <2>2, <2>3, <2>4, <2>5
<1>5. Around(c) /\ RepoTyped' /\ WatchTyped' /\ Bounded'
  BY <1>0, <1>1, <1>4 DEF Subscribed, Around, Typed, RepoTyped, WatchTyped, IInv, Bounded
<1> QED BY <1>1, <1>3, <1>4, <1>5, AskStep

-----------------------------------------------------------------------------
(* Steps that neither ask for a recompute nor tell the router *)

LEMMA EventStep == ASSUME IInv, History, NEW c \in Cwd, Event(c) PROVE IInv'
<1>0. Typed /\ Counted /\ Bounded /\ Entry(c) /\ NotLost(c)
  BY TypeSplit DEF IInv
<1>1. Typed' /\ event'[c] = FALSE /\ debounce'[c] = TRUE
  BY <1>0 DEF Event, Typed, RunTyped, RetryTyped, RepoTyped, WatchTyped, ClockTyped, SnapTyped
<1>2. Alone(c) /\ Bounded' /\ Entry(c)' /\ NotLost(c)'
  BY <1>0, <1>1 DEF Event, Alone, Slice, Bounded, Entry, NotLost
<1>3. Counted'
  BY <1>0, BusySame DEF Event
<1>5. ASSUME NEW d \in Cwd PROVE MovesOn(d) /\ (tail[d] = NoTail => tail'[d] = NoTail)
  <2>1. data[d] \in Nat /\ gen[d] \in Nat
    BY <1>0, ConstantTypes, AliveValues
  <2> QED BY <2>1 DEF Event, MovesOn
<1>6. \A d \in Plain' : Told(d)'
  BY <1>1, <1>5, ToldQuietly DEF Event
<1> QED BY <1>1, <1>2, <1>3, <1>6, Assemble

LEMMA ChangeStep == ASSUME IInv, History, NEW c \in Cwd, Change(c) PROVE IInv'
<1>0. /\ Typed /\ Counted /\ Bounded /\ Entry(c) /\ MaxPoke \in Nat /\ Versions = MaxPoke + 1
      /\ data[c] \in Nat /\ data[c] <= pokes + 1 /\ pokes \in 0..MaxPoke /\ run[c].seen \in Int
  BY TypeSplit, ConstantTypes, AliveValues DEF IInv, Bounded, Typed, RepoTyped
<1>1. /\ pokes < MaxPoke /\ pokes' = pokes + 1 /\ data' = [data EXCEPT ![c] = @ + 1]
      /\ UNCHANGED <<gen, watch, run, state, queued, debounce, retry, running, yield, floor,
                     tail, channel, latest, attached>>
  BY DEF Change, Poke
<1>2. /\ event' \in [Cwd -> BOOLEAN] /\ excused' \in [Cwd -> BOOLEAN]
      /\ \A d \in Cwd \ {c} : event'[d] = event[d] /\ excused'[d] = excused[d]
      /\ watch[c] = "live" => event'[c] \/ excused'[c]
      /\ watch[c] # "live" => event'[c] = FALSE /\ excused'[c] = excused[c]
  <2>1. event \in [Cwd -> BOOLEAN] /\ excused \in [Cwd -> BOOLEAN]
    BY <1>0 DEF Typed, WatchTyped
  <2>2. CASE event' = [event EXCEPT ![c] = watch[c] = "live"] /\ UNCHANGED excused
    <3>1. (watch[c] = "live") \in BOOLEAN
      OBVIOUS
    <3>2. event'[c] = (watch[c] = "live") /\ event' \in [Cwd -> BOOLEAN]
      BY <2>1, <2>2, <3>1, Zenon
    <3> QED BY <2>1, <2>2, <3>2
  <2>3. CASE /\ watch[c] = "live" /\ excused' = [excused EXCEPT ![c] = TRUE] /\ UNCHANGED event
    BY <2>1, <2>3
  <2> QED BY <2>2, <2>3 DEF Change
<1>3. RepoTyped' /\ data'[c] = data[c] + 1 /\ \A d \in Cwd \ {c} : data'[d] = data[d]
  BY <1>0, <1>1 DEF Typed, RepoTyped
<1>4. Typed' /\ Bounded'
  <2>1. Typed'
    BY <1>0, <1>1, <1>2, <1>3 DEF Typed, RunTyped, RetryTyped, WatchTyped, ClockTyped, SnapTyped
  <2>2. \A d \in Cwd : data[d] \in Nat /\ gen[d] \in Nat
    BY <1>0, AliveValues
  <2> QED BY <2>1, <2>2, <1>0, <1>1, <1>3 DEF Bounded
<1>5. Alone(c) /\ Entry(c)' /\ NotLost(c)'
  BY <1>0, <1>1, <1>2, <1>3 DEF Alone, Slice, Entry, NotLost
<1>6. Counted'
  BY <1>0, <1>1, BusySame
<1>8. ASSUME NEW d \in Cwd PROVE MovesOn(d) /\ (tail[d] = NoTail => tail'[d] = NoTail)
  <2>1. data[d] \in Nat /\ gen[d] \in Nat /\ d \in Cwd
    BY <1>0, ConstantTypes, AliveValues
  <2> QED BY <2>1, <1>1, <1>3 DEF MovesOn
<1>9. \A d \in Plain' : Told(d)'
  BY <1>1, <1>4, <1>8, ToldQuietly
<1> QED BY <1>4, <1>5, <1>6, <1>9, Assemble

LEMMA SampleStep == ASSUME IInv, History, NEW c \in Cwd, Sample(c) PROVE IInv'
<1> DEFINE x(n) == [run[c] EXCEPT !.seen = n]
<1>0. /\ Typed /\ Counted /\ Bounded /\ Entry(c) /\ NotLost(c) /\ MaxPoke \in Nat
      /\ Versions = MaxPoke + 1 /\ data[c] \in 0..Versions /\ gen[c] \in Nat /\ run[c].gen \in Nat
      /\ pokes \in 0..MaxPoke /\ run[c] \in Recomputes /\ run[c] # Idle /\ run[c].seen = NotYet
  BY TypeSplit, ConstantTypes, AliveValues DEF IInv, Sample, Typed, RepoTyped, RunTyped
<1>1. PICK n \in {data[c], 0, Unknown} :
        /\ run' = [run EXCEPT ![c] = x(n)]
        /\ \/ n = data[c] /\ UNCHANGED <<pokes, excused>>
           \/ Poke /\ excused' = [excused EXCEPT ![c] = TRUE]
  BY DEF Sample
<1>2. /\ x(n) \in Recomputes /\ x(n) # Idle /\ x(n).seen = n /\ x(n).gen = run[c].gen
      /\ x(n).why = run[c].why
  <2>1. n \in NotYet..Versions
    BY <1>0 DEF NotYet, Unknown
  <2>2. run[c] \in [why : Reasons, gen : 0..MaxPoke, seen : NotYet..Versions, inner : BOOLEAN]
    BY <1>0 DEF Recomputes
  <2>3. "idle" \notin Reasons
    BY DEF Reasons
  <2> QED BY <2>1, <2>2, <2>3 DEF Recomputes, Idle
<1> HIDE DEF x
<1>3. run' \in [Cwd -> Recomputes] /\ run'[c] = x(n) /\ \A d \in Cwd \ {c} : run'[d] = run[d]
  BY <1>0, <1>1, <1>2, Zenon DEF Typed, RunTyped
<1>4. UNCHANGED <<data, gen, event, watch, state, queued, debounce, retry, running, yield,
                 floor, tail, channel, latest, attached>>
  BY DEF Sample
<1>5. /\ pokes' \in 0..MaxPoke /\ pokes <= pokes' /\ excused' \in [Cwd -> BOOLEAN]
      /\ (\A d \in Cwd \ {c} : excused'[d] = excused[d])
      /\ excused'[c] \/ (n = data[c] /\ excused' = excused)
  <2>1. excused \in [Cwd -> BOOLEAN]
    BY <1>0 DEF Typed, WatchTyped
  <2>2. CASE n = data[c] /\ UNCHANGED <<pokes, excused>>
    BY <1>0, <2>1, <2>2
  <2>3. CASE Poke /\ excused' = [excused EXCEPT ![c] = TRUE]
    <3>1. pokes' \in 0..MaxPoke /\ pokes <= pokes'
      BY <1>0, <2>3 DEF Poke
    <3>2. /\ excused' \in [Cwd -> BOOLEAN] /\ excused'[c]
          /\ \A d \in Cwd \ {c} : excused'[d] = excused[d]
      BY <2>1, <2>3, Zenon
    <3> QED BY <3>1, <3>2
  <2> QED BY <1>1, <2>2, <2>3
<1>6. Typed' /\ Bounded'
  <2>1. Typed'
    BY <1>0, <1>3, <1>4, <1>5 DEF Typed, RunTyped, RetryTyped, RepoTyped, WatchTyped, ClockTyped, SnapTyped
  <2>2. \A d \in Cwd : data[d] \in Nat /\ gen[d] \in Nat
    BY <1>0, AliveValues
  <2> QED BY <2>1, <2>2, <1>0, <1>4, <1>5 DEF Bounded
<1>7. Alone(c) /\ Entry(c)'
  BY <1>0, <1>2, <1>3, <1>4, <1>5 DEF Alone, Slice, Entry, Unknown, None
<1>8. NotLost(c)'
  BY <1>0, <1>2, <1>3, <1>4, <1>5 DEF NotLost, Reads
<1>9. Counted'
  BY <1>0, <1>2, <1>3, <1>4, BusySame
<1>11. ASSUME NEW d \in Cwd PROVE MovesOn(d) /\ (tail[d] = NoTail => tail'[d] = NoTail)
  <2>1. data[d] \in Nat /\ gen[d] \in Nat /\ d \in Cwd
    BY <1>0, ConstantTypes, AliveValues
  <2> QED BY <2>1, <1>0, <1>2, <1>3, <1>4 DEF MovesOn
<1>12. \A d \in Plain' : Told(d)'
  BY <1>4, <1>6, <1>11, ToldQuietly
<1> QED BY <1>6, <1>7, <1>8, <1>9, <1>12, Assemble

\* The governor's clock concerns admission only.
LEMMA ClockStep ==
  ASSUME IInv, History, NEW c \in Cwd, ClockTyped', pokes' \in 0..MaxPoke, pokes <= pokes',
         UNCHANGED <<data, gen, event, watch, run, state, queued, debounce, retry, running,
                     tail, channel, latest, attached, excused>>
  PROVE  IInv'
<1>0. Typed /\ Counted /\ Bounded /\ Entry(c) /\ NotLost(c) /\ MaxPoke \in Nat /\ pokes \in Nat
  BY TypeSplit, ConstantTypes DEF IInv, Typed, RepoTyped
<1>1. Typed'
  BY <1>0 DEF Typed, RunTyped, RetryTyped, RepoTyped, WatchTyped, SnapTyped
<1>2. Alone(c) /\ Entry(c)' /\ NotLost(c)'
  BY <1>0 DEF Alone, Slice, Entry, NotLost, Reads, Truth
<1>3. Bounded'
  <2>1. \A d \in Cwd : data[d] \in Nat /\ gen[d] \in Nat
    BY <1>0, AliveValues
  <2> QED BY <2>1, <1>0 DEF Bounded
<1>4. Counted'
  BY <1>0, BusySame
<1>6. ASSUME NEW d \in Cwd PROVE MovesOn(d) /\ (tail[d] = NoTail => tail'[d] = NoTail)
  <2>1. data[d] \in Nat /\ gen[d] \in Nat
    BY <1>0, ConstantTypes, AliveValues
  <2> QED BY <2>1 DEF MovesOn
<1>7. \A d \in Plain' : Told(d)'
  BY <1>1, <1>6, ToldQuietly
<1> QED BY <1>1, <1>2, <1>3, <1>4, <1>7, Assemble

LEMMA ClockSteps ==
  ASSUME IInv, History, NEW c \in Cwd, YieldBegins(c) \/ YieldEnds(c) \/ FloorPasses(c)
  PROVE  IInv'
<1>0. ClockTyped /\ pokes \in 0..MaxPoke /\ MaxPoke \in Nat
  BY TypeSplit, ConstantTypes DEF IInv, Typed, RepoTyped
<1>1. CASE YieldBegins(c)
  <2>1. ClockTyped' /\ pokes' \in 0..MaxPoke /\ pokes <= pokes'
    BY <1>0, <1>1 DEF YieldBegins, Poke, ClockTyped
  <2> QED BY <2>1, <1>1, ClockStep DEF YieldBegins
<1>2. CASE YieldEnds(c)
  <2>1. ClockTyped' /\ pokes' \in 0..MaxPoke /\ pokes <= pokes'
    BY <1>0, <1>2 DEF YieldEnds, ClockTyped
  <2> QED BY <2>1, <1>2, ClockStep DEF YieldEnds
<1>3. CASE FloorPasses(c)
  <2>1. ClockTyped' /\ pokes' \in 0..MaxPoke /\ pokes <= pokes'
    BY <1>0, <1>3 DEF FloorPasses, ClockTyped
  <2> QED BY <2>1, <1>3, ClockStep DEF FloorPasses
<1> QED BY <1>1, <1>2, <1>3

-----------------------------------------------------------------------------
(* Steps that tell the router *)

LEMMA AppendFacts ==
  ASSUME NEW S, NEW q \in Seq(S), NEW m \in S
  PROVE  /\ Append(q, m) \in Seq(S) /\ Len(Append(q, m)) = Len(q) + 1 /\ Len(q) \in Nat
         /\ \A i \in 1..Len(q) : Append(q, m)[i] = q[i]
         /\ Append(q, m)[Len(q) + 1] = m
OBVIOUS

LEMMA TailFacts ==
  ASSUME NEW S, NEW q \in Seq(S), q # <<>>
  PROVE  /\ Tail(q) \in Seq(S) /\ Len(q) \in Nat \ {0} /\ Len(Tail(q)) = Len(q) - 1
         /\ \A i \in 1..Len(q) - 1 : Tail(q)[i] = q[i + 1]
         /\ Head(q) = q[1] /\ Head(q) \in S
OBVIOUS

\* What another directory's step tells is nothing about d.
LEMMA ToldAboutOthers ==
  ASSUME IInv, History, Typed', NEW c \in Cwd, NEW d \in Plain', d # c, Slice(d)' = Slice(d),
         latest' = latest,
         channel' = channel \/ \E s \in Snapshots : channel' = Append(channel, [cwd |-> c, snap |-> s])
  PROVE  Told(d)'
<1>0. tail'[d] = NoTail /\ LastTold(d) /\ ToldInOrder(d) /\ channel \in Seq(Updates)
  BY TypeSplit, PlainBefore DEF IInv, Typed, SnapTyped, Plain, Told, Slice
<1>1. data'[d] = data[d] /\ gen'[d] = gen[d] /\ run'[d] = run[d] /\ state'[d] = state[d]
  BY DEF Slice
<1>2. \A s : NotNewer(d, s) => NotNewer(d, s)'
  BY <1>1 DEF NotNewer
<1>3. CASE channel' = channel
  <2>1. LastTold(d)' /\ Ordered(d)'
    BY <1>0, <1>1, <1>3 DEF LastTold, ToldInOrder, Ordered
  <2>2. NotNewer(d, latest[d])'
    BY <1>0, <1>1 DEF ToldInOrder, NotNewer
  <2>3. \A i \in 1..Len(channel) : channel[i].cwd = d => NotNewer(d, channel[i].snap)'
    BY <1>0, <1>1, <1>3 DEF ToldInOrder, NotNewer
  <2> QED BY <1>0, <1>3, <2>1, <2>2, <2>3 DEF Told, ToldInOrder
<1>4. ASSUME NEW s \in Snapshots, channel' = Append(channel, [cwd |-> c, snap |-> s])
      PROVE  LastTold(d)' /\ ToldInOrder(d)'
  <2> DEFINE m == [cwd |-> c, snap |-> s]  n == Len(channel)
  <2>1. m \in Updates /\ m.cwd = c
    BY DEF Updates
  <2> HIDE DEF m
  <2>2. /\ Len(channel') = n + 1 /\ n \in Nat /\ channel'[n + 1] = m
        /\ \A i \in 1..n : channel'[i] = channel[i]
    BY <1>0, <1>4, <2>1, AppendFacts DEF m
  <2> HIDE DEF n
  <2>3. LastTold(d)'
    <3>1. (\A i \in 1..n+1 : channel'[i].cwd # d) => latest'[d] = state'[d]
      BY <1>0, <1>1, <2>2 DEF LastTold, n
    <3>2. ASSUME NEW i \in 1..n+1, channel'[i].cwd = d,
                 \A j \in i+1..n+1 : channel'[j].cwd # d
          PROVE  channel'[i].snap = state'[d]
      <4>1. i \in 1..n
        BY <2>1, <2>2, <3>2
      <4>2. \A j \in i+1..n : channel[j].cwd # d
        BY <2>2, <3>2, <4>1
      <4> QED BY <1>0, <1>1, <2>2, <3>2, <4>1, <4>2 DEF LastTold, n
    <3> QED BY <2>2, <3>1, <3>2 DEF LastTold
  <2>4. Ordered(d)'
    BY <1>0, <2>1, <2>2 DEF ToldInOrder, Ordered, n
  <2>5. NotNewer(d, latest[d])'
    BY <1>0, <1>1 DEF ToldInOrder, NotNewer
  <2>6. ASSUME NEW i \in 1..n+1, channel'[i].cwd = d
        PROVE  NotNewer(d, channel[i].snap)'
    <3>1. i \in 1..n /\ channel'[i] = channel[i]
      BY <2>1, <2>2, <2>6
    <3>2. NotNewer(d, channel[i].snap)
      BY <1>0, <2>6, <3>1 DEF ToldInOrder, n
    <3> QED BY <1>1, <3>1, <3>2 DEF NotNewer
  <2> QED BY <2>2, <2>3, <2>4, <2>5, <2>6 DEF ToldInOrder
<1> QED BY <1>0, <1>3, <1>4 DEF Told

LEMMA TailResumesStep == ASSUME IInv, History, NEW c \in Cwd, TailResumes(c) PROVE IInv'
<1>0. Typed /\ Counted /\ Bounded /\ Entry(c) /\ NotLost(c) /\ tail[c] \in Tails /\ channel \in Seq(Updates)
  BY TypeSplit DEF IInv, Typed, SnapTyped
<1>1. c \notin Plain'
  BY PlainBefore DEF IInv, Told, NoTail, TailResumes
<1>2. channel' = channel \/ \E s \in Snapshots : channel' = Append(channel, [cwd |-> c, snap |-> s])
  BY <1>0 DEF TailResumes, Tails, Snaps
<1>3. Typed'
  <2>1. channel' \in Seq(Updates)
    BY <1>0, <1>2, AppendFacts DEF Updates
  <2>2. NoTail \in Tails
    BY DEF NoTail, Tails, Snaps
  <2>3. tail' \in [Cwd -> Tails]
    BY <1>0, <2>2 DEF TailResumes, Typed, SnapTyped
  <2> QED BY <1>0, <2>1, <2>3 DEF TailResumes, Typed, RunTyped, RetryTyped, RepoTyped, WatchTyped,
             ClockTyped, SnapTyped
<1>4. Alone(c) /\ Bounded' /\ Entry(c)' /\ NotLost(c)'
  BY <1>0 DEF TailResumes, Alone, Slice, Bounded, Entry, NotLost, Reads, Truth, Typed, SnapTyped
<1>5. Counted'
  BY <1>0, BusySame DEF TailResumes
<1>6. ASSUME NEW d \in Plain' PROVE Told(d)'
  <2>1. d \in Cwd \ {c} /\ Slice(d)' = Slice(d) /\ latest' = latest
    BY <1>1, <1>4 DEF Alone, TailResumes, Plain
  <2> QED BY <1>2, <1>3, <2>1, ToldAboutOthers
<1> QED BY <1>3, <1>4, <1>5, <1>6, Assemble

LEMMA EndsFacts ==
  ASSUME Typed, Counted, NEW c \in Cwd, run[c] # Idle, Ends(c)
  PROVE  /\ RunTyped' /\ Counted' /\ debounce' \in [Cwd -> BOOLEAN] /\ floor' \in [Cwd -> BOOLEAN]
         /\ run'[c] = Idle /\ queued'[c] = FALSE /\ debounce'[c] = (debounce[c] \/ queued[c])
         /\ \A d \in Cwd \ {c} : run'[d] = run[d] /\ queued'[d] = queued[d] /\ debounce'[d] = debounce[d]
<1>0. /\ run \in [Cwd -> Recomputes] /\ queued \in [Cwd -> BOOLEAN]
      /\ debounce \in [Cwd -> BOOLEAN] /\ floor \in [Cwd -> BOOLEAN]
  BY DEF Typed, RunTyped, WatchTyped, ClockTyped
<1>1. run' \in [Cwd -> Recomputes] /\ run'[c] = Idle /\ \A d \in Cwd \ {c} : run'[d] = run[d]
  BY <1>0 DEF Ends, Recomputes
<1>2. queued' \in [Cwd -> BOOLEAN] /\ queued'[c] = FALSE /\ \A d \in Cwd \ {c} : queued'[d] = queued[d]
  BY <1>0, Zenon DEF Ends
<1>3. /\ debounce' \in [Cwd -> BOOLEAN] /\ debounce'[c] = (debounce[c] \/ queued[c])
      /\ \A d \in Cwd \ {c} : debounce'[d] = debounce[d]
  <2>1. debounce' = [debounce EXCEPT ![c] = debounce[c] \/ queued[c]]
    BY DEF Ends
  <2>2. (debounce[c] \/ queued[c]) \in BOOLEAN
    OBVIOUS
  <2> QED BY <1>0, <2>1, <2>2, Zenon
<1>4. floor' \in [Cwd -> BOOLEAN]
  BY <1>0, Zenon DEF Ends
<1>5. Counted'
  BY <1>1, BusyShrinks DEF Ends
<1> QED BY <1>1, <1>2, <1>3, <1>4, <1>5 DEF RunTyped

\* The recompute of a repository emits what it read, which is no older than
\* anything the router was told before.
LEMMA EmissionInOrder ==
  ASSUME IInv, Typed', NEW c \in Plain, run[c] # Idle, run[c].seen # NotYet,
         Snap(c) \in Snapshots, state'[c] = Snap(c), channel' = Emission(c), latest' = latest,
         data' = data, gen' = gen, run'[c] = Idle
  PROVE  LastTold(c)' /\ ToldInOrder(c)'
<1> DEFINE n == Len(channel)  m == [cwd |-> c, snap |-> Snap(c)]
<1>0. /\ Typed /\ LastTold(c) /\ ToldInOrder(c) /\ Entry(c) /\ c \in Cwd /\ channel \in Seq(Updates)
      /\ n \in Nat
  BY TypeSplit DEF IInv, Typed, SnapTyped, Plain, Told
<1>1. /\ data[c] \in Nat /\ gen[c] \in Nat /\ run[c].gen \in Nat /\ run[c].seen \in Int
      /\ latest[c].data \in Int /\ latest[c].gen \in Int
  BY <1>0, AliveValues
<1>2. Snap(c).data = run[c].seen /\ Snap(c).gen = run[c].gen
  BY DEF Snap
<1>3. \A i \in 1..n : channel[i].snap.data \in Int /\ channel[i].snap.gen \in Int
  <2>1. \A i \in 1..n : channel[i] \in Updates
    BY <1>0
  <2> QED BY <2>1, ConstantTypes DEF Updates, Snapshots, Unknown
<1>4. \A s : NotNewer(c, s) => NotNewer(c, s)'
  BY DEF NotNewer, Idle, NotYet
<1>5. \A s : s = Snap(c) => NotNewer(c, s)'
  BY <1>0, <1>1, <1>2 DEF Entry, NotNewer, Idle, NotYet
<1>6. InOrder(latest[c], Snap(c))
  BY <1>0, <1>1, <1>2 DEF ToldInOrder, NotNewer, InOrder
<1>7. \A i \in 1..n : channel[i].cwd = c => InOrder(channel[i].snap, Snap(c))
  BY <1>0, <1>1, <1>2, <1>3 DEF ToldInOrder, NotNewer, InOrder
<1>8. NotNewer(c, latest[c])'
  BY <1>0 DEF ToldInOrder, NotNewer, Idle, NotYet
<1>9. \A i \in 1..n : channel[i].cwd = c => NotNewer(c, channel[i].snap)
  BY <1>0 DEF ToldInOrder
<1>10. CASE Snap(c) = state[c]
  <2>1. channel' = channel /\ state'[c] = state[c]
    BY <1>10 DEF Emission
  <2>2. LastTold(c)' /\ Ordered(c)'
    BY <1>0, <2>1 DEF LastTold, ToldInOrder, Ordered
  <2>3. ASSUME NEW i \in 1..n, channel[i].cwd = c PROVE NotNewer(c, channel[i].snap)'
    BY <1>9, <2>1, <2>3 DEF NotNewer, Idle, NotYet
  <2> QED BY <1>8, <2>1, <2>2, <2>3 DEF ToldInOrder
<1>11. CASE Snap(c) # state[c]
  <2>1. m \in Updates /\ m.cwd = c /\ m.snap = Snap(c)
    BY <1>0 DEF Updates
  <2>2. /\ Len(channel') = n + 1 /\ channel'[n + 1] = m
        /\ \A i \in 1..n : channel'[i] = channel[i]
    BY <1>0, <1>11, <2>1, AppendFacts DEF Emission
  <2> HIDE DEF m, n
  <2>3. LastTold(c)'
    <3>1. channel'[n + 1].cwd = c /\ channel'[n + 1].snap = state'[c] /\ n + 1 \in 1..n+1
      BY <1>0, <2>1, <2>2
    <3>2. ASSUME NEW i \in 1..n+1, \A j \in i+1..n+1 : channel'[j].cwd # c PROVE i = n + 1
      BY <1>0, <3>1, <3>2
    <3> QED BY <1>0, <2>2, <3>1, <3>2 DEF LastTold
  <2>4. Ordered(c)'
    <3>1. \A i \in 1..n+1 : channel'[i].cwd = c => InOrder(latest[c], channel'[i].snap)
      BY <1>0, <1>6, <2>1, <2>2 DEF ToldInOrder, Ordered, n
    <3>2. ASSUME NEW i \in 1..n+1, NEW j \in i+1..n+1, channel'[i].cwd = c, channel'[j].cwd = c
          PROVE  InOrder(channel'[i].snap, channel'[j].snap)
      <4>1. CASE j = n + 1
        BY <1>0, <1>7, <2>1, <2>2, <3>2, <4>1
      <4>2. CASE j # n + 1
        <5>1. i \in 1..n /\ j \in i+1..n
          BY <1>0, <3>2, <4>2
        <5> QED BY <1>0, <2>2, <3>2, <5>1 DEF ToldInOrder, Ordered, n
      <4> QED BY <4>1, <4>2
    <3> QED BY <2>2, <3>1, <3>2 DEF Ordered
  <2>5. ASSUME NEW i \in 1..n+1, channel'[i].cwd = c PROVE NotNewer(c, channel[i].snap)'
    <3>1. CASE i = n + 1
      BY <1>5, <2>1, <2>2, <3>1 DEF NotNewer
    <3>2. CASE i # n + 1
      <4>1. i \in 1..n /\ channel'[i] = channel[i]
        BY <1>0, <2>2, <3>2
      <4> QED BY <1>9, <2>5, <4>1 DEF NotNewer, Idle, NotYet
    <3> QED BY <3>1, <3>2
  <2> QED BY <1>8, <2>2, <2>3, <2>4, <2>5 DEF ToldInOrder
<1> QED BY <1>10, <1>11

LEMMA FinishStep == ASSUME IInv, History, NEW c \in Cwd, Finish(c) PROVE IInv'
<1>0. /\ Typed /\ Counted /\ Bounded /\ Entry(c) /\ NotLost(c) /\ MaxPoke \in Nat /\ Versions = MaxPoke + 1
      /\ run[c] \in Recomputes /\ run[c] # Idle /\ run[c].seen # NotYet /\ tail[c] \in Tails
      /\ channel \in Seq(Updates) /\ (c \in Plain => tail[c] = NoTail)
  BY TypeSplit, ConstantTypes DEF IInv, Finish, Typed, RunTyped, SnapTyped, Told
<1>1. Snap(c) \in Snapshots
  <2>1. run[c] \in [why : Reasons, gen : 0..MaxPoke, seen : NotYet..Versions, inner : BOOLEAN]
    BY <1>0 DEF Recomputes
  <2>2. run[c].seen \in Unknown..Versions
    BY <1>0, <2>1 DEF Entry, None, Unknown, NotYet
  <2> QED BY <2>1, <2>2 DEF Snap, Snapshots
<1>2. /\ RunTyped' /\ Counted' /\ debounce' \in [Cwd -> BOOLEAN] /\ floor' \in [Cwd -> BOOLEAN]
      /\ run'[c] = Idle /\ queued'[c] = FALSE /\ debounce'[c] = (debounce[c] \/ queued[c])
      /\ \A d \in Cwd \ {c} : run'[d] = run[d] /\ queued'[d] = queued[d] /\ debounce'[d] = debounce[d]
  BY <1>0, EndsFacts DEF Finish
<1>3. UNCHANGED <<data, gen, event, retry, yield, latest, attached, pokes, excused>>
  BY DEF Finish
<1>4. state' = [state EXCEPT ![c] = Snap(c)]
  BY DEF Finish
<1>5. /\ state' \in [Cwd -> Snaps] /\ state'[c] = Snap(c)
      /\ \A d \in Cwd \ {c} : state'[d] = state[d]
  BY <1>0, <1>1, <1>4 DEF Typed, SnapTyped, Snaps
<1>6. /\ watch' \in [Cwd -> {"none", "opening", "live"}]
      /\ \A d \in Cwd \ {c} : watch'[d] = watch[d]
      /\ watch'[c] = "live" => watch[c] = "live"
  BY <1>0 DEF Finish, Typed, WatchTyped
<1>8. /\ tail' \in [Cwd -> Tails] /\ \A d \in Cwd \ {c} : tail'[d] = tail[d]
      /\ BecameGit(c) => tail'[c] # NoTail
      /\ ~BecameGit(c) /\ tail[c] = NoTail => tail'[c] = NoTail
  <2>0. tail \in [Cwd -> Tails]
    BY <1>0 DEF Typed, SnapTyped
  <2>1. CASE BecameGit(c)
    <3> DEFINE x == [phase |-> "opening", snap |-> IF Snap(c) # state[c] THEN Snap(c) ELSE None]
    <3>1. x \in Tails /\ x # NoTail
      BY <1>1 DEF Tails, Snaps, NoTail
    <3>2. tail' = [tail EXCEPT ![c] = x]
      BY <2>1 DEF Finish
    <3> HIDE DEF x
    <3> QED BY <2>0, <2>1, <3>1, <3>2
  <2>2. CASE ~BecameGit(c)
    <3> DEFINE x(p) == [tail[c] EXCEPT !.phase = p]
    <3>1. \A p \in {"none", "opening", "inner", "ready"} : x(p) \in Tails
      BY <1>0 DEF Tails
    <3>2. tail[c].phase \in {"none", "opening", "inner", "ready"} /\ x(tail[c].phase) = tail[c]
      BY <1>0 DEF Tails
    <3>3. tail' = [tail EXCEPT ![c] =
            x(IF tail[c].phase = "inner" /\ run[c].inner THEN "ready" ELSE tail[c].phase)]
      BY <2>2 DEF Finish
    <3>4. tail[c] = NoTail => tail[c].phase # "inner"
      BY DEF NoTail
    <3> HIDE DEF x
    <3> QED BY <2>0, <2>2, <3>1, <3>2, <3>3, <3>4
  <2> QED BY <2>1, <2>2
<1>9. channel' = channel \/ channel' = Emission(c)
  BY DEF Finish
<1>10. channel' = channel \/ \E s \in Snapshots : channel' = Append(channel, [cwd |-> c, snap |-> s])
  BY <1>1, <1>9 DEF Emission
<1>11. Typed'
  <2>1. channel' \in Seq(Updates)
    <3>1. \A s \in Snapshots : [cwd |-> c, snap |-> s] \in Updates
      BY DEF Updates
    <3> QED BY <1>0, <1>10, <3>1, AppendFacts
  <2> QED BY <1>0, <1>2, <1>3, <1>5, <1>6, <1>8, <2>1
      DEF Typed, RunTyped, RetryTyped, RepoTyped, WatchTyped, ClockTyped, SnapTyped
<1>12. Alone(c)
  BY <1>2, <1>3, <1>5, <1>6, <1>8 DEF Alone, Slice
<1>13. Bounded' /\ Entry(c)'
  <2>1. data[c] \in Nat /\ gen[c] \in Nat
    BY <1>0, AliveValues
  <2> QED BY <2>1, <1>0, <1>2, <1>3 DEF Bounded, Entry, Idle, NotYet, None
<1>14. NotLost(c)'
  <2> SUFFICES ASSUME watch'[c] = "live", ~excused'[c], ~event'[c], ~debounce'[c]
               PROVE  state'[c] = Truth(c)'
    BY <1>2 DEF NotLost
  <2>1. Reads(c)
    BY <1>0, <1>2, <1>3, <1>6 DEF NotLost
  <2> QED BY <2>1, <1>0, <1>3, <1>5 DEF Reads, Snap, Truth
<1>7. c \in Plain' => ~BecameGit(c) /\ c \in Plain /\ tail'[c] = NoTail
  BY <1>0, <1>8, PlainBefore DEF BecameGit, History, Plain
<1>16. ASSUME NEW d \in Plain' PROVE Told(d)'
  <2>1. CASE d # c
    <3>1. Slice(d)' = Slice(d) /\ latest' = latest
      BY <2>1, <1>3, <1>12 DEF Alone, Plain
    <3> QED BY <2>1, <3>1, <1>10, <1>11, ToldAboutOthers
  <2>2. CASE d = c
    <3>1. c \in Plain /\ channel' = Emission(c) /\ tail'[c] = NoTail
      BY <2>2, <1>7 DEF Finish
    <3>2. LastTold(c)' /\ ToldInOrder(c)'
      BY <3>1, <1>0, <1>1, <1>2, <1>3, <1>5, <1>11, EmissionInOrder
    <3> QED BY <2>2, <3>1, <3>2 DEF Told
  <2> QED BY <2>1, <2>2
<1> QED BY <1>2, <1>11, <1>12, <1>13, <1>14, <1>16, Assemble

LEMMA RouterReceivesStep == ASSUME IInv, History, RouterReceives PROVE IInv'
<1> DEFINE n == Len(channel)  h == Head(channel)
<1>0. Typed /\ Counted /\ Bounded /\ channel \in Seq(Updates) /\ channel # <<>> /\ latest \in [Cwd -> Snaps]
  BY TypeSplit DEF IInv, RouterReceives, Typed, SnapTyped
<1>1. /\ channel' \in Seq(Updates) /\ n \in Nat \ {0} /\ Len(channel') = n - 1
      /\ \A i \in 1..n-1 : channel'[i] = channel[i+1]
      /\ h = channel[1] /\ h \in Updates
  BY <1>0, TailFacts DEF RouterReceives
<1> HIDE DEF n
<1>2. h.cwd \in Cwd /\ h.snap \in Snaps /\ latest' = [latest EXCEPT ![h.cwd] = h.snap]
  BY <1>1 DEF RouterReceives, Updates, Snaps
<1> HIDE DEF h
<1>3. UNCHANGED <<data, gen, event, watch, run, state, queued, debounce, retry, running, yield,
                 floor, tail, attached, pokes, excused>>
  BY DEF RouterReceives
<1>4. Typed'
  BY <1>0, <1>1, <1>2, <1>3 DEF Typed, RunTyped, RetryTyped, RepoTyped, WatchTyped, ClockTyped, SnapTyped
<1>5. TypeOK' /\ Counted' /\ Bounded'
  <2>1. Counted' /\ Bounded'
    BY <1>0, <1>3, BusySame DEF Bounded
  <2>2. running' \in 0..Cardinality(Cwd)
    BY <1>3 DEF IInv, TypeOK
  <2>3. TypeOK'
    BY <1>4, <2>2 DEF TypeOK, Typed, RunTyped, RetryTyped, RepoTyped, WatchTyped, ClockTyped,
       SnapTyped, Snaps, Recomputes, Retries, Tails, Updates
  <2> QED BY <2>1, <2>3
<1>6. \A c \in Cwd : Entry(c)' /\ NotLost(c)'
  BY <1>3 DEF IInv, Entry, NotLost, Reads, Truth
<1>8. ASSUME NEW c \in Plain' PROVE Told(c)'
  <2>0. c \in Cwd /\ LastTold(c) /\ ToldInOrder(c) /\ 1 \in 1..n /\ tail'[c] = NoTail
    BY <1>1, <1>3, PlainBefore DEF IInv, Plain, Told
  <2>1. latest'[c] = (IF h.cwd = c THEN channel[1].snap ELSE latest[c])
    BY <1>0, <1>1, <1>2, <2>0
  <2>2. \A i \in 1..n-1 : i + 1 \in 1..n /\ channel'[i] = channel[i+1]
    BY <1>1
  <2>3. LastTold(c)'
    <3>1. ASSUME \A i \in 1..n-1 : channel'[i].cwd # c PROVE latest'[c] = state'[c]
      <4>1. \A i \in 2..n : channel[i].cwd # c
        <5>1. ASSUME NEW i \in 2..n PROVE channel[i].cwd # c
          <6>1. i - 1 \in 1..n-1 /\ (i - 1) + 1 = i
            BY <1>1
          <6> QED BY <6>1, <1>1, <3>1
        <5> QED BY <5>1
      <4>2. CASE h.cwd = c
        <5>1. \A j \in 1+1..n : channel[j].cwd # c
          BY <4>1
        <5> QED BY <5>1, <4>2, <1>1, <1>3, <2>0, <2>1 DEF LastTold, n
      <4>3. CASE h.cwd # c
        <5>1. \A j \in 1..n : channel[j].cwd # c
          BY <4>1, <4>3, <1>1
        <5> QED BY <5>1, <4>3, <1>3, <2>0, <2>1 DEF LastTold, n
      <4> QED BY <4>2, <4>3
    <3>2. ASSUME NEW i \in 1..n-1, channel'[i].cwd = c, \A j \in i+1..n-1 : channel'[j].cwd # c
          PROVE  channel'[i].snap = state'[c]
      <4>1. ASSUME NEW j \in (i+1)+1..n PROVE channel[j].cwd # c
        <5>1. j - 1 \in i+1..n-1 /\ j - 1 \in 1..n-1 /\ (j - 1) + 1 = j
          BY <1>1
        <5> QED BY <5>1, <1>1, <3>2
      <4>2. i + 1 \in 1..n /\ channel[i+1].cwd = c /\ channel'[i] = channel[i+1]
        BY <2>2, <3>2
      <4> QED BY <4>1, <4>2, <1>3, <2>0 DEF LastTold, n
    <3> QED BY <1>1, <3>1, <3>2 DEF LastTold
  <2>4. Ordered(c)'
    <3>1. ASSUME NEW i \in 1..n-1, channel'[i].cwd = c PROVE InOrder(latest'[c], channel'[i].snap)
      <4>1. i + 1 \in 1..n /\ i + 1 \in 1+1..n /\ channel[i+1].cwd = c /\ channel'[i] = channel[i+1]
        BY <1>1, <2>2, <3>1
      <4> QED BY <4>1, <1>1, <2>0, <2>1 DEF ToldInOrder, Ordered, n
    <3>2. ASSUME NEW i \in 1..n-1, NEW j \in i+1..n-1, channel'[i].cwd = c, channel'[j].cwd = c
          PROVE  InOrder(channel'[i].snap, channel'[j].snap)
      <4>1. i + 1 \in 1..n /\ j \in 1..n-1 /\ j + 1 \in (i+1)+1..n
        BY <1>1
      <4> QED BY <4>1, <2>0, <2>2, <3>2 DEF ToldInOrder, Ordered, n
    <3> QED BY <1>1, <3>1, <3>2 DEF Ordered
  <2>6. NotNewer(c, latest[c])'
    BY <1>1, <1>3, <2>0, <2>1 DEF ToldInOrder, NotNewer, n
  <2>7. ASSUME NEW i \in 1..n-1, channel'[i].cwd = c PROVE NotNewer(c, channel[i].snap)'
    <3>1. i + 1 \in 1..n /\ channel'[i] = channel[i+1]
      BY <2>2
    <3>2. NotNewer(c, channel[i+1].snap)
      BY <2>0, <2>7, <3>1 DEF ToldInOrder, n
    <3> QED BY <1>3, <3>1, <3>2 DEF NotNewer
  <2> QED BY <1>1, <2>0, <2>3, <2>4, <2>6, <2>7 DEF Told, ToldInOrder
<1> QED BY <1>5, <1>6, <1>8 DEF IInv

-----------------------------------------------------------------------------
(* The invariant and the theorems *)

LEMMA InitIInv == Init => IInv
<1> SUFFICES ASSUME Init PROVE IInv
  OBVIOUS
<1>0. MaxPoke \in Nat /\ Versions = MaxPoke + 1
  BY ConstantTypes
<1>1. RunTyped /\ RetryTyped /\ WatchTyped /\ ClockTyped
  BY DEF Init, RunTyped, RetryTyped, WatchTyped, ClockTyped, Recomputes, Retries
<1>2. RepoTyped
  BY <1>0 DEF Init, RepoTyped
<1>3. SnapTyped
  <2>1. NoTail \in Tails /\ None \in Snaps
    BY DEF NoTail, Tails, Snaps
  <2>2. channel \in Seq(Updates)
    BY DEF Init
  <2> QED BY <2>1, <2>2 DEF Init, SnapTyped
<1>4. Counted
  <2>1. Busy = {}
    BY DEF Init, Busy
  <2> QED BY <2>1, FS_EmptySet DEF Init, Counted
<1>5. TypeOK
  BY <1>1, <1>2, <1>3, <1>4, TypeSplit, RunningTyped DEF Typed
<1>6. Bounded
  BY DEF Init, Bounded
<1>7. \A c \in Cwd : Entry(c) /\ NotLost(c)
  BY DEF Init, Entry, NotLost, Idle, NotYet, None
<1>8. \A c \in Plain : Told(c)
  <2>1. channel = <<>> /\ Len(channel) = 0
    BY DEF Init
  <2>2. \A c \in Cwd : latest[c] = state[c] /\ latest[c] = None /\ tail[c] = NoTail
    BY DEF Init
  <2>3. \A c \in Cwd : NotNewer(c, latest[c])
    BY <1>0, <2>2 DEF Init, NotNewer, None, Idle, NotYet
  <2> QED BY <2>1, <2>2, <2>3 DEF Told, LastTold, ToldInOrder, Ordered, Plain
<1> QED BY <1>4, <1>5, <1>6, <1>7, <1>8 DEF IInv

LEMMA NextIInv == IInv /\ [Next /\ History]_specVars => IInv'
<1> SUFFICES ASSUME IInv, [Next /\ History]_specVars PROVE IInv'
  OBVIOUS
<1>1. ASSUME History, NEW c \in Cwd, Heartbeat(c) \/ Poll(c) PROVE IInv'
  BY <1>1, BackgroundStep DEF Heartbeat, Poll
<1>2. CASE UNCHANGED specVars
  BY <1>2 DEF specVars, vars, IInv, TypeOK, Counted, Busy, Bounded, Entry, NotLost, Reads, Truth,
     Plain, Told, LastTold, ToldInOrder, Ordered, NotNewer
<1> QED
  BY <1>1, <1>2, AttachStep, ChangeStep, EventStep, DebounceFiresStep, RetryFiresStep,
     FocusResyncStep, RevalidateStep, SampleStep, FinishStep, SubscribedStep, TailResumesStep,
     ClockSteps, RouterReceivesStep DEF Next

THEOREM Invariant == Spec => []IInv
BY InitIInv, NextIInv, PTL DEF Spec

\* When nothing is pending for a watched directory, the worker's own snapshot is
\* the repository, and the state is well typed: no trigger of runRecompute is
\* lost, whatever queue, debounce or governor it met.
THEOREM StateTheorem == Spec => []QuietStateIsFresh
<1>1. IInv => QuietStateIsFresh
  BY DEF IInv, NotLost, Reads, QuietStateIsFresh, Pending
<1> QED BY <1>1, Invariant, PTL

\* The same for the router's snapshot, unless a user-driven recompute opened the
\* directory's watcher: what the router was told last is what the worker holds.
THEOREM RouterTheorem == Spec => []QuietIsFresh
<1>1. IInv => QuietIsFresh
  <2> SUFFICES ASSUME IInv, NEW c \in Plain, watch[c] = "live", ~Pending(c), ~excused[c]
               PROVE  latest[c] = Truth(c)
    BY DEF QuietIsFresh, Plain
  <2>1. c \in Cwd /\ LastTold(c) /\ NotLost(c) /\ channel \in Seq(Updates)
    BY TypeSplit DEF IInv, Typed, SnapTyped, Plain, Told
  <2>2. DOMAIN channel = 1..Len(channel)
    BY <2>1
  <2>3. state[c] = Truth(c)
    BY <2>1 DEF NotLost, Reads, Pending
  <2>4. latest[c] = state[c]
    BY <2>1, <2>2 DEF LastTold, Pending
  <2> QED BY <2>3, <2>4
<1> QED BY <1>1, Invariant, PTL

\* The router never goes back to an older snapshot of such a directory.
THEOREM ForwardTheorem == Spec => NeverBackwards
<1>1. IInv /\ [Next /\ History]_specVars =>
        [\A c \in Cwd \ reattached' :
           /\ latest'[c].gen >= latest[c].gen
           /\ latest[c].data > 0 /\ latest'[c].data > 0 => latest'[c].data >= latest[c].data]_specVars
  <2> SUFFICES ASSUME IInv, Next, History, NEW c \in Plain'
               PROVE  /\ latest'[c].gen >= latest[c].gen
                      /\ latest[c].data > 0 /\ latest'[c].data > 0 => latest'[c].data >= latest[c].data
    BY DEF Plain
  <2>0. /\ c \in Cwd /\ latest[c].data \in Int /\ latest[c].gen \in Int /\ latest \in [Cwd -> Snaps]
        /\ channel \in Seq(Updates) /\ Ordered(c)
    BY TypeSplit, PlainBefore, AliveValues DEF IInv, Typed, SnapTyped, Plain, Told, ToldInOrder
  <2>1. CASE latest' = latest
    BY <2>0, <2>1
  <2>2. CASE RouterReceives
    <3>1. Head(channel) = channel[1] /\ 1 \in 1..Len(channel) /\ channel[1] \in Updates
      BY <2>0, <2>2, TailFacts DEF RouterReceives
    <3>2. channel[1].snap.data \in Int /\ channel[1].snap.gen \in Int
      BY <3>1, ConstantTypes DEF Updates, Snapshots, Unknown
    <3>3. CASE channel[1].cwd = c
      <4>1. latest'[c] = channel[1].snap
        BY <2>0, <2>2, <3>1, <3>3 DEF RouterReceives
      <4>2. InOrder(latest[c], channel[1].snap)
        BY <2>0, <3>1, <3>3 DEF Ordered
      <4> QED BY <2>0, <3>2, <4>1, <4>2 DEF InOrder
    <3>4. CASE channel[1].cwd # c
      BY <2>0, <2>2, <3>1, <3>4 DEF RouterReceives
    <3> QED BY <3>3, <3>4
  <2>3. latest' = latest \/ RouterReceives
    BY DEF Next, Attach, Change, Event, DebounceFires, RetryFires, Heartbeat, Poll, Background,
       FocusResync, Revalidate, Sample, Finish, Subscribed, TailResumes, YieldBegins, YieldEnds, FloorPasses
  <2> QED BY <2>1, <2>2, <2>3
<1> QED BY <1>1, Invariant, PTL DEF Spec, NeverBackwards
=============================================================================
