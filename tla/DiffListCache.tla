--------------------------- MODULE DiffListCache ---------------------------
(***************************************************************************)
(* The list of changed files of one repository, from the diff viewer to    *)
(* git and back: the viewer's loads (GitDiffViewer.tsx), the lanes and the *)
(* dedupe keys of the main process (git-runtime-manager.ts), the requests  *)
(* to the worker thread with their timeout and its exits                   *)
(* (git-ipc-worker-client.ts), the two caches in the worker                *)
(* (git-diff-request-cache.ts and getSingleRepoDiff in git-utils.ts), the  *)
(* invalidations that reach them, and the warms that fill them ahead of    *)
(* time (git-repo-prewarm.ts).                                             *)
(*                                                                         *)
(* A list is the version of the repository that git status saw.  A call is *)
(* a request of the main process, a job one getGitDiff in the worker: a    *)
(* warm is one call of two jobs.                                           *)
(***************************************************************************)
EXTENDS Naturals, Sequences, FiniteSets

CONSTANTS
  None,        \* no list, no job
  Failed,      \* what a failed git status or request leaves to show
  Submodules,  \* the repository has submodules: a staged load has two passes
  MayFail,     \* git status may fail
  MaxVersion,  \* bound: changes of the repository
  MaxCalls,    \* bound: calls
  MaxOpens,    \* bound: times the viewer is opened
  MaxFaults    \* bound: watchdogs, timeouts and exits of the worker thread

ASSUME DiffListAssumption ==
  /\ MaxVersion \in Nat \ {0} /\ MaxCalls \in Nat /\ MaxOpens \in Nat /\ MaxFaults \in Nat
  /\ Submodules \in BOOLEAN /\ MayFail \in BOOLEAN

Version == 1..MaxVersion
Scopes == {"root", "full"}
Id == 1..MaxCalls
Jobs == Id \X Scopes
Lists == Version \cup {None, Failed}

ASSUME ValuesAssumption == None \notin Version /\ Failed \notin Version

VARIABLES
  tree,      \* the version of the repository
  mirror,    \* the version of the router's latest snapshot of it
  owed,      \* a change made through the program and not yet announced, or 0
  notices,   \* invalidations on their way to the viewer
  warmDue,   \* a warm waits for its delay or its quiet window
  panel,     \* the diff viewer
  calls,     \* the calls of the main process, in order
  thread,    \* the worker thread: not started, running, or exited
  faults,    \* how often something timed out or exited
  port,      \* the messages posted to it
  cache,     \* the request cache: a list per scope
  inFlight,  \* the load under way per scope
  single,    \* the repository's own read under way (singleRepoDiffInFlight)
  stamp,     \* the tree at the last mutation-grade invalidation, or 0
  jobs

mainVars   == <<calls, thread, faults>>
worldVars  == <<tree, mirror, owed>>
workerVars == <<cache, inFlight, single, stamp, jobs>>
vars == <<worldVars, notices, warmDue, panel, mainVars, port, workerVars>>

Stages == {"idle", "joined", "opening", "shared", "reading", "counting"}
Idle == [stage |-> "idle", on |-> None, kept |-> FALSE, list |-> None]
NoOptions == [reset |-> FALSE, force |-> FALSE, any |-> FALSE]

Options == [reset : BOOLEAN, force : BOOLEAN, any : BOOLEAN]
Panels == [open : BOOLEAN, load : 0..MaxCalls, force : BOOLEAN, opens : 0..MaxOpens,
           queued : Options, shown : Lists, since : 0..MaxVersion, aborted : BOOLEAN]
Calls == [by : {"panel", "warm"}, scopes : SUBSET Scopes, force : BOOLEAN,
          warmth : 0..MaxVersion, asked : 0..MaxVersion,
          state : {"queued", "posted", "answered", "failed"}, list : Lists]
Messages == [call : 0..MaxCalls, reason : {"none", "mirror", "manual"}]
JobStates == [stage : Stages, on : Jobs \cup {None}, kept : BOOLEAN, list : Lists]

WorldOK ==
  /\ tree \in Version /\ mirror \in Version /\ owed \in 0..MaxVersion
  /\ notices \in Nat /\ warmDue \in BOOLEAN
  /\ thread \in {"none", "up", "gone"} /\ faults \in 0..MaxFaults
CallsOK == calls \in Seq(Calls) /\ Len(calls) <= MaxCalls
CacheOK ==
  /\ cache \in [Scopes -> Lists] /\ inFlight \in [Scopes -> Jobs \cup {None}]
  /\ single \in Jobs \cup {None} /\ stamp \in 0..MaxVersion

TypeOK ==
  /\ WorldOK /\ CallsOK /\ CacheOK
  /\ panel \in Panels
  /\ port \in Seq(Messages)
  /\ jobs \in [Jobs -> JobStates]

Init ==
  /\ tree = 1 /\ mirror = 1 /\ owed = 0
  /\ notices = 0
  /\ warmDue = TRUE
  /\ panel = [open |-> FALSE, load |-> 0, force |-> FALSE, opens |-> 0,
              queued |-> NoOptions, shown |-> None, since |-> 0, aborted |-> FALSE]
  /\ calls = <<>> /\ thread = "none" /\ faults = 0
  /\ port = <<>>
  /\ cache = [s \in Scopes |-> None]
  /\ inFlight = [s \in Scopes |-> None]
  /\ single = None /\ stamp = 0
  /\ jobs = [j \in Jobs |-> Idle]

-----------------------------------------------------------------------------
(* Calls: enqueueTask, its dedupe map and its lanes *)

Ids == DOMAIN calls
Alive(c) == calls[c].state \in {"queued", "posted"}
Room == Len(calls) < MaxCalls

\* The live call of the same dedupe key; a forced one has no key.
Twins(by, scopes) ==
  {c \in Ids : Alive(c) /\ ~calls[c].force /\ calls[c].by = by /\ calls[c].scopes = scopes}

\* The call that answers a submission, and the calls after it.
Joins(by, scopes, force) == ~force /\ Twins(by, scopes) # {}
Target(by, scopes, force) ==
  IF Joins(by, scopes, force) THEN CHOOSE c \in Twins(by, scopes) : TRUE
                              ELSE Len(calls) + 1
Submitted(by, scopes, force, warmth) ==
  IF Joins(by, scopes, force) THEN calls
  ELSE Append(calls, [by |-> by, scopes |-> scopes, force |-> force, warmth |-> warmth,
                      asked |-> IF force THEN tree ELSE 0, state |-> "queued", list |-> None])

\* The viewer's calls and the background ones have a lane of one each.
SameLane(c, d) == (calls[c].by = "panel") <=> (calls[d].by = "panel")
LaneFree(c) == \A d \in Ids : SameLane(c, d) =>
  calls[d].state # "posted" /\ (d < c => calls[d].state # "queued")

Fault == faults < MaxFaults /\ faults' = faults + 1

-----------------------------------------------------------------------------
(* The viewer *)

\* loadDiff, past its in-flight check.
Start(p, reset, force) ==
  LET scopes == IF reset THEN {"root"} ELSE {"full"} IN
  /\ Room
  /\ calls' = Submitted("panel", scopes, force, 0)
  /\ panel' = [p EXCEPT !.load = Target("panel", scopes, force), !.force = force,
                        !.queued = NoOptions, !.shown = IF reset THEN None ELSE @]

\* Mutation: the queued load forgets that it was forced.
Merge_NotForced(q, reset, force) ==
  [reset |-> q.reset \/ reset, force |-> q.force, any |-> TRUE]

\* A queued load keeps what any of its requests asked for.
Merge(q, reset, force) ==
  [reset |-> q.reset \/ reset, force |-> q.force \/ force, any |-> TRUE]

\* loadDiff: one load at a time, one queued behind it.
LoadDiff(p, reset, force) ==
  \/ /\ p.load # 0
     /\ panel' = [p EXCEPT !.queued = Merge(@, reset, force)]
     /\ UNCHANGED calls
  \/ p.load = 0 /\ Start(p, reset, force)

\* The finally of loadDiff: the queued load, or none.
LoadEnds(p) ==
  \/ ~p.queued.any /\ panel' = [p EXCEPT !.load = 0, !.force = FALSE] /\ UNCHANGED calls
  \/ p.queued.any /\ Start(p, p.queued.reset, p.queued.force)

\* The user opens the viewer: staged if its directory is another than last time.
Open ==
  /\ ~panel.open /\ panel.opens < MaxOpens
  /\ \E reset \in BOOLEAN :
       LoadDiff([panel EXCEPT !.open = TRUE, !.opens = @ + 1], reset, FALSE)
  /\ UNCHANGED <<worldVars, notices, warmDue, thread, faults, port, workerVars>>

Close ==
  /\ panel.open
  /\ panel' = [panel EXCEPT !.open = FALSE, !.since = 0]
  /\ UNCHANGED <<worldVars, notices, warmDue, mainVars, port, workerVars>>

\* onDiffCacheInvalidated: an open viewer reloads by force, a closed one drops
\* its list.
Notice ==
  /\ notices > 0
  /\ notices' = notices - 1
  /\ \/ panel.open /\ LoadDiff([panel EXCEPT !.since = tree], FALSE, TRUE)
     \/ ~panel.open /\ panel' = [panel EXCEPT !.shown = None] /\ UNCHANGED calls
  /\ UNCHANGED <<worldVars, warmDue, thread, faults, port, workerVars>>

\* The answer reaches the viewer; a staged load of a repository with submodules
\* goes on with the full list.
Shown ==
  /\ panel.load # 0
  /\ calls[panel.load].state = "answered"
  /\ LET p == [panel EXCEPT !.shown = calls[panel.load].list, !.aborted = FALSE] IN
     \/ /\ calls[panel.load].scopes = {"root"} /\ Submodules
        /\ Room
        /\ calls' = Submitted("panel", {"full"}, p.force, 0)
        /\ panel' = [p EXCEPT !.load = Target("panel", {"full"}, p.force)]
     \/ ~(calls[panel.load].scopes = {"root"} /\ Submodules) /\ LoadEnds(p)
  /\ UNCHANGED <<worldVars, notices, warmDue, thread, faults, port, workerVars>>

\* The call failed: the viewer shows the error.
ShowsError ==
  /\ panel.load # 0
  /\ calls[panel.load].state = "failed"
  /\ LoadEnds([panel EXCEPT !.shown = Failed, !.aborted = FALSE])
  /\ UNCHANGED <<worldVars, notices, warmDue, thread, faults, port, workerVars>>

\* getDiffWithWatchdog gives up before the call ends: a list on screen stays
\* unless it is empty, as that of a clean repository is.
Watchdog ==
  /\ panel.load # 0
  /\ Alive(panel.load)
  /\ Fault
  /\ \E list \in {panel.shown, Failed} \ {None} :
       LoadEnds([panel EXCEPT !.shown = list, !.aborted = TRUE])
  /\ UNCHANGED <<worldVars, notices, warmDue, thread, port, workerVars>>

-----------------------------------------------------------------------------
(* The repository, the mirror, the warms *)

Change ==
  /\ tree < MaxVersion
  /\ tree' = tree + 1
  /\ UNCHANGED <<mirror, owed, notices, warmDue, panel, mainVars, port, workerVars>>

\* Main forwards an invalidation to the worker thread, if there is one.
Forward(reason) == port' = IF thread = "up" THEN Append(port, [call |-> 0, reason |-> reason]) ELSE port

\* mirror-update: the snapshot, then the worker, the next warm, the viewer.
MirrorUpdate ==
  /\ \E v \in Version :
       /\ mirror < v /\ v <= tree
       /\ mirror' = v
       /\ Forward("mirror")
  /\ warmDue' = TRUE
  /\ notices' = notices + 1
  /\ UNCHANGED <<tree, owed, panel, mainVars, workerVars>>

\* A file is staged, discarded or saved through the program.
Mutate ==
  /\ tree < MaxVersion /\ owed = 0
  /\ tree' = tree + 1
  /\ owed' = tree + 1
  /\ UNCHANGED <<mirror, notices, warmDue, panel, mainVars, port, workerVars>>

\* Its handler returns: invalidateGitDiffAfterKnownMutation, scoped to the file,
\* which the viewer patches itself.
KnownMutation ==
  /\ owed # 0
  /\ Forward("manual")
  /\ owed' = 0
  /\ UNCHANGED <<tree, mirror, notices, warmDue, panel, mainVars, workerVars>>

\* The delay of an attach or a respawn, or the quiet window after an
\* invalidation, is over: warmDiffCache with the mirror's latest status.
Warm ==
  /\ warmDue /\ Room
  /\ warmDue' = FALSE
  /\ calls' = Submitted("warm", Scopes, FALSE, mirror)
  /\ UNCHANGED <<worldVars, notices, panel, thread, faults, port, workerVars>>

-----------------------------------------------------------------------------
(* The worker client *)

\* drainQueue starts the call and request() posts it, to a new thread if the
\* last one exited; a thread that replaces another makes a warm due.
Post(c) ==
  /\ c \in Ids
  /\ calls[c].state = "queued"
  /\ LaneFree(c)
  /\ calls' = [calls EXCEPT ![c].state = "posted"]
  /\ port' = Append(port, [call |-> c, reason |-> "none"])
  /\ thread' = "up"
  /\ warmDue' = (warmDue \/ thread = "gone")
  /\ UNCHANGED <<worldVars, notices, panel, faults, workerVars>>

\* The 90 s timer: the call fails and its lane is free, the job goes on.
TimeOut(c) ==
  /\ c \in Ids
  /\ calls[c].state = "posted"
  /\ Fault
  /\ calls' = [calls EXCEPT ![c].state = "failed"]
  /\ UNCHANGED <<worldVars, notices, warmDue, panel, thread, port, workerVars>>

\* What every pending call becomes when its thread exits.
Rejected(state) == IF state = "posted" THEN "failed" ELSE state

\* The thread exits, with its caches and every job.
WorkerExits ==
  /\ thread = "up"
  /\ Fault
  /\ thread' = "gone"
  /\ calls' = [c \in Ids |-> [calls[c] EXCEPT !.state = Rejected(@)]]
  /\ port' = <<>>
  /\ cache' = [s \in Scopes |-> None]
  /\ inFlight' = [s \in Scopes |-> None]
  /\ single' = None /\ stamp' = 0
  /\ jobs' = [j \in Jobs |-> Idle]
  /\ UNCHANGED <<worldVars, notices, warmDue, panel>>

-----------------------------------------------------------------------------
(* The worker thread *)

\* Loads of these scopes lose their generation: what they read is not kept.
Outdated(scopes) ==
  [j \in Jobs |-> IF j[2] \in scopes THEN [jobs[j] EXCEPT !.kept = FALSE] ELSE jobs[j]]

\* invalidateGitDiffCache: both scopes are dropped and their generations move; a
\* mutation-grade one fences off older statuses.  The loads go on.
Invalidated ==
  /\ port # <<>> /\ Head(port).call = 0
  /\ port' = Tail(port)
  /\ cache' = [s \in Scopes |-> None]
  /\ stamp' = IF Head(port).reason = "manual" THEN tree ELSE stamp
  /\ jobs' = Outdated(Scopes)
  /\ UNCHANGED <<worldVars, notices, warmDue, panel, mainVars, inFlight, single>>

\* The calls answered when these jobs are done: a warm answers with its last one.
\* The reply to a call that failed is ignored.
Answered(done, list) ==
  [c \in Ids |->
     IF /\ calls[c].state = "posted"
        /\ \E j \in done : j[1] = c
        /\ \A j \in Jobs \ done : j[1] = c => jobs'[j].stage = "idle"
     THEN [calls[c] EXCEPT !.state = "answered",
                           !.list = IF calls[c].by = "panel" THEN list ELSE None]
     ELSE calls[c]]

\* get() of a plain request, for each of its scopes: the entry, else the load
\* under way, else a load of its own.
GetPlain(c) ==
  LET mine == {c} \X calls[c].scopes
      hits == {j \in mine : cache[j[2]] # None}
      Got(s) == IF inFlight[s] # None THEN [Idle EXCEPT !.stage = "joined", !.on = inFlight[s]]
                                      ELSE [Idle EXCEPT !.stage = "opening", !.kept = TRUE]
  IN /\ ~calls[c].force
     /\ jobs' = [j \in Jobs |-> IF j \in mine \ hits THEN Got(j[2]) ELSE jobs[j]]
     /\ inFlight' = [s \in Scopes |->
          IF <<c, s>> \in mine \ hits /\ inFlight[s] = None THEN <<c, s>> ELSE inFlight[s]]
     /\ calls' = Answered(hits, IF hits = {} THEN None ELSE cache[(CHOOSE j \in hits : TRUE)[2]])
     /\ UNCHANGED <<cache, stamp>>

\* get() with force: the entry goes (and stamps the repository if there was
\* one), the generation moves, the load replaces any other.
GetForced(c) ==
  /\ calls[c].force
  /\ stamp' = IF \E s \in calls[c].scopes : cache[s] # None THEN tree ELSE stamp
  /\ cache' = [s \in Scopes |-> IF s \in calls[c].scopes THEN None ELSE cache[s]]
  /\ inFlight' = [s \in Scopes |-> IF s \in calls[c].scopes THEN <<c, s>> ELSE inFlight[s]]
  /\ jobs' = [j \in Jobs |-> IF j[1] = c /\ j[2] \in calls[c].scopes
                             THEN [Idle EXCEPT !.stage = "opening", !.kept = TRUE]
                             ELSE Outdated(calls[c].scopes)[j]]
  /\ UNCHANGED calls

\* A request is taken from the port: one job per scope.  The repository's root is
\* cached, so nothing comes between it and get().
Received ==
  /\ port # <<>> /\ Head(port).call # 0
  /\ port' = Tail(port)
  /\ GetPlain(Head(port).call) \/ GetForced(Head(port).call)
  /\ UNCHANGED <<worldVars, notices, warmDue, panel, thread, faults, single>>

\* Mutation: a forced load may share a read like any other.
MayShare_Always(j) == single # None

\* getSingleRepoDiff: any load but a forced one shares the read under way.
MayShare(j) == ~calls[j[1]].force /\ single # None

Share(j) ==
  /\ jobs[j].stage = "opening"
  /\ MayShare(j)
  /\ jobs' = [jobs EXCEPT ![j] = [@ EXCEPT !.stage = "shared", !.on = single]]
  /\ UNCHANGED <<worldVars, notices, warmDue, panel, mainVars, port, cache, inFlight,
                 single, stamp>>

\* shouldReuseWarmStatus: the mirror's status is young enough (never certain
\* here) and was taken after the last mutation-grade invalidation, so it saw
\* what the repository held then.
Reusable(j) == calls[j[1]].warmth # 0 /\ calls[j[1]].warmth >= stamp

Reuse(j) ==
  /\ jobs[j].stage = "opening"
  /\ ~MayShare(j)
  /\ Reusable(j)
  /\ single' = j
  /\ jobs' = [jobs EXCEPT ![j] = [@ EXCEPT !.stage = "counting", !.list = calls[j[1]].warmth]]
  /\ UNCHANGED <<worldVars, notices, warmDue, panel, mainVars, port, cache, inFlight,
                 stamp>>

OpenRead(j) ==
  /\ jobs[j].stage = "opening"
  /\ ~MayShare(j)
  /\ single' = j
  /\ jobs' = [jobs EXCEPT ![j] = [@ EXCEPT !.stage = "reading"]]
  /\ UNCHANGED <<worldVars, notices, warmDue, panel, mainVars, port, cache, inFlight,
                 stamp>>

\* git status reads the repository, or fails and leaves an empty list.
Status(j) ==
  /\ jobs[j].stage = "reading"
  /\ \E list \in {tree} \cup (IF MayFail THEN {Failed} ELSE {}) :
       jobs' = [jobs EXCEPT ![j] = [@ EXCEPT !.stage = "counting", !.list = list]]
  /\ UNCHANGED <<worldVars, notices, warmDue, panel, mainVars, port, cache, inFlight,
                 single, stamp>>

\* The line counts are in.  The read ends, and with it its load, those that share
\* it and those that joined one of these; a load is kept if its generation is still
\* the scope's.  (Reads of submodules are taken to end before the root's.)
ReadEnds(j) ==
  LET loads == {j} \cup {k \in Jobs : jobs[k].stage = "shared" /\ jobs[k].on = j}
      done  == loads \cup {k \in Jobs : jobs[k].stage = "joined" /\ jobs[k].on \in loads}
  IN /\ jobs[j].stage = "counting"
     /\ jobs' = [k \in Jobs |-> IF k \in done THEN Idle ELSE jobs[k]]
     /\ single' = IF single = j THEN None ELSE single
     /\ cache' = [s \in Scopes |-> IF \E k \in loads : k[2] = s /\ jobs[k].kept
                                  THEN jobs[j].list ELSE cache[s]]
     /\ inFlight' = [s \in Scopes |-> IF inFlight[s] \in loads THEN None ELSE inFlight[s]]
     /\ calls' = Answered(done, jobs[j].list)
     /\ UNCHANGED <<worldVars, notices, warmDue, panel, thread, faults, port, stamp>>

\* One step of a job.
Work(j) ==
  \/ Share(j) \/ Reuse(j) \/ OpenRead(j) \/ Status(j) \/ ReadEnds(j)

Viewer == Open \/ Close \/ Notice \/ Shown \/ ShowsError \/ Watchdog
World == Change \/ Mutate \/ KnownMutation \/ MirrorUpdate \/ Warm

Next ==
  \/ Viewer \/ World
  \/ \E c \in Id : Post(c) \/ TimeOut(c)
  \/ WorkerExits \/ Invalidated \/ Received
  \/ \E j \in Jobs : Work(j)

Spec == Init /\ [][Next]_vars

-----------------------------------------------------------------------------
AtLeast(list, v) == list \in Version => list >= v

\* A forced load shows every change made before it was asked for: neither a
\* dedupe key, nor an entry, nor a load or a read under way, nor a mirror's
\* status gives it an older list (git-utils.ts:2059, git-diff-request-cache.ts:101).
ForcedIsFresh ==
  \A c \in Ids : calls[c].force /\ calls[c].state = "answered" =>
    AtLeast(calls[c].list, calls[c].asked)

\* A viewer that was open when an invalidation reached it shows, once it rests,
\* what the repository held then or something newer, an error, or a list that
\* its watchdog left on screen, however the loads overlapped, were queued behind
\* each other, timed out or lost their worker.
RestsFresh ==
  panel.open /\ panel.load = 0 => panel.aborted \/ AtLeast(panel.shown, panel.since)

\* What the comments at git-utils.ts:451 and git-diff-warm-status-gate.ts:45
\* promise, and the code does not keep: once the worker has no invalidation before
\* it, a list in the cache is at least as new as the router's snapshot.
EntryIsCurrent ==
  (\A i \in DOMAIN port : port[i].call # 0) =>
    \A s \in Scopes : AtLeast(cache[s], mirror)
=============================================================================
