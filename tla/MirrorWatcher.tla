---------------------------- MODULE MirrorWatcher ----------------------------
(***************************************************************************)
(* The watcher supervisor of the Git-state mirror worker                   *)
(* (git-state-mirror-worker-entry.ts and -core.ts): which working          *)
(* directories are attached, which watcher group serves each repository,   *)
(* and the native subscription, restart, polling and suspended-probe       *)
(* timers of each group.                                                   *)
(*                                                                         *)
(* The worker is one JavaScript thread: a handler runs until it awaits,    *)
(* and everything that happens during an await is another action.  A       *)
(* suspended handler is a record in `ops'.  Entries and groups are objects *)
(* and handlers keep references to them after the maps have moved on, so   *)
(* both have identities; 0 is "no object".                                 *)
(*                                                                         *)
(* Left to other modules: which recompute runs when (MirrorRecompute), the *)
(* shutdown barrier, and the .gitignore read before a subscribe.           *)
(***************************************************************************)
EXTENDS Naturals, Sequences, FiniteSets

CONSTANTS
  Cwd, Repo, NoRepo,
  RepoOf,        \* the repository each cwd is in, once it is one
  MaxToggle, MaxFault, MaxBoth, MaxEntry, MaxGroup, MaxSub, MaxProbe
    \* bounds of the model; MaxToggle counts subscriptions and user-driven rechecks,
    \* MaxBoth these and the faults together

ASSUME WatchAssumption ==
  /\ NoRepo \notin Repo
  /\ RepoOf \in [Cwd -> Repo]
  /\ {MaxToggle, MaxFault, MaxBoth, MaxEntry, MaxGroup, MaxSub, MaxProbe} \subseteq Nat

VARIABLES
  wanted,    \* the router's refCounts: is the cwd subscribed
  pathUp,    \* the repositories whose root directory exists
  entries,   \* entries: Map<cwd, entry>
  entry,     \* the entry objects, in the order they were made
  keyOf,     \* entryToGroupKey
  groups,    \* watcherGroups: Map<repoRootKey, group>
  group,     \* the group objects, likewise
  sub,       \* the native subscriptions, likewise
  ops,       \* the suspended handlers
  toggles, faults,  \* how much of each bound is used
  raced,     \* history: the cwds that attached or joined while a detach was awaited
  spoilt,    \* history: the groups joined then, or probed twice at once
  opener     \* history: the group each subscription was opened for

watchVars == <<wanted, pathUp, entries, entry, keyOf, groups, group, sub, ops,
              toggles, faults>>
env  == <<wanted, pathUp, toggles, faults>>

MayToggle == toggles < MaxToggle /\ toggles + faults < MaxBoth
MayFault  == faults < MaxFault /\ toggles + faults < MaxBoth

Healths == {"idle", "attaching", "healthy", "recovering", "degraded-polling", "suspended"}
OpKinds == {"attach", "revalidate", "recompute", "access", "subscribe", "fault", "suspend", "probe", "detach"}

NewEntry(c) == [cwd |-> c, known |-> FALSE, attached |-> FALSE, attaching |-> FALSE,
                detaching |-> FALSE, group |-> NoRepo, busy |-> FALSE,
                queued |-> FALSE, debounce |-> FALSE]
NewGroup(r) == [repo |-> r, members |-> {}, dispose |-> 0, attaching |-> FALSE,
                health |-> "idle", restart |-> FALSE, poll |-> FALSE, probe |-> FALSE]

\* A suspended handler: what it awaits, the objects it holds, what it saw.
Op(kind, e, g, s, x) == [kind |-> kind, e |-> e, g |-> g, s |-> s, x |-> x]

Entries == 1..Len(entry)
Groups == 1..Len(group)
Subs == 1..Len(sub)

WatchTypeOK ==
  /\ wanted \in [Cwd -> BOOLEAN]
  /\ pathUp \subseteq Repo
  /\ entries \in [Cwd -> 0..Len(entry)]
  /\ Len(entry) <= MaxEntry
  /\ \A e \in Entries : entry[e].cwd \in Cwd /\ entry[e].group \in Repo \cup {NoRepo}
  /\ keyOf \in [Cwd -> Repo \cup {NoRepo}]
  /\ groups \in [Repo -> 0..Len(group)]
  /\ Len(group) <= MaxGroup /\ Len(sub) <= MaxSub
  /\ \A g \in Groups : /\ group[g].health \in Healths
                       /\ group[g].members \subseteq Cwd
                       /\ group[g].dispose \in 0..Len(sub)
  /\ \A s \in Subs : sub[s] \in {"opening", "live", "closing", "closed"}
  /\ \A o \in ops : /\ o.kind \in OpKinds /\ o.e \in 0..Len(entry)
                    /\ o.g \in 0..Len(group) /\ o.s \in 0..Len(sub)

WatchInit ==
  /\ wanted = [c \in Cwd |-> FALSE]
  /\ pathUp = Repo
  /\ entries = [c \in Cwd |-> 0]
  /\ entry = <<>>
  /\ keyOf = [c \in Cwd |-> NoRepo]
  /\ groups = [r \in Repo |-> 0]
  /\ group = <<>>
  /\ sub = <<>>
  /\ ops = {}
  /\ toggles = 0 /\ faults = 0
  /\ raced = {} /\ spoilt = {} /\ opener = <<>>

-----------------------------------------------------------------------------
(* Groups and subscriptions                                                *)

\* isWatcherGroupCurrent
Current(g) == group[g].members # {} /\ groups[group[g].repo] = g

\* The synchronous start of ensureWatcherForGroup on a group value: nothing if
\* an attach is in flight, else the restart timer is cleared and the path is
\* about to be probed.
Ensured(G, g, health) ==
  IF G[g].attaching THEN G
  ELSE [G EXCEPT ![g].attaching = TRUE, ![g].restart = FALSE, ![g].health = health]
EnsureOps(G, g) == IF G[g].attaching THEN {} ELSE {Op("access", 0, g, 0, NoRepo)}

\* enterSuspended after its dispose.
Suspended(G, g) == [G EXCEPT ![g].health = "suspended", ![g].probe = TRUE]

\* Mutation: polling and restart begin but the health is left as it was.
Degraded_Silent(G, g) ==
  [G EXCEPT ![g].poll = TRUE, ![g].restart = G[g].restart \/ G[g].members # {}]

\* handleWatcherFault after its dispose, for a fault that is not a missing path:
\* startDegradedPolling, then scheduleWatcherRestart unless the group is empty.
Degraded(G, g) ==
  [G EXCEPT ![g].health = "degraded-polling", ![g].poll = TRUE,
            ![g].restart = G[g].restart \/ G[g].members # {}]

\* handleWatcherFault and enterSuspended from the point where the live
\* subscription, if any, has been disposed; enterSuspended disposes again what
\* a restart attached meanwhile.
AfterDispose(G, S, O, g, cause) ==
  \/ /\ cause # "path-missing"
     /\ group' = Degraded(G, g) /\ sub' = S /\ ops' = O
  \/ LET H == [G EXCEPT ![g].restart = FALSE, ![g].poll = FALSE] IN
     /\ cause = "path-missing"
     /\ \/ /\ H[g].dispose = 0
           /\ group' = Suspended(H, g) /\ sub' = S /\ ops' = O
        \/ /\ H[g].dispose # 0
           /\ group' = [H EXCEPT ![g].dispose = 0]
           /\ sub' = [S EXCEPT ![H[g].dispose] = "closing"]
           /\ ops' = O \cup {Op("suspend", 0, g, H[g].dispose, NoRepo)}

\* handleWatcherFault from the start.
Fault(G, S, O, g, cause) ==
  \/ /\ G[g].members = {}
     /\ group' = G /\ sub' = S /\ ops' = O
  \/ /\ G[g].members # {} /\ G[g].dispose = 0
     /\ AfterDispose(G, S, O, g, cause)
  \/ /\ G[g].members # {} /\ G[g].dispose # 0
     /\ group' = [G EXCEPT ![g].dispose = 0]
     /\ sub' = [S EXCEPT ![G[g].dispose] = "closing"]
     /\ ops' = O \cup {Op("fault", 0, g, G[g].dispose, cause)}

\* ensureWatcherForGroup resumes after fs.access: path missing, group gone, or
\* the native subscribe starts.
AccessResumes(o) ==
  LET g == o.g  freed == [group EXCEPT ![g].attaching = FALSE] IN
  /\ o \in ops /\ o.kind = "access"
  /\ \/ /\ group[g].repo \notin pathUp
        /\ Fault(freed, sub, ops \ {o}, g, "path-missing")
     \/ /\ group[g].repo \in pathUp /\ ~Current(g)
        /\ group' = freed /\ ops' = ops \ {o} /\ UNCHANGED sub
     \/ /\ group[g].repo \in pathUp /\ Current(g) /\ Len(sub) < MaxSub
        /\ sub' = Append(sub, "opening")
        /\ ops' = (ops \ {o}) \cup {Op("subscribe", 0, g, Len(sub) + 1, NoRepo)}
        /\ UNCHANGED group
  /\ UNCHANGED <<env, entries, entry, keyOf, groups>>

\* Mutation: a subscribe that resolves for a group gone meanwhile is kept.
SubscribeResumes_Keeps(o) ==
  LET g == o.g IN
  /\ o \in ops /\ o.kind = "subscribe"
  /\ sub' = [sub EXCEPT ![o.s] = "live"]
  /\ ops' = ops \ {o}
  /\ group' = [group EXCEPT ![g].attaching = FALSE, ![g].dispose = o.s, ![g].poll = FALSE,
                            ![g].probe = FALSE, ![g].health = "healthy"]
  /\ UNCHANGED <<env, entries, entry, keyOf, groups>>

\* Mutation: a failed subscribe is not handed to the fault supervisor.
SubscribeResumes_Swallows(o) ==
  LET g == o.g IN
  /\ o \in ops /\ o.kind = "subscribe"
  /\ ops' = ops \ {o}
  /\ \/ /\ sub' = [sub EXCEPT ![o.s] = IF Current(g) THEN "live" ELSE "closing"]
        /\ group' = IF Current(g)
             THEN [group EXCEPT ![g].attaching = FALSE, ![g].dispose = o.s, ![g].poll = FALSE,
                                ![g].probe = FALSE, ![g].health = "healthy"]
             ELSE [group EXCEPT ![g].attaching = FALSE]
        /\ UNCHANGED faults
     \/ /\ MayFault
        /\ faults' = faults + 1
        /\ group' = [group EXCEPT ![g].attaching = FALSE]
        /\ sub' = [sub EXCEPT ![o.s] = "closed"]
  /\ UNCHANGED <<wanted, pathUp, toggles, entries, entry, keyOf, groups>>

\* The native subscribe settles: attached, disposed at once when the group is
\* no longer current, or failed.
SubscribeResumes(o) ==
  LET g == o.g  freed == [group EXCEPT ![g].attaching = FALSE] IN
  /\ o \in ops /\ o.kind = "subscribe"
  /\ \/ /\ Current(g)
        /\ sub' = [sub EXCEPT ![o.s] = "live"]
        /\ group' = [freed EXCEPT ![g].dispose = o.s, ![g].poll = FALSE,
                                  ![g].probe = FALSE, ![g].health = "healthy"]
        /\ ops' = ops \ {o}
        /\ UNCHANGED faults
     \/ /\ ~Current(g)
        /\ sub' = [sub EXCEPT ![o.s] = "closing"]
        /\ group' = freed
        /\ ops' = ops \ {o}
        /\ UNCHANGED faults
     \/ /\ MayFault
        /\ faults' = faults + 1
        /\ Fault(freed, [sub EXCEPT ![o.s] = "closed"], ops \ {o}, g, "subscribe-error")
  /\ UNCHANGED <<wanted, pathUp, toggles, entries, entry, keyOf, groups>>

\* The native unsubscribe of a subscription completes.
Unsubscribed(s) ==
  /\ sub[s] = "closing"
  /\ sub' = [sub EXCEPT ![s] = "closed"]
  /\ UNCHANGED <<env, entries, entry, keyOf, groups, group, ops>>

\* handleWatcherFault, or the second dispose of enterSuspended, resumes.
FaultResumes(o) ==
  /\ o \in ops /\ o.kind \in {"fault", "suspend"}
  /\ sub[o.s] = "closed"
  /\ \/ o.kind = "fault" /\ AfterDispose(group, sub, ops \ {o}, o.g, o.x)
     \/ /\ o.kind = "suspend"
        /\ group' = Suspended(group, o.g) /\ ops' = ops \ {o} /\ UNCHANGED sub
  /\ UNCHANGED <<env, entries, entry, keyOf, groups>>

\* The subscription's callback reports an error for its group.
CallbackError(g, s, cause) ==
  /\ MayFault
  /\ faults' = faults + 1
  /\ sub[s] = "live" /\ group[g].dispose = s
  /\ Fault(group, sub, ops, g, cause)
  /\ UNCHANGED <<wanted, pathUp, toggles, entries, entry, keyOf, groups>>

\* The restart timer of scheduleWatcherRestart fires.
RestartFires(g) ==
  LET G == [group EXCEPT ![g].restart = FALSE] IN
  /\ group[g].restart
  /\ group' = IF Current(g) THEN Ensured(G, g, "recovering") ELSE G
  /\ ops' = IF Current(g) THEN ops \cup EnsureOps(G, g) ELSE ops
  /\ UNCHANGED <<env, entries, entry, keyOf, groups, sub>>

\* The suspended-probe interval fires: fs.access of the root is under way.  A
\* probe that outlasts its interval overlaps the next one.
ProbeTick(g) ==
  /\ group[g].probe /\ group[g].members # {}
  /\ LET free == {k \in 1..MaxProbe : Op("probe", 0, g, 0, k) \notin ops} IN
     \E k \in free : /\ \A j \in free : k <= j
                    /\ ops' = ops \cup {Op("probe", 0, g, 0, k)}
  /\ UNCHANGED <<env, entries, entry, keyOf, groups, group, sub>>

\* runSuspendedProbe resumes: a root that is back is attached again.
ProbeResumes(o) ==
  LET g == o.g
      G == [group EXCEPT ![g].probe = FALSE, ![g].health = "recovering"] IN
  /\ o \in ops /\ o.kind = "probe"
  /\ \/ /\ group[g].repo \notin pathUp
        /\ ops' = ops \ {o} /\ UNCHANGED group
     \/ /\ group[g].repo \in pathUp
        /\ group' = IF Current(g) THEN Ensured(G, g, "recovering") ELSE G
        /\ ops' = (ops \ {o}) \cup IF Current(g) THEN EnsureOps(G, g) ELSE {}
  /\ UNCHANGED <<env, entries, entry, keyOf, groups, sub>>

-----------------------------------------------------------------------------
(* Attach                                                                  *)

\* The detaches of a repository that await the native unsubscribe.
DetachesOf(r) == {o \in ops : o.kind = "detach" /\ RepoOf[entry[o.e].cwd] = r}

\* attachWatcherForEntry(E[e]): nothing for an entry that is detaching or has a
\* group, nothing but the end of the attach for a cwd not found to be a repository;
\* else the entry joins its repository's group, and whoever creates the group
\* starts its watcher.
AttachWatcher(E, O, e) ==
  LET c == E[e].cwd  r == RepoOf[c] IN
  \/ /\ E[e].detaching \/ E[e].group # NoRepo
     /\ entry' = E /\ ops' = O /\ UNCHANGED <<keyOf, groups, group>>
  \/ /\ ~E[e].detaching /\ E[e].group = NoRepo /\ ~E[e].known
     /\ entry' = [E EXCEPT ![e].attaching = FALSE]
     /\ ops' = O /\ UNCHANGED <<keyOf, groups, group>>
  \/ /\ ~E[e].detaching /\ E[e].group = NoRepo /\ E[e].known
     /\ entry' = [E EXCEPT ![e].group = r, ![e].attaching = FALSE, ![e].attached = TRUE]
     /\ keyOf' = [keyOf EXCEPT ![c] = r]
     /\ \/ /\ groups[r] # 0
           /\ group' = [group EXCEPT ![groups[r]].members = @ \cup {c}]
           /\ ops' = O /\ UNCHANGED groups
        \/ LET g == Len(group) + 1
               G == Append(group, [NewGroup(r) EXCEPT !.members = {c}]) IN
           /\ groups[r] = 0 /\ g <= MaxGroup
           /\ groups' = [groups EXCEPT ![r] = g]
           /\ group' = Ensured(G, g, "attaching")
           /\ ops' = O \cup EnsureOps(G, g)

\* Mutation: an attach in flight is not resumed when the cwd comes back.
Attach_NoResume(c) ==
  LET e == IF entries[c] # 0 THEN entries[c] ELSE Len(entry) + 1
      E == IF entries[c] # 0 THEN entry ELSE Append(entry, NewEntry(c)) IN
  /\ ~wanted[c] /\ MayToggle /\ e <= MaxEntry
  /\ wanted' = [wanted EXCEPT ![c] = TRUE]
  /\ toggles' = toggles + 1
  /\ entries' = [entries EXCEPT ![c] = e]
  /\ \/ /\ E[e].attached \/ E[e].attaching
        /\ entry' = E /\ UNCHANGED ops
     \/ /\ ~E[e].attached /\ ~E[e].attaching /\ ~E[e].busy
        /\ entry' = [E EXCEPT ![e].detaching = FALSE, ![e].attaching = TRUE, ![e].busy = TRUE]
        /\ ops' = ops \cup {Op("attach", e, 0, 0, NoRepo)}
  /\ UNCHANGED <<pathUp, faults, sub, keyOf, groups, group>>

\* The router's first subscription of a cwd: handleAttachWatch, up to its
\* initial recompute.  An entry still in the map is reused.
Attach(c) ==
  LET e == IF entries[c] # 0 THEN entries[c] ELSE Len(entry) + 1
      E == IF entries[c] # 0 THEN entry ELSE Append(entry, NewEntry(c)) IN
  /\ ~wanted[c] /\ MayToggle /\ e <= MaxEntry
  /\ wanted' = [wanted EXCEPT ![c] = TRUE]
  /\ toggles' = toggles + 1
  /\ entries' = [entries EXCEPT ![c] = e]
  /\ \/ /\ E[e].attached \/ E[e].attaching    \* already attached, or resumed in flight
        /\ entry' = [E EXCEPT ![e].detaching = FALSE]
        /\ UNCHANGED <<ops, keyOf, groups, group>>
     \/ LET F == [E EXCEPT ![e].detaching = FALSE, ![e].attaching = TRUE] IN
        /\ ~E[e].attached /\ ~E[e].attaching
        /\ \/ /\ ~E[e].busy
              /\ entry' = [F EXCEPT ![e].busy = TRUE]
              /\ ops' = ops \cup {Op("attach", e, 0, 0, NoRepo)}
              /\ UNCHANGED <<keyOf, groups, group>>
           \/ /\ E[e].busy                     \* queued behind the recompute in flight
              /\ AttachWatcher([F EXCEPT ![e].queued = TRUE], ops, e)
  /\ UNCHANGED <<pathUp, faults, sub>>

\* A recompute of entry e ends: the state is kept unless a detach was requested,
\* and a recompute that was queued meanwhile is debounced.
Recomputed(e, found) ==
  [entry EXCEPT ![e].busy = FALSE,
                ![e].known = IF entry[e].detaching THEN @ ELSE found,
                ![e].queued = @ /\ entry[e].detaching,
                ![e].debounce = @ \/ (entry[e].queued /\ ~entry[e].detaching)]

\* Does a recompute find the repository?  git init may come between two of them,
\* and a rev-parse that is killed, fails or sits in its backoff finds none.
Found == BOOLEAN

\* Mutation: a detach requested during the recompute is not looked at.
AttachResumes_IgnoresDetach(o) ==
  /\ o \in ops /\ o.kind = "attach"
  /\ \E found \in Found : AttachWatcher(Recomputed(o.e, found), ops \ {o}, o.e)
  /\ UNCHANGED <<env, sub, entries>>

\* handleAttachWatch resumes after its recompute.
AttachResumes(o) ==
  LET e == o.e IN
  /\ o \in ops /\ o.kind = "attach"
  /\ \E found \in Found :
       LET E == Recomputed(e, found) IN
       \/ /\ entry[e].detaching
          /\ entry' = [E EXCEPT ![e].attaching = FALSE]
          /\ entries' = [entries EXCEPT ![entry[e].cwd] = 0]
          /\ ops' = ops \ {o}
          /\ UNCHANGED <<keyOf, groups, group>>
       \/ /\ ~entry[e].detaching
          /\ AttachWatcher(E, ops \ {o}, e)
          /\ UNCHANGED entries
  /\ UNCHANGED <<env, sub>>

-----------------------------------------------------------------------------
(* Revalidation and the non-git -> git transition                          *)

\* runRecompute for an entry: refused while detaching, queued while busy.
StartRecompute(E, e, kind) ==
  /\ ~E[e].detaching
  /\ \/ /\ E[e].busy
        /\ entry' = [E EXCEPT ![e].queued = TRUE] /\ UNCHANGED ops
     \/ /\ ~E[e].busy
        /\ entry' = [E EXCEPT ![e].busy = TRUE]
        /\ ops' = ops \cup {Op(kind, e, 0, 0, NoRepo)}

\* handleFocusResync / handleRevalidate: a user-driven recompute.
Revalidate(c) ==
  /\ wanted[c] /\ entries[c] # 0 /\ MayToggle
  /\ toggles' = toggles + 1
  /\ StartRecompute(entry, entries[c], "revalidate")
  /\ UNCHANGED <<wanted, pathUp, faults, entries, keyOf, groups, group, sub>>

\* The debounce timer of scheduleRecompute fires: reason 'watcher'.
DebounceFires(e) ==
  /\ entry[e].debounce
  /\ StartRecompute([entry EXCEPT ![e].debounce = FALSE], e, "recompute")
  /\ UNCHANGED <<env, entries, keyOf, groups, group, sub>>

\* Mutation: reattachWatcherIfBecameGit is dropped.
RecomputeResumes_NoReattach(o) ==
  /\ o \in ops /\ o.kind \in {"revalidate", "recompute"}
  /\ \E found \in Found : entry' = Recomputed(o.e, found)
  /\ ops' = ops \ {o}
  /\ UNCHANGED <<env, entries, keyOf, groups, group, sub>>

\* The recompute ends; reattachWatcherIfBecameGit follows a user-driven one
\* when shouldReattachWatcherAfterRecompute.
RecomputeResumes(o) ==
  LET e == o.e IN
  /\ o \in ops /\ o.kind \in {"revalidate", "recompute"}
  /\ \E found \in Found :
       LET E == Recomputed(e, found)
           becameGit == E[e].known /\ E[e].group = NoRepo /\ ~E[e].detaching /\ ~E[e].attaching IN
       \/ /\ o.kind = "revalidate" /\ becameGit
          /\ AttachWatcher(E, ops \ {o}, e)
       \/ /\ o.kind # "revalidate" \/ ~becameGit
          /\ entry' = E /\ ops' = ops \ {o}
          /\ UNCHANGED <<keyOf, groups, group>>
  /\ UNCHANGED <<env, entries, sub>>

-----------------------------------------------------------------------------
(* Detach                                                                  *)

\* cleanupMirrorWorkerEntry, with detachRequested.
Detaching(e) ==
  [entry EXCEPT ![e].detaching = TRUE, ![e].queued = FALSE, ![e].debounce = FALSE]

\* The router's last unsubscription: handleDetachWatch, requestMirrorDetach and
\* detachEntryFromWatcherGroup up to the await of the native unsubscribe.
Detach(c) ==
  LET e == entries[c]  r == keyOf[c]  g == IF r = NoRepo THEN 0 ELSE groups[r] IN
  /\ wanted[c]
  /\ wanted' = [wanted EXCEPT ![c] = FALSE]
  /\ \/ /\ e = 0
        /\ UNCHANGED <<entries, entry, keyOf, groups, group, sub, ops>>
     \/ /\ e # 0 /\ entry[e].attaching /\ ~entry[e].attached      \* pending-attach
        /\ entry' = Detaching(e)
        /\ UNCHANGED <<entries, keyOf, groups, group, sub, ops>>
     \/ /\ e # 0 /\ ~entry[e].attaching /\ ~entry[e].attached     \* idle
        /\ entry' = Detaching(e)
        /\ entries' = [entries EXCEPT ![c] = 0]
        /\ UNCHANGED <<keyOf, groups, group, sub, ops>>
     \/ LET E == [Detaching(e) EXCEPT ![e].attached = FALSE] IN
        /\ e # 0 /\ entry[e].attached
        /\ keyOf' = [keyOf EXCEPT ![c] = NoRepo]
        /\ \/ /\ g = 0
              /\ entry' = E /\ entries' = [entries EXCEPT ![c] = 0]
              /\ UNCHANGED <<groups, group, sub, ops>>
           \/ LET left == group[g].members \ {c}
                  G == [group EXCEPT ![g].members = left]
                  cleared == [G EXCEPT ![g].restart = FALSE, ![g].poll = FALSE,
                                       ![g].probe = FALSE, ![g].dispose = 0] IN
              /\ g # 0
              /\ entry' = [E EXCEPT ![e].group = NoRepo]
              /\ \/ /\ left # {}
                    /\ group' = G /\ entries' = [entries EXCEPT ![c] = 0]
                    /\ UNCHANGED <<groups, sub, ops>>
                 \/ /\ left = {} /\ group[g].dispose = 0
                    /\ group' = cleared
                    /\ groups' = [groups EXCEPT ![r] = 0]
                    /\ entries' = [entries EXCEPT ![c] = 0]
                    /\ UNCHANGED <<sub, ops>>
                 \/ /\ left = {} /\ group[g].dispose # 0
                    /\ group' = cleared
                    /\ sub' = [sub EXCEPT ![group[g].dispose] = "closing"]
                    /\ ops' = ops \cup {Op("detach", e, 0, group[g].dispose, r)}
                    /\ UNCHANGED <<groups, entries>>
  /\ UNCHANGED <<pathUp, toggles, faults>>

\* The await is over: the group's key and the cwd leave their maps, whatever
\* the maps hold by now, and the entry is cleaned up again.
DetachResumes(o) ==
  LET e == o.e IN
  /\ o \in ops /\ o.kind = "detach"
  /\ sub[o.s] = "closed"
  /\ groups' = [groups EXCEPT ![o.x] = 0]
  /\ entries' = [entries EXCEPT ![entry[e].cwd] = 0]
  /\ entry' = [entry EXCEPT ![e].queued = FALSE, ![e].debounce = FALSE]
  /\ ops' = ops \ {o}
  /\ UNCHANGED <<env, keyOf, group, sub>>

-----------------------------------------------------------------------------
(* The environment                                                         *)

\* A repository's root disappears (a volume is unmounted) and comes back.
PathLost(r) ==
  /\ r \in pathUp /\ MayFault
  /\ faults' = faults + 1
  /\ pathUp' = pathUp \ {r}
  /\ UNCHANGED <<wanted, entries, entry, keyOf, groups, group, sub, ops,
                 toggles>>
PathBack(r) ==
  /\ r \notin pathUp
  /\ pathUp' = pathUp \cup {r}
  /\ UNCHANGED <<wanted, entries, entry, keyOf, groups, group, sub, ops,
                 toggles, faults>>

Resume == \E o \in ops :
  \/ AccessResumes(o) \/ SubscribeResumes(o) \/ FaultResumes(o) \/ ProbeResumes(o)
  \/ AttachResumes(o) \/ RecomputeResumes(o) \/ DetachResumes(o)

WatchNext ==
  \/ \E c \in Cwd : Attach(c) \/ Detach(c) \/ Revalidate(c)
  \/ \E r \in Repo : PathLost(r) \/ PathBack(r)
  \/ \E g \in Groups : RestartFires(g) \/ ProbeTick(g)
  \/ \E g \in Groups, s \in Subs, cause \in {"callback-error", "path-missing"} :
       CallbackError(g, s, cause)
  \/ \E s \in Subs : Unsubscribed(s)
  \/ \E e \in Entries : DebounceFires(e)
  \/ Resume

\* Awaited system calls and native operations complete, timers fire, and an
\* unmounted root comes back.  The handlers that can wait side by side are
\* scheduled one by one.
WatchFairness ==
  /\ \A r \in Repo : WF_watchVars(PathBack(r))
  /\ \A s \in 1..MaxSub : WF_watchVars(s \in Subs /\ Unsubscribed(s))
  /\ \A g \in 1..MaxGroup :
       /\ WF_watchVars(g \in Groups /\ RestartFires(g))
       /\ WF_watchVars(g \in Groups /\ ProbeTick(g))
       /\ WF_watchVars(\E o \in ops : o.g = g /\ (AccessResumes(o) \/ SubscribeResumes(o)))
       /\ WF_watchVars(\E o \in ops : o.g = g /\ FaultResumes(o))
       /\ WF_watchVars(\E o \in ops : o.g = g /\ ProbeResumes(o))
  /\ \A e \in 1..MaxEntry :
       /\ WF_watchVars(e \in Entries /\ DebounceFires(e))
       /\ WF_watchVars(\E o \in ops : o.e = e /\ (AttachResumes(o) \/ RecomputeResumes(o)))
       /\ WF_watchVars(\E o \in ops : o.e = e /\ DetachResumes(o))

-----------------------------------------------------------------------------
(* History variables: recorded at every step, read by the properties only  *)

\* c is subscribed again while its own detach is awaited.
Reattached(c) == ~wanted[c] /\ wanted'[c] /\ \E o \in DetachesOf(RepoOf[c]) : entry[o.e].cwd = c
\* c joins its repository's group while a detach from it is awaited.
JoinedLate(c) == keyOf[c] = NoRepo /\ keyOf'[c] # NoRepo /\ DetachesOf(RepoOf[c]) # {}
\* Group g gains a member while a detach from its repository is awaited.
GroupLate(g) ==
  /\ DetachesOf(group'[g].repo) # {}
  /\ group'[g].members \ (IF g \in Groups THEN group[g].members ELSE {}) # {}
\* A second probe of g starts before the first one has answered.
ProbesOverlap(g) == \E o, p \in ops' : /\ o # p /\ o.kind = "probe" /\ p.kind = "probe"
                                     /\ o.g = g /\ p.g = g

History ==
  /\ raced' = raced \cup {c \in Cwd : Reattached(c) \/ JoinedLate(c)}
  /\ spoilt' = spoilt \cup {g \in 1..Len(group') : GroupLate(g) \/ ProbesOverlap(g)}
  /\ opener' = [s \in 1..Len(sub') |-> IF s \in Subs THEN opener[s]
                  ELSE (CHOOSE o \in ops' : o.kind = "subscribe" /\ o.s = s).g]

specVars == <<watchVars, raced, spoilt, opener>>
WatchSpec == WatchInit /\ [][WatchNext /\ History]_specVars
WatchFairSpec == WatchSpec /\ WatchFairness

-----------------------------------------------------------------------------
(* Properties                                                              *)

PendingOn(c) == {o \in ops : o.e # 0 /\ entry[o.e].cwd = c}

\* Every live native subscription is the one the group that opened it will
\* dispose, and that group still serves somebody: none is overwritten or left
\* behind (the checks around subscribe in ensureWatcherForGroup), but for a group
\* joined during a detach or probed twice at once.  The state is well typed.
NoOrphanSubscription ==
  /\ WatchTypeOK
  /\ \A s \in Subs : sub[s] = "live" /\ opener[s] \notin spoilt =>
       Current(opener[s]) /\ group[opener[s]].dispose = s

\* A subscribed cwd with no handler of its own under way is held by the worker,
\* and once attached it is a member of its repository's current group: the
\* reconcile heartbeat walks that membership, so a cwd missing from it is never
\* refreshed again (runGroupReconcile).  Only a cwd that itself attached or joined
\* while a detach was awaited may be missing, never its siblings.
HeartbeatCovers ==
  \A c \in Cwd \ raced : LET e == entries[c] IN
    wanted[c] /\ PendingOn(c) = {} =>
      /\ e # 0 /\ ~entry[e].detaching
      /\ entry[e].attached =>
           /\ keyOf[c] = RepoOf[c] /\ entry[e].group = RepoOf[c]
           /\ groups[RepoOf[c]] # 0 /\ c \in group[groups[RepoOf[c]]].members

\* An unsubscribed cwd with no handler of its own under way is forgotten by
\* every map (handleDetachWatch), unless it attached or joined while a detach was
\* awaited.
ReleasedWhenUnwanted ==
  \A c \in Cwd \ raced : ~wanted[c] /\ PendingOn(c) = {} =>
    /\ entries[c] = 0 /\ keyOf[c] = NoRepo
    /\ \A g \in Groups : c \notin group[g].members

\* The health shown to the user is the truth once no fault is being handled:
\* "healthy" exactly when a subscription is attached (updateWatcherHealth), but
\* for a group joined during a detach or probed twice at once.
HealthIsHonest ==
  \A g \in Groups \ spoilt :
    Current(g) /\ {o \in ops : o.g = g /\ o.kind \in {"fault", "suspend"}} = {} =>
      (group[g].health = "healthy" <=> group[g].dispose # 0)

\* The recompute of an attach, or a user-driven one, that finds a repository
\* leaves its entry a member of a group, unless the cwd is being detached, a
\* user-driven one overlaps an attach, or the cwd attached or joined while a detach
\* was awaited: that is how "git init" in an open directory becomes watched
\* (reattachWatcherIfBecameGit).
RecheckWatches ==
  [][\A o \in ops \ ops' :
       (/\ o.kind = "attach" \/ (o.kind = "revalidate" /\ ~entry[o.e].attaching)
        /\ entry'[o.e].known /\ ~entry[o.e].detaching
        /\ entry[o.e].cwd \notin raced') =>
         /\ entry'[o.e].group # NoRepo
         /\ entry'[o.e].cwd \in group'[groups'[entry'[o.e].group]].members]_specVars

\* After every fault a subscribed directory that was attached is watched again,
\* even by a group probed twice at once, unless it attached or joined while a
\* detach was awaited.
WatcherComesBack ==
  \A c \in Cwd : []<>(\/ ~wanted[c] \/ c \in raced
                      \/ entries[c] # 0 /\ ~entry[entries[c]].attached
                      \/ LET g == groups[RepoOf[c]] IN
                           g # 0 /\ c \in group[g].members /\ group[g].dispose # 0)
=============================================================================
