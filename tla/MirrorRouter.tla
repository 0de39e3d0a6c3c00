----------------------------- MODULE MirrorRouter -----------------------------
(***************************************************************************)
(* Who may keep a directory watched.  The router counts the subscribers of *)
(* a directory, each renderer's share and the share of the main process,   *)
(* and tells the mirror worker to watch it while the count is positive;    *)
(* the terminal bridge holds one subscription per terminal and moves it    *)
(* when the shell changes directory; the worker may crash and is spawned   *)
(* again.  (git-state-mirror-router.ts, terminal-git-info-bridge.ts,       *)
(* useGitStateMirror.ts, getTerminalCwd in git-utils.ts)                   *)
(*                                                                         *)
(* A directory is its canonical path and its own repository.  The worker   *)
(* obeys its messages in order (MirrorWatcher says how): a watch is first  *)
(* "attaching" and, after a git status, "joined".  Snapshots, file bodies  *)
(* and the switch-cwd nudge change none of these tables.  A call that      *)
(* posts waits while the inbox is full: that is the model's bound only.    *)
(***************************************************************************)
EXTENDS Integers, Sequences, FiniteSets, SequencesExt

CONSTANTS
  Terminal, Renderer, Cwd,
  MaxAttempts,   \* respawns of a worker that never gets ready
  MaxHold,       \* bound: subscriptions counted for one renderer and directory
  MaxProbes,     \* bound: subscriptions that have to probe for the cwd
  MaxCrashes,    \* bound: exits of the worker
  MaxInbox       \* bound: messages the worker has not handled

ASSUME RouterAssumption ==
  {MaxAttempts, MaxHold, MaxProbes, MaxCrashes, MaxInbox} \subseteq Nat
ASSUME FiniteAssumption == IsFiniteSet(Terminal) /\ IsFiniteSet(Renderer) /\ IsFiniteSet(Cwd)

None == "none"
ASSUME NoneIsNoCwd == None \notin Cwd
ASSUME NoneIsNoTerminal == None \notin Terminal

VARIABLES
  held,            \* the subscriptions the living world of a renderer has
  navigating,      \* did-start-navigation fired, the old world is not gone yet
  subs,            \* subs: per renderer and directory
  tables,          \* refCounts, internalRefCounts and the worker's inbox
  entry,           \* the bridge's entries: subscribed, its cwd, awaiting a probe
  waiting,         \* continuations of subscribe that await a terminal's probe
  probes,          \* how many there were
  terminalCwds,    \* the cwd last pushed for a terminal
  focused,         \* focusedTerminalId
  worker,          \* "none", "booting" or "up"
  respawnTimer, respawnAttempt,
  crashes,         \* how often the worker exited
  watch,           \* the worker's entries
  focusKey         \* the worker's focusedRepoRootKey

bridge == <<entry, waiting, probes, terminalCwds, focused>>
life == <<worker, respawnTimer, respawnAttempt, crashes>>
view == <<held, navigating, subs>>
inside == <<watch, focusKey>>
vars == <<view, tables, bridge, life, inside>>

Messages == [kind : {"attach-watch", "detach-watch"}, cwd : Cwd]
            \cup [kind : {"reconcile-focus"}, cwd : Cwd \cup {None}]
Tables == [ref : [Cwd -> Nat], own : [Cwd -> Nat], inbox : Seq(Messages)]

NoEntry == [on |-> FALSE, cwd |-> None, waits |-> FALSE]

Init ==
  /\ held = [r \in Renderer |-> [c \in Cwd |-> 0]]
  /\ navigating = [r \in Renderer |-> FALSE]
  /\ subs = held
  /\ tables = [ref |-> [c \in Cwd |-> 0], own |-> [c \in Cwd |-> 0], inbox |-> <<>>]
  /\ entry = [t \in Terminal |-> NoEntry] /\ waiting = [t \in Terminal |-> 0] /\ probes = 0
  /\ terminalCwds = [t \in Terminal |-> None] /\ focused = None
  /\ worker \in {"none", "booting"} /\ respawnTimer = FALSE /\ respawnAttempt = 0 /\ crashes = 0
  /\ watch = [c \in Cwd |-> "no"] /\ focusKey = None

-----------------------------------------------------------------------------
(* The router's tables, as functions from tables to tables *)

Message(kind, c) == [kind |-> kind, cwd |-> c]
\* one message for each of C; their order does not matter, they are about different cwds
ToEach(kind, C) == SetToSeq({Message(kind, c) : c \in C})

\* a message for no worker is dropped
postToWorker(T, m) ==
  IF worker = "none" THEN T ELSE [T EXCEPT !.inbox = Append(@, m)]

Retain(T, c) ==
  LET U == [T EXCEPT !.ref[c] = @ + 1]
  IN IF T.ref[c] = 0 THEN postToWorker(U, Message("attach-watch", c)) ELSE U

Release(T, c) ==
  LET U == [T EXCEPT !.ref[c] = @ - 1]
  IN IF T.ref[c] = 1 THEN postToWorker(U, Message("detach-watch", c)) ELSE U

internalSubscribe(T, c) == Retain([T EXCEPT !.own[c] = @ + 1], c)
internalSubscribeTimes(T, c, n) ==
  IF n = 0 THEN T
  ELSE LET once == internalSubscribe(T, c)
       IN [once EXCEPT !.ref[c] = @ + (n - 1), !.own[c] = @ + (n - 1)]
internalUnsubscribe(T, c) == Release([T EXCEPT !.own[c] = @ - 1], c)
setReconcileFocus(T, c) == postToWorker(T, Message("reconcile-focus", c))

Room == Len(tables.inbox) < MaxInbox

-----------------------------------------------------------------------------
(* Renderers: a view subscribes when it mounts, and releases when it goes *)

Subscribe(r, c) ==
  /\ Room /\ held[r][c] < MaxHold /\ subs[r][c] < MaxHold
  /\ held' = [held EXCEPT ![r][c] = @ + 1]
  /\ subs' = [subs EXCEPT ![r][c] = @ + 1]
  /\ tables' = IF subs[r][c] = 0 THEN Retain(tables, c) ELSE tables
  /\ UNCHANGED <<navigating, bridge, life, inside>>

\* Mutation: a set of directories instead of counts
dropSubscription_Set(r, c) ==
  /\ subs' = [subs EXCEPT ![r][c] = 0]
  /\ tables' = IF subs[r][c] > 0 THEN Release(tables, c) ELSE tables

\* the main process ignores a release of what it does not count
dropSubscription(r, c) ==
  /\ subs' = [subs EXCEPT ![r][c] = IF @ > 0 THEN @ - 1 ELSE 0]
  /\ tables' = IF subs[r][c] = 1 THEN Release(tables, c) ELSE tables

Unsubscribe(r, c) ==
  /\ Room /\ held[r][c] > 0
  /\ held' = [held EXCEPT ![r][c] = @ - 1]
  /\ dropSubscription(r, c)
  /\ UNCHANGED <<navigating, bridge, life, inside>>

\* Mutation: each subscription of the renderer is taken off the count, not the renderer
drainRendererSubscriptions_PerHold(r) ==
  /\ Room /\ ~navigating[r]
  /\ navigating' = [navigating EXCEPT ![r] = TRUE]
  /\ subs' = [subs EXCEPT ![r] = [c \in Cwd |-> 0]]
  /\ LET gone == {c \in Cwd : subs[r][c] > 0 /\ tables.ref[c] <= subs[r][c]}
     IN tables' = [tables EXCEPT
          !.ref = [c \in Cwd |-> @[c] - subs[r][c]],
          !.inbox = IF worker = "none" THEN @ ELSE @ \o ToEach("detach-watch", gone)]
  /\ UNCHANGED <<held, bridge, life, inside>>

\* a reload drains what the renderer holds; its world still runs until the
\* navigation commits, and no cleanup of it runs then
drainRendererSubscriptions(r) ==
  /\ Room /\ ~navigating[r]
  /\ navigating' = [navigating EXCEPT ![r] = TRUE]
  /\ subs' = [subs EXCEPT ![r] = [c \in Cwd |-> 0]]
  /\ LET last == {c \in Cwd : subs[r][c] > 0 /\ tables.ref[c] = 1}
     IN tables' = [tables EXCEPT
          !.ref = [c \in Cwd |-> IF subs[r][c] > 0 THEN @[c] - 1 ELSE @[c]],
          !.inbox = IF worker = "none" THEN @ ELSE @ \o ToEach("detach-watch", last)]
  /\ UNCHANGED <<held, bridge, life, inside>>

Commit(r) ==
  /\ navigating[r]
  /\ navigating' = [navigating EXCEPT ![r] = FALSE]
  /\ held' = [held EXCEPT ![r] = [c \in Cwd |-> 0]]
  /\ UNCHANGED <<subs, tables, bridge, life, inside>>

-----------------------------------------------------------------------------
(* The bridge: one subscription per terminal *)

attachMirror(T, c) == internalSubscribe(T, c)
detachMirror(T, t) == IF entry[t].cwd = None THEN T ELSE internalUnsubscribe(T, entry[t].cwd)

\* Mutation: the focus stays where the terminal was
Moved_KeepsFocus(T, t, c) ==
  IF ~entry[t].on \/ entry[t].cwd = c THEN T ELSE attachMirror(detachMirror(T, t), c)

\* handleCwdChange: the subscription moves, and the focus with it
Moved(T, t, c) ==
  LET A == attachMirror(detachMirror(T, t), c)
  IN IF ~entry[t].on \/ entry[t].cwd = c THEN T
     ELSE IF t = focused THEN setReconcileFocus(A, c) ELSE A

\* the shell names its directory (nobody pushes null)
pushTerminalCwd(t, c) ==
  /\ Room
  /\ terminalCwds' = [terminalCwds EXCEPT ![t] = c]
  /\ tables' = Moved(tables, t, c)
  /\ entry' = [entry EXCEPT ![t].cwd = IF entry[t].on THEN c ELSE @]
  /\ UNCHANGED <<waiting, probes, focused, view, life, inside>>

\* a visible terminal; without a pushed cwd it joins the terminal's one probe
BridgeSubscribe(t) ==
  /\ Room /\ ~entry[t].on
  /\ LET c == terminalCwds[t] IN
       \/ /\ c # None
          /\ entry' = [entry EXCEPT ![t] = [on |-> TRUE, cwd |-> c, waits |-> FALSE]]
          /\ tables' = attachMirror(tables, c)
          /\ UNCHANGED <<waiting, probes>>
       \/ /\ c = None /\ probes < MaxProbes
          /\ entry' = [entry EXCEPT ![t] = [on |-> TRUE, cwd |-> None, waits |-> TRUE]]
          /\ waiting' = [waiting EXCEPT ![t] = @ + 1] /\ probes' = probes + 1
          /\ UNCHANGED tables
  /\ UNCHANGED <<terminalCwds, focused, view, life, inside>>

\* The probe ends with a directory or with none.  It pushes the directory as
\* the shell would; then every continuation attaches the entry it began with,
\* though it may be attached by now, or be no entry of the bridge any more.
ProbeEnds(t, c) ==
  /\ Room /\ waiting[t] > 0
  /\ waiting' = [waiting EXCEPT ![t] = 0]
  /\ LET again == IF entry[t].on THEN waiting[t] ELSE 0
     IN IF c = None THEN UNCHANGED <<tables, terminalCwds>>
        ELSE /\ terminalCwds' = [terminalCwds EXCEPT ![t] = c]
             /\ tables' = internalSubscribeTimes(Moved(tables, t, c), c, again)
  /\ entry' = [entry EXCEPT ![t].waits = FALSE,
                            ![t].cwd = IF entry[t].on /\ c # None THEN c ELSE @]
  /\ UNCHANGED <<probes, focused, view, life, inside>>

BridgeUnsubscribe(t) ==
  /\ Room /\ entry[t].on
  /\ entry' = [entry EXCEPT ![t] = NoEntry]
  /\ LET T == detachMirror(tables, t)
     IN tables' = IF t = focused THEN setReconcileFocus(T, None) ELSE T
  /\ focused' = IF t = focused THEN None ELSE focused
  /\ UNCHANGED <<waiting, probes, terminalCwds, view, life, inside>>

notifyFocus(t) ==
  /\ Room /\ focused' = t
  /\ tables' = setReconcileFocus(tables, entry[t].cwd)
  /\ UNCHANGED <<entry, waiting, probes, terminalCwds, view, life, inside>>

-----------------------------------------------------------------------------
(* The worker: its life as the router sees it, and what it does with a message *)

Ready ==
  /\ worker = "booting" /\ worker' = "up" /\ respawnAttempt' = 0
  /\ UNCHANGED <<respawnTimer, crashes, tables, view, bridge, inside>>

\* the exit handler: what the worker had is gone, and so are its messages
Exit ==
  /\ worker # "none" /\ crashes < MaxCrashes
  /\ worker' = "none" /\ crashes' = crashes + 1
  /\ respawnTimer' = (respawnAttempt < MaxAttempts)
  /\ respawnAttempt' = IF respawnAttempt < MaxAttempts THEN respawnAttempt + 1 ELSE respawnAttempt
  /\ tables' = [tables EXCEPT !.inbox = <<>>]
  /\ watch' = [c \in Cwd |-> "no"] /\ focusKey' = None
  /\ UNCHANGED <<view, bridge>>

\* Mutation: only what the renderers hold is attached again
reattachAllAfterRespawn_Renderers ==
  tables' = [tables EXCEPT !.inbox =
               ToEach("attach-watch", {c \in Cwd : tables.ref[c] > tables.own[c]})]

reattachAllAfterRespawn ==
  tables' = [tables EXCEPT !.inbox = ToEach("attach-watch", {c \in Cwd : tables.ref[c] > 0})]

\* the respawn timer fires; when the constructor of the worker throws nobody
\* tries again, and what is posted from then on is dropped
spawnWorker ==
  /\ respawnTimer /\ respawnTimer' = FALSE
  /\ \/ worker' = "booting" /\ reattachAllAfterRespawn
     \/ UNCHANGED <<worker, tables>>
  /\ UNCHANGED <<respawnAttempt, crashes, view, bridge, inside>>

\* messages wait for a booting worker; a focus on a directory whose watch has
\* not joined yet resolves to nothing
Handle ==
  /\ worker = "up" /\ tables.inbox # <<>>
  /\ LET m == Head(tables.inbox) IN
       /\ watch' = IF m.kind = "reconcile-focus" THEN watch
                   ELSE [watch EXCEPT ![m.cwd] =
                           IF m.kind = "detach-watch" THEN "no"
                           ELSE IF @ = "no" THEN "attaching" ELSE @]
       /\ focusKey' = IF m.kind # "reconcile-focus" THEN focusKey
                      ELSE IF m.cwd \in {c \in Cwd : watch[c] = "joined"} THEN m.cwd ELSE None
  /\ tables' = [tables EXCEPT !.inbox = Tail(@)]
  /\ UNCHANGED <<view, bridge, life>>

Join(c) ==
  /\ watch[c] = "attaching" /\ watch' = [watch EXCEPT ![c] = "joined"]
  /\ UNCHANGED <<focusKey, tables, view, bridge, life>>

-----------------------------------------------------------------------------
User ==
  \/ \E r \in Renderer :
       \/ drainRendererSubscriptions(r) \/ Commit(r)
       \/ \E c \in Cwd : Subscribe(r, c) \/ Unsubscribe(r, c)
  \/ \E t \in Terminal :
       \/ BridgeSubscribe(t) \/ BridgeUnsubscribe(t) \/ notifyFocus(t)
       \/ \E c \in Cwd : pushTerminalCwd(t, c)
       \/ \E c \in Cwd \cup {None} : ProbeEnds(t, c)

System == Ready \/ Exit \/ spawnWorker \/ Handle \/ \E c \in Cwd : Join(c)

Next == User \/ System
Spec == Init /\ [][Next]_vars

-----------------------------------------------------------------------------
(* Properties *)

TypeOK ==
  /\ held \in [Renderer -> [Cwd -> 0..MaxHold]] /\ subs \in [Renderer -> [Cwd -> 0..MaxHold]]
  /\ navigating \in [Renderer -> BOOLEAN]
  /\ tables \in Tables
  /\ entry \in [Terminal -> [on : BOOLEAN, cwd : Cwd \cup {None}, waits : BOOLEAN]]
  /\ waiting \in [Terminal -> 0..MaxProbes] /\ probes \in 0..MaxProbes
  /\ terminalCwds \in [Terminal -> Cwd \cup {None}] /\ focused \in Terminal \cup {None}
  /\ worker \in {"none", "booting", "up"} /\ respawnTimer \in BOOLEAN
  /\ respawnAttempt \in 0..MaxAttempts /\ crashes \in 0..MaxCrashes
  /\ watch \in [Cwd -> {"no", "attaching", "joined"}] /\ focusKey \in Cwd \cup {None}

Viewers(c) == {r \in Renderer : ~navigating[r] /\ held[r][c] > 0}
Terminals(c) == {t \in Terminal : entry[t].cwd = c}

(* No unsubscribe takes a directory from somebody who still shows it: its    *)
(* count covers each living view and each terminal there, whatever reloads,  *)
(* doubled subscriptions, directory changes and probes came before.          *)
NeverReleasedEarly ==
  /\ TypeOK
  /\ \A c \in Cwd :
       /\ \A r \in Viewers(c) : subs[r][c] >= held[r][c]
       /\ tables.ref[c] >= Cardinality(Viewers(c)) + Cardinality(Terminals(c))

(* The diagnostic split is true: what is not the main process's share of a   *)
(* count is one for each renderer that subscribes, however often it does, so *)
(* a reload that drains the renderers leaves the terminals' share alone.     *)
SharesAddUp ==
  \A c \in Cwd :
    tables.ref[c] = tables.own[c] + Cardinality({r \in Renderer : subs[r][c] > 0})

\* Whether c is watched after the messages q, when it was or was not before: the
\* last of them that is about c decides.
WatchedAfter(q, c, before) ==
  LET about == {i \in DOMAIN q : q[i].kind # "reconcile-focus" /\ q[i].cwd = c}
  IN IF about = {} THEN before
     ELSE \E i \in about : q[i].kind = "attach-watch" /\ \A j \in about : j <= i

\* will the worker watch c once it has handled its inbox
WillWatch(c) == WatchedAfter(tables.inbox, c, watch[c] # "no")

(* The worker ends up with exactly the directories that are counted, also    *)
(* when it crashed between an attach and a detach and came back empty.       *)
WatchesFollow == worker # "none" => \A c \in Cwd : WillWatch(c) <=> tables.ref[c] > 0

Settled == worker = "up" /\ tables.inbox = <<>>

(* The fast heartbeat is never spent on a directory the user is not in: once *)
(* the worker has caught up it favours the focused terminal's or none.       *)
FocusNotElsewhere ==
  Settled /\ focusKey # None => focused # None /\ entry[focused].cwd = focusKey

-----------------------------------------------------------------------------
(* Two promises of comments that the code does not keep.  No run lists them: *)
(* README.md, section 6, says how TLC refutes them.                          *)

(* "sends detach-watch when refCount hits 0": a directory nobody shows and   *)
(* no terminal is in is released.  (git-state-mirror-router.ts:891)          *)
ReleasedWhenUnused ==
  \A c \in Cwd : Viewers(c) = {} /\ Terminals(c) = {} => tables.ref[c] = 0

(* "the new repo would fall back to the 3 s visible reconcile cadence instead *)
(* of the advertised 1 s": the focused terminal's repository is the worker's  *)
(* focused one.  (terminal-git-info-bridge.ts:344)                            *)
FocusFollows ==
  Settled /\ crashes = 0 /\ focused # None /\ entry[focused].cwd # None
          /\ watch[entry[focused].cwd] = "joined"
    => focusKey = entry[focused].cwd
=============================================================================
