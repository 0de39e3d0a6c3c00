--------------------------- MODULE DiffContentCache ---------------------------
(***************************************************************************)
(* The diff viewer's file bodies: the byte-bounded cache of the main       *)
(* process (git-diff-content-cache.ts), the read path that validates a hit *)
(* against the disk and stores what the worker reads (fetchFileContent-    *)
(* WithCache in git-diff-content-cache-state.ts), the sweep a file-watcher *)
(* event starts (git-diff-content-cache-wiring.ts), and the worker client  *)
(* that lets a second request join one under way.                          *)
(*                                                                         *)
(* A body is the version of the file it was read from; the stat token of a *)
(* working-tree file is its version too.  Instead of the generation a call *)
(* saw when it began, the call keeps whether it still is the project's.    *)
(***************************************************************************)
EXTENDS Integers, FiniteSets, SequencesExt, FiniteSetsExt, TLC

CONSTANTS
  Key, Project, ProjectOf,   \* what buildCacheKey tells apart, and the bucket of each
  FileOf,                    \* the path of each: a file may have several bodies
  Backing,                   \* "worktree" or "index", the key's changeType
  Caller, Lane,              \* who fetches; callers of one lane build one dedupe key
  Sweeper,                   \* the sweeps that may overlap
  Size,                      \* estimateBytes of a key's version
  ByteLimit, FileLimit, MaxProjects,   \* the cache's options
  LastVersion                \* bound: how often each file is edited

BodyVersion == 0..Max(Range(LastVersion))

ASSUME ConstantsAssumption ==
  /\ ProjectOf \in [Key -> Project] /\ DOMAIN FileOf = Key
  /\ Backing \in [Key -> {"worktree", "index"}]
  /\ LastVersion \in [Key -> Nat]
  /\ Size \in [Key -> [BodyVersion -> Nat]]
  /\ {ByteLimit, FileLimit, MaxProjects} \subseteq Nat \ {0}

\* The files of the repositories, at most; there is something to show.
ASSUME KeyAssumption == Key # {} /\ IsFiniteSet(Key)

VARIABLES
  disk,      \* the version of what each key's body is read from
  bodies,    \* the buckets: entries, bytes, the order of touches, projectQueue
  call,      \* the fetchFileContentWithCache call of each caller
  read,      \* the worker request each caller made
  sweep,     \* the revalidateContentCacheForProject calls
  floor,     \* history: the version of each key when its project was last wiped
  late,      \* history: the calls under way that joined a request already read, or
             \* hold an entry stored by such a call
  doubtful   \* history: the keys whose entry may have been stored by such a call

contentVars == <<disk, bodies, call, read, sweep, floor>>

NoToken == -1
NoEntry == [body |-> 0, token |-> NoToken, size |-> 0]
Token == BodyVersion \cup {NoToken}
Entry == [body : BodyVersion, token : Token, size : Nat]

\* A call that is over keeps only whether it served a body it could vouch for.
NoCall == [pc |-> "idle", key |-> CHOOSE k \in Key : TRUE, force |-> FALSE, since |-> 0,
           current |-> FALSE, entry |-> NoEntry, token |-> NoToken, job |-> "none"]
Served == [NoCall EXCEPT !.pc = "served"]
NoRead == [pc |-> "none", body |-> 0, ok |-> TRUE]
NoSweep == [on |-> FALSE, project |-> CHOOSE p \in Project : TRUE, left |-> {}, tokens |-> <<>>]

ContentTypeOK ==
  /\ disk \in [Key -> BodyVersion] /\ floor \in [Key -> BodyVersion]
  /\ DOMAIN bodies.entries \subseteq Key
  /\ \A k \in DOMAIN bodies.entries : bodies.entries[k] \in Entry
  /\ bodies.bytes \in [Project -> Nat]
  /\ \A c \in Caller : call[c] \in
       [pc : {"idle", "validate", "stat", "wait", "served"}, key : Key, force : BOOLEAN,
        since : BodyVersion, current : BOOLEAN, entry : Entry, token : Token,
        job : Caller \cup {"none"}]
  /\ read \in [Caller -> [pc : {"none", "asked", "read", "replied"}, body : BodyVersion, ok : BOOLEAN]]
  /\ \A s \in Sweeper : sweep[s].left \subseteq Key /\ sweep[s].project \in Project

ContentInit ==
  /\ disk = [k \in Key |-> 0] /\ floor = disk
  /\ bodies = [entries |-> <<>>, bytes |-> [p \in Project |-> 0], touched |-> <<>>, queue |-> <<>>]
  /\ call = [c \in Caller |-> NoCall] /\ read = [c \in Caller |-> NoRead]
  /\ sweep = [s \in Sweeper |-> NoSweep]
  /\ late = {} /\ doubtful = {}

-----------------------------------------------------------------------------
(* The cache                                                               *)

Without(seq, S) ==
  LET rest[n \in 0..Len(seq)] ==
        IF n = 0 THEN <<>> ELSE IF seq[n] \in S THEN rest[n - 1] ELSE Append(rest[n - 1], seq[n])
  IN  rest[Len(seq)]
KeysOf(ca, p) == {k \in DOMAIN ca.entries : ProjectOf[k] = p}
Sizes(ca, S) == MapThenSumSet(LAMBDA k : ca.entries[k].size, S)

\* The touch order of an entry and moveProjectToFront.
Touched(ca, k) ==
  [ca EXCEPT !.touched = Append(Without(@, {k}), k),
             !.queue = <<ProjectOf[k]>> \o Without(@, {ProjectOf[k]})]

\* Entries go; a bucket left empty goes with them.
Dropped(ca, S) ==
  LET entries == [k \in DOMAIN ca.entries \ S |-> ca.entries[k]]
      gone == {ProjectOf[k] : k \in S} \ {ProjectOf[k] : k \in DOMAIN entries} IN
  [entries |-> entries,
   bytes |-> [p \in Project |->
                IF p \in gone THEN 0 ELSE ca.bytes[p] - Sizes(ca, S \cap KeysOf(ca, p))],
   touched |-> Without(ca.touched, S),
   queue |-> Without(ca.queue, gone)]

\* Mutation: the bytes of an entry that is replaced stay in the count.
Added_KeepOld(ca, k, e) ==
  [ca EXCEPT !.entries = [j \in DOMAIN @ \cup {k} |-> IF j = k THEN e ELSE @[j]],
             !.bytes[ProjectOf[k]] = @ + e.size]

\* The counting part of put.
Added(ca, k, e) ==
  [ca EXCEPT !.entries = [j \in DOMAIN @ \cup {k} |-> IF j = k THEN e ELSE @[j]],
             !.bytes[ProjectOf[k]] =
                @ + e.size - (IF k \in DOMAIN ca.entries THEN ca.entries[k].size ELSE 0)]

\* The order of evictWithinProjectIfOverLimit: smallest first, then least recent.
Sooner(ca, j, k) ==
  LET one == ca.entries[j].size
      other == ca.entries[k].size IN
  one < other \/ (one = other /\ \E m, n \in DOMAIN ca.touched : m < n /\ ca.touched[m] = j /\ ca.touched[n] = k)

\* What it evicts: each entry whose turn finds the bucket over its limit.
Overflow(ca, p) ==
  {k \in KeysOf(ca, p) :
     ca.bytes[p] - Sizes(ca, {j \in KeysOf(ca, p) : Sooner(ca, j, k)}) > ByteLimit}

\* evictProjectsIfOverLimit: the buckets at the tail of the queue.
Surplus(ca) ==
  {k \in DOMAIN ca.entries :
     ProjectOf[k] \in ToSet(SubSeq(ca.queue, MaxProjects + 1, Len(ca.queue)))}

-----------------------------------------------------------------------------
(* A call                                                                  *)

\* Mutation: what a wipe leaves in flight may still be stored.
Bumped_None(calls, ps) == calls

\* bumpProjectGeneration: the calls under way no longer are the project's.
Bumped(calls, ps) ==
  [c \in Caller |-> IF ProjectOf[calls[c].key] \in ps THEN [calls[c] EXCEPT !.current = FALSE]
                    ELSE calls[c]]

\* What computeStaleToken may return: the stat may fail, and an index-backed key
\* has none.
Tokens(k) == IF Backing[k] = "worktree" THEN {disk[k], NoToken} ELSE {NoToken}

\* Mutation: a hit is not validated.
Fresh_Always(stored, current) == TRUE

\* decideContentCacheReadFreshness
Fresh(stored, current) == stored = NoToken \/ current = NoToken \/ stored = current

\* The call up to its first await: the generation, and the entry if there is one.
Call(c, k, force) ==
  /\ call[c].pc \in {"idle", "served"} /\ read[c] = NoRead
  /\ LET hit == ~force /\ k \in DOMAIN bodies.entries IN
     /\ call' = [call EXCEPT ![c] =
                   [pc |-> IF hit THEN "validate" ELSE "stat", key |-> k, force |-> force,
                    since |-> disk[k], current |-> TRUE,
                    entry |-> IF hit THEN bodies.entries[k] ELSE NoEntry,
                    token |-> NoToken, job |-> "none"]]
     /\ bodies' = IF hit THEN Touched(bodies, k) ELSE bodies
  /\ UNCHANGED <<disk, read, sweep, floor>>

\* The requests under way that a call of c has the dedupe key of.
Joinable(c) ==
  {d \in Caller \ {c} : /\ call[d].pc = "wait" /\ call[d].job = d
                        /\ ~call[d].force /\ ~call[c].force
                        /\ call[d].key = call[c].key /\ Lane[d] = Lane[c]}

\* The request to the worker, under the token just taken.
Ask(c, token) ==
  LET job == IF Joinable(c) = {} THEN c ELSE CHOOSE d \in Joinable(c) : TRUE IN
  /\ call' = [call EXCEPT ![c] = [@ EXCEPT !.pc = "wait", !.entry = NoEntry,
                                           !.token = token, !.job = job]]
  /\ read' = IF job = c THEN [read EXCEPT ![c].pc = "asked"] ELSE read

\* The stat of a cached file: the entry is served unless it is proven stale.  A
\* hit that no stat could check is served too, and nothing vouches for it.
Validate(c, token) ==
  /\ call[c].pc = "validate" /\ token \in Tokens(call[c].key)
  /\ IF Fresh(call[c].entry.token, token)
     THEN /\ call' = [call EXCEPT ![c] = IF NoToken \in {token, call[c].entry.token}
                                         THEN NoCall ELSE Served]
          /\ UNCHANGED read
     ELSE Ask(c, token)
  /\ UNCHANGED <<disk, bodies, sweep, floor>>

\* The stat of a file that is not cached.
StatMiss(c, token) ==
  /\ call[c].pc = "stat" /\ token \in Tokens(call[c].key)
  /\ Ask(c, token)
  /\ UNCHANGED <<disk, bodies, sweep, floor>>

\* The worker reads the file.
Read(c) ==
  /\ read[c].pc = "asked"
  /\ read' = [read EXCEPT ![c].pc = "read", ![c].body = disk[call[c].key]]
  /\ UNCHANGED <<disk, bodies, call, sweep, floor>>

\* Mutation: the token is taken when the reply is here.
Item_LateToken(c) ==
  LET body == read[call[c].job].body
      k == call[c].key IN
  [body |-> body, size |-> Size[k][body], token |-> IF Backing[k] = "worktree" THEN disk[k] ELSE NoToken]

\* What a reply has the call store: the body, under the token of before.
Item(c) ==
  LET body == read[call[c].job].body IN
  [body |-> body, size |-> Size[call[c].key][body], token |-> call[c].token]

\* The reply, for the caller that asked and then for those that joined it: the
\* body is stored if the generation is still current and it fits.
Reply(c, ok) ==
  LET job == call[c].job
      k == call[c].key
      put == Touched(Added(bodies, k, Item(c)), k)
      over == Overflow(put, ProjectOf[k])
      kept == Dropped(put, over)
      tail == Surplus(kept)
      others == {d \in Caller \ {c} : call[d].pc = "wait" /\ call[d].job = job}
      done == [call EXCEPT ![c] = IF ok THEN Served ELSE NoCall] IN
  /\ call[c].pc = "wait"
  /\ IF job = c THEN read[c].pc = "read" ELSE read[job].pc = "replied" /\ read[job].ok = ok
  /\ read' = [read EXCEPT ![job] = IF others = {} THEN NoRead
                                   ELSE [@ EXCEPT !.pc = "replied", !.ok = ok]]
  /\ IF ok /\ call[c].current /\ Item(c).size <= FileLimit /\ Item(c).size <= ByteLimit
     THEN /\ bodies' = Dropped(kept, tail)
          /\ call' = Bumped(done, {ProjectOf[j] : j \in over \cup tail})
     ELSE call' = done /\ UNCHANGED bodies
  /\ UNCHANGED <<disk, sweep, floor>>

-----------------------------------------------------------------------------
(* Invalidation                                                            *)

\* A file, or the index, changes.
Edit(k) ==
  /\ disk[k] < LastVersion[k] /\ disk' = [disk EXCEPT ![k] = @ + 1]
  /\ UNCHANGED <<bodies, call, read, sweep, floor>>

\* revalidateProject: the stale entries go, and the generation moves if any did.
Revalidated(p, stale) ==
  /\ bodies' = IF stale = {} THEN bodies ELSE Dropped(bodies, stale)
  /\ call' = IF stale = {} THEN call ELSE Bumped(call, {p})

\* evictContentCacheEntriesForFiles, after a mutation of some files: every body
\* of theirs goes.
Evict(p, files) ==
  LET gone == {k \in KeysOf(bodies, p) : FileOf[k] \in files} IN
  /\ gone # {}
  /\ Revalidated(p, gone)
  /\ UNCHANGED <<disk, read, sweep, floor>>

\* invalidateProject: the bucket goes, and the generation moves although there
\* may be none.
Wipe(p) ==
  /\ bodies' = Dropped(bodies, KeysOf(bodies, p))
  /\ call' = Bumped(call, {p})
  /\ floor' = [k \in Key |-> IF ProjectOf[k] = p THEN disk[k] ELSE floor[k]]
  /\ UNCHANGED <<disk, read, sweep>>

\* revalidateContentCacheForProject: the keys of now, each to be stat'ed.
SweepStart(s, p) ==
  /\ ~sweep[s].on
  /\ LET keys == {k \in KeysOf(bodies, p) : Backing[k] = "worktree"} IN
     sweep' = [sweep EXCEPT ![s] = [project |-> p, left |-> keys, tokens |-> <<>>, on |-> TRUE]]
  /\ UNCHANGED <<disk, bodies, call, read, floor>>

SweepStat(s, k, token) ==
  /\ k \in sweep[s].left /\ token \in Tokens(k)
  /\ sweep' = [sweep EXCEPT ![s].left = @ \ {k}, ![s].tokens = (k :> token) @@ @]
  /\ UNCHANGED <<disk, bodies, call, read, floor>>

\* The predicate of the sweep, for an entry of now.
Stale(tokens, k, e) ==
  \/ Backing[k] = "index"
  \/ k \in DOMAIN tokens /\ (e.token = NoToken \/ tokens[k] # e.token)

SweepEnd(s) ==
  /\ sweep[s].on /\ sweep[s].left = {}
  /\ LET p == sweep[s].project IN
     Revalidated(p, {k \in KeysOf(bodies, p) : Stale(sweep[s].tokens, k, bodies.entries[k])})
  /\ sweep' = [sweep EXCEPT ![s] = NoSweep]
  /\ UNCHANGED <<disk, read, floor>>

ContentNext ==
  \/ \E c \in Caller, k \in Key, force \in BOOLEAN : Call(c, k, force)
  \/ \E c \in Caller, token \in Token : Validate(c, token) \/ StatMiss(c, token)
  \/ \E c \in Caller : Read(c) \/ \E ok \in BOOLEAN : Reply(c, ok)
  \/ \E k \in Key : Edit(k)
  \/ \E p \in Project, files \in SUBSET Range(FileOf) : Evict(p, files)
  \/ \E p \in Project : Wipe(p) \/ \E s \in Sweeper : SweepStart(s, p)
  \/ \E s \in Sweeper : SweepEnd(s) \/ \E k \in Key, token \in Token : SweepStat(s, k, token)

-----------------------------------------------------------------------------
(* History variables: recorded at every step, read by the properties only  *)

\* c joins a request the worker has read the file for already.
JoinsLate(c) ==
  /\ call[c].pc # "wait" /\ call'[c].pc = "wait"
  /\ call'[c].job # c /\ read[call'[c].job].pc # "asked"
\* c starts with an entry that such a call may have stored.
HitsDoubtful(c) == call[c].pc # "validate" /\ call'[c].pc = "validate" /\ call'[c].key \in doubtful
\* c stores what it was answered with.
Stores(c) == call[c].pc = "wait" /\ call'[c].pc = "served" /\ bodies' # bodies

Doubt ==
  /\ late' = {c \in Caller :
                JoinsLate(c) \/ HitsDoubtful(c) \/ (c \in late /\ call'[c].pc = call[c].pc)}
  /\ doubtful' = (doubtful \cup {call[c].key : c \in {d \in late : Stores(d)}})
                   \cap DOMAIN bodies'.entries

cacheVars == <<contentVars, late, doubtful>>
ContentSpec == ContentInit /\ [][ContentNext /\ Doubt]_cacheVars

-----------------------------------------------------------------------------
(* Properties                                                              *)

\* The counters the limits are read from are those of what is held: each bucket's
\* bytes are its entries', inside the limit, and the queue lists the buckets that
\* hold something, each once and no more than it may.  The state is well typed.
LedgerExact ==
  /\ ContentTypeOK
  /\ \A p \in Project : /\ bodies.bytes[p] = Sizes(bodies, KeysOf(bodies, p))
                        /\ bodies.bytes[p] <= ByteLimit
  /\ IsInjective(bodies.queue) /\ Len(bodies.queue) <= MaxProjects
  /\ ToSet(bodies.queue) = {ProjectOf[k] : k \in DOMAIN bodies.entries}

\* What a call returns when it is over.
Returned(c) == IF call[c].pc = "validate" THEN call[c].entry.body ELSE read[call[c].job].body

\* A call that returns a working-tree body returns one the file had during the
\* call, although the entry may be older than an edit no watcher reported; the
\* exceptions are a hit that no stat could check, which is served on purpose, and a
\* call that joined a request already read or hit what such a call stored.
NoStaleServe ==
  [][\A c \in Caller \ late :
       call[c].pc \in {"validate", "wait"} /\ call'[c].pc = "served" /\ Backing[call[c].key] = "worktree"
       => Returned(c) >= call[c].since]_cacheVars

\* A stored token is never newer than the body it vouches for, as the comment at
\* git-diff-content-cache-state.ts:257 asks: such an entry would pass for fresh.
\* Only the keys stored after a late join may hold one.
TokenHonest ==
  \A k \in DOMAIN bodies.entries \ doubtful : bodies.entries[k].token <= bodies.entries[k].body

\* Nothing from before a wipe comes back after it, by a call that was under way,
\* unless that call joined late.
WipeHolds == \A k \in DOMAIN bodies.entries \ doubtful : bodies.entries[k].body >= floor[k]

=============================================================================
