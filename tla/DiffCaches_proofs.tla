-------------------------- MODULE DiffCaches_proofs --------------------------
(***************************************************************************)
(* The two caches of the diff viewer, for any number of callers, files,    *)
(* changes, openings and faults.                                           *)
(*                                                                         *)
(* The list: a forced load is never older than its request, and the viewer *)
(* never rests on a list from before the last change it was told of.       *)
(*                                                                         *)
(* The bodies: no token is newer than the body it vouches for, nothing     *)
(* from before a wipe comes back, and no call vouches for a body older     *)
(* than the call itself.  A call may join a request that was read before   *)
(* it began, and then none of this holds of the entry it stores; what is   *)
(* proved is that nothing else breaks it, and that the harm stays with     *)
(* that key and with the calls that hit it.  The ledger is exact whatever  *)
(* is joined: the bytes counted are those held and inside the limits.      *)
(* That rests on facts about sums and about sequences, each proved by the  *)
(* least instance that would refute it.                                    *)
(***************************************************************************)
EXTENDS DiffListCache, DiffContentCache, FiniteSetTheorems, WellFoundedInduction, TLAPS

-----------------------------------------------------------------------------
(* The list                                                                *)

\* A forced call was asked for at a version that exists, without a mirror's
\* status, and its answer is no older.
FencedCall(d) == d.force => d.warmth = 0 /\ d.asked <= tree
FreshCall(d) == d.force /\ d.state = "answered" => AtLeast(d.list, d.asked)
CallsFine == \A c \in Ids : FencedCall(calls[c]) /\ FreshCall(calls[c])

\* A job belongs to a call; that of a forced call has a list of its own, read
\* after the call was asked for.
Fits(x, j) ==
  x.stage # "idle" =>
    /\ j[1] \in Ids
    /\ calls[j[1]].force =>
         /\ x.stage \notin {"joined", "shared"}
         /\ x.stage = "counting" => AtLeast(x.list, calls[j[1]].asked)
JobsOK == jobs \in [Jobs -> JobStates] /\ \A j \in Jobs : Fits(jobs[j], j)

PanelOK == panel \in Panels /\ panel.load <= Len(calls)
PortOK == port \in Seq(Messages) /\ \A i \in 1..Len(port) : port[i].call <= Len(calls)

\* Once the viewer was told of a change, what it loads or has queued is forced.
Due(p, C) ==
  /\ p.since <= tree
  /\ ~p.open => p.since = 0
  /\ p.since # 0 =>
       /\ p.queued.any => p.queued.force
       /\ p.load # 0 /\ ~p.queued.any =>
            p.force /\ C[p.load].force /\ C[p.load].asked >= p.since

\* The inductive invariant.
IInv ==
  /\ WorldOK /\ CallsOK /\ CacheOK /\ PanelOK /\ PortOK /\ JobsOK
  /\ CallsFine /\ Due(panel, calls) /\ RestsFresh

LEMMA ConstantTypes ==
  /\ MaxVersion \in Nat /\ MaxVersion >= 1 /\ MaxCalls \in Nat /\ MaxOpens \in Nat
  /\ MaxFaults \in Nat /\ None \notin Version /\ Failed \notin Version
  /\ None \in Lists /\ Failed \in Lists /\ Version \subseteq Lists
BY DiffListAssumption, ValuesAssumption DEF Lists

-----------------------------------------------------------------------------
(* Calls are added, started and answered, and never change what they ask for *)

SameRequest(d, e) == d.force = e.force /\ d.asked = e.asked /\ d.warmth = e.warmth

Follows(D) ==
  /\ D \in Seq(Calls) /\ Len(calls) <= Len(D) /\ Len(D) <= MaxCalls
  /\ \A c \in 1..Len(calls) : SameRequest(D[c], calls[c])
  /\ \A c \in 1..Len(D) : FencedCall(D[c]) /\ FreshCall(D[c])

LEMMA FollowsSelf == IInv => Follows(calls)
BY DEF IInv, CallsOK, CallsFine, Follows, SameRequest, Ids

LEMMA CallsFollow ==
  ASSUME IInv, Follows(calls'), tree' \in Version, tree <= tree'
  PROVE  CallsOK' /\ CallsFine'
<1>1. CallsOK'
  BY DEF Follows, CallsOK
<1>2. DOMAIN calls' = 1..Len(calls')
  BY DEF Follows
<1>3. ASSUME NEW c \in 1..Len(calls')
      PROVE  FencedCall(calls[c])' /\ FreshCall(calls[c])'
  <2>1. calls'[c] \in Calls /\ FencedCall(calls'[c]) /\ FreshCall(calls'[c])
    BY DEF Follows
  <2>2. tree \in Nat /\ tree' \in Nat /\ calls'[c].asked \in Nat
    BY <2>1, ConstantTypes DEF IInv, WorldOK, Version, Calls
  <2> QED BY <2>1, <2>2 DEF FencedCall, FreshCall, AtLeast
<1> QED BY <1>1, <1>2, <1>3 DEF CallsFine, Ids

LEMMA JobsFollow ==
  ASSUME IInv, Follows(calls'), jobs' \in [Jobs -> JobStates],
         \A j \in Jobs : Fits(jobs'[j], j)
  PROVE  JobsOK'
<1>1. ASSUME NEW j \in Jobs, jobs'[j].stage # "idle"
      PROVE  j[1] \in 1..Len(calls) /\ j[1] \in 1..Len(calls') /\ SameRequest(calls'[j[1]], calls[j[1]])
  BY <1>1 DEF Fits, Ids, Follows, IInv, CallsOK
<1>2. DOMAIN calls' = 1..Len(calls')
  BY DEF Follows
<1>3. ASSUME NEW j \in Jobs
      PROVE  Fits(jobs[j], j)'
  BY <1>1, <1>2 DEF Fits, Ids, SameRequest, AtLeast
<1> QED BY <1>3 DEF JobsOK

\* Jobs that nothing happens to still fit.
LEMMA JobsSame == ASSUME IInv, Follows(calls'), jobs' = jobs PROVE JobsOK'
<1>1. jobs' \in [Jobs -> JobStates] /\ \A j \in Jobs : Fits(jobs'[j], j)
  BY DEF IInv, JobsOK
<1> QED BY <1>1, JobsFollow

LEMMA PortSame == ASSUME IInv, Follows(calls'), port' = port PROVE PortOK'
<1>1. \A m \in Messages : m.call \in Nat
  BY ConstantTypes DEF Messages
<1> QED BY <1>1 DEF IInv, PortOK, CallsOK, Follows

LEMMA PortFollow ==
  ASSUME IInv, Follows(calls'),
         \/ port # <<>> /\ port' = Tail(port)
         \/ \E m \in Messages : m.call <= Len(calls) /\ port' = Append(port, m)
  PROVE  PortOK'
<1>0. port \in Seq(Messages) /\ (\A i \in 1..Len(port) : port[i].call <= Len(calls))
      /\ Len(calls) \in Nat /\ Len(calls') \in Nat /\ Len(calls) <= Len(calls')
  BY DEF IInv, PortOK, CallsOK, Follows
<1>1. \A m \in Messages : m.call \in Nat
  BY ConstantTypes DEF Messages
<1>2. CASE port # <<>> /\ port' = Tail(port)
  <2>1. port' \in Seq(Messages) /\ Len(port') = Len(port) - 1
        /\ \A i \in 1..Len(port') : i + 1 \in 1..Len(port) /\ port'[i] = port[i + 1]
    BY <1>0, <1>2
  <2>2. \A i \in 1..Len(port') : port'[i].call <= Len(calls')
    <3> TAKE i \in 1..Len(port')
    <3>1. port[i + 1] \in Messages /\ port[i + 1].call <= Len(calls)
      BY <1>0, <2>1
    <3> QED BY <1>0, <1>1, <2>1, <3>1
  <2> QED BY <2>1, <2>2 DEF PortOK
<1>3. ASSUME NEW m \in Messages, m.call <= Len(calls), port' = Append(port, m)
      PROVE  PortOK'
  <2>1. port' \in Seq(Messages) /\ Len(port') = Len(port) + 1
        /\ \A i \in 1..Len(port') : port'[i] = IF i <= Len(port) THEN port[i] ELSE m
    BY <1>0, <1>3
  <2> QED BY <1>0, <1>1, <1>3, <2>1 DEF PortOK
<1> QED BY <1>2, <1>3

\* A viewer that does nothing is as well off as before.
LEMMA PanelSame ==
  ASSUME IInv, Follows(calls'), panel' = panel, tree' \in Version, tree <= tree'
  PROVE  PanelOK' /\ Due(panel, calls)' /\ RestsFresh'
<1>1. panel.load \in Nat /\ panel.since \in Nat /\ panel.load <= Len(calls)
      /\ Len(calls) <= Len(calls') /\ Len(calls) \in Nat /\ Len(calls') \in Nat /\ tree \in Nat /\ tree' \in Nat
  BY ConstantTypes DEF IInv, PanelOK, Panels, Follows, CallsOK, WorldOK, Version
<1>2. PanelOK'
  BY <1>1 DEF IInv, PanelOK
<1>3. panel.load # 0 => SameRequest(calls'[panel.load], calls[panel.load])
  BY <1>1 DEF Follows
<1>4. Due(panel, calls)'
  BY <1>1, <1>3 DEF IInv, Due, SameRequest
<1> QED BY <1>2, <1>4 DEF IInv, RestsFresh, AtLeast

-----------------------------------------------------------------------------
(* The viewer's loads *)

LEMMA SubmittedFollows ==
  ASSUME IInv, Room, NEW by \in {"panel", "warm"}, NEW scopes \in SUBSET Scopes,
         NEW force \in BOOLEAN, NEW warmth \in 0..MaxVersion, force => warmth = 0
  PROVE  /\ Follows(Submitted(by, scopes, force, warmth))
         /\ Target(by, scopes, force) \in 1..Len(Submitted(by, scopes, force, warmth))
         /\ force => LET d == Submitted(by, scopes, force, warmth)[Target(by, scopes, force)]
                     IN d.force /\ d.asked = tree
<1> DEFINE e == [by |-> by, scopes |-> scopes, force |-> force, warmth |-> warmth,
                 asked |-> IF force THEN tree ELSE 0, state |-> "queued", list |-> None]
           D == Append(calls, e)
<1>1. CASE Joins(by, scopes, force)
  <2>1. Twins(by, scopes) # {} /\ Twins(by, scopes) \subseteq 1..Len(calls) /\ ~force
    BY <1>1 DEF Joins, Twins, Ids, IInv, CallsOK
  <2>2. Submitted(by, scopes, force, warmth) = calls
        /\ Target(by, scopes, force) = CHOOSE c \in Twins(by, scopes) : TRUE
    BY <1>1 DEF Submitted, Target
  <2> QED BY <2>1, <2>2, FollowsSelf
<1>2. CASE ~Joins(by, scopes, force)
  <2>1. Submitted(by, scopes, force, warmth) = D /\ Target(by, scopes, force) = Len(calls) + 1
    BY <1>2 DEF Submitted, Target
  <2>2. calls \in Seq(Calls) /\ Len(calls) \in Nat /\ Len(calls) < MaxCalls /\ tree \in 0..MaxVersion
    BY ConstantTypes DEF IInv, CallsOK, Room, WorldOK, Version
  <2>3. e \in Calls /\ FencedCall(e) /\ FreshCall(e) /\ (force => e.force /\ e.asked = tree)
    BY <2>2, ConstantTypes DEF Calls, FencedCall, FreshCall
  <2> HIDE DEF e
  <2>4. D \in Seq(Calls) /\ Len(D) = Len(calls) + 1 /\ D[Len(calls) + 1] = e
        /\ \A c \in 1..Len(calls) : D[c] = calls[c]
    BY <2>2, <2>3
  <2> HIDE DEF D
  <2>5. Follows(D)
    BY <2>2, <2>3, <2>4, FollowsSelf, ConstantTypes DEF Follows, SameRequest
  <2> QED BY <2>1, <2>2, <2>3, <2>4, <2>5
<1> QED BY <1>1, <1>2

\* What a viewer must be before it starts or ends a load.
Told(p) ==
  /\ p \in Panels /\ p.load <= Len(calls)
  /\ p.since <= tree
  /\ ~p.open => p.since = 0

ViewerFine == Follows(calls') /\ PanelOK' /\ Due(panel, calls)' /\ RestsFresh'

LEMMA Loading ==
  ASSUME IInv, NEW p \in Panels, Told(p), tree' = tree, Room,
         NEW scopes \in SUBSET Scopes, NEW force \in BOOLEAN,
         p.since # 0 /\ ~p.queued.any => force,
         p.since # 0 /\ p.queued.any => p.queued.force,
         p.force = force,
         calls' = Submitted("panel", scopes, force, 0),
         panel' = [p EXCEPT !.load = Target("panel", scopes, force)]
  PROVE  ViewerFine
<1> DEFINE t == Target("panel", scopes, force)
<1>1. /\ Follows(calls') /\ t \in 1..Len(calls')
      /\ force => calls'[t].force /\ calls'[t].asked = tree
  BY SubmittedFollows, ConstantTypes
<1> HIDE DEF t
<1>2. /\ Len(calls') \in Nat /\ Len(calls') <= MaxCalls /\ t \in 1..MaxCalls
      /\ p.since \in Nat /\ tree \in Nat
  BY <1>1, ConstantTypes DEF Follows, Told, Panels, IInv, WorldOK, Version
<1>3. panel' = [p EXCEPT !.load = t]
  BY DEF t
<1>4. panel' \in Panels /\ panel'.load = t /\ panel'.force = p.force /\ panel'.queued = p.queued
      /\ panel'.since = p.since /\ panel'.open = p.open
  BY <1>2, <1>3 DEF Told, Panels
<1>5. PanelOK'
  BY <1>1, <1>2, <1>4 DEF PanelOK
<1>6. RestsFresh'
  BY <1>1, <1>4 DEF RestsFresh
<1>7. Due(panel, calls)'
  BY <1>1, <1>2, <1>4 DEF Due, Told
<1> QED BY <1>1, <1>5, <1>6, <1>7 DEF ViewerFine

LEMMA Starting ==
  ASSUME IInv, NEW p \in Panels, Told(p), tree' = tree, NEW reset \in BOOLEAN, NEW force \in BOOLEAN,
         p.since # 0 => force, Start(p, reset, force)
  PROVE  ViewerFine
<1> DEFINE scopes == IF reset THEN {"root"} ELSE {"full"}
           q == [p EXCEPT !.force = force, !.queued = NoOptions,
                          !.shown = IF reset THEN None ELSE @]
<1>1. Room /\ calls' = Submitted("panel", scopes, force, 0)
      /\ panel' = [q EXCEPT !.load = Target("panel", scopes, force)]
  BY DEF Start, Told, Panels
<1>2. NoOptions \in Options /\ NoOptions.any = FALSE /\ scopes \in SUBSET Scopes
  BY DEF NoOptions, Options, Scopes
<1>3. q \in Panels /\ q.load = p.load /\ q.since = p.since /\ q.open = p.open /\ q.force = force
      /\ q.queued = NoOptions
  BY <1>2, ConstantTypes DEF Told, Panels
<1> HIDE DEF q, scopes
<1>4. Told(q)
  BY <1>3 DEF Told
<1> QED BY <1>1, <1>2, <1>3, <1>4, Loading

LEMMA LoadsDiff ==
  ASSUME IInv, NEW p \in Panels, Told(p), tree' = tree, NEW reset \in BOOLEAN, NEW force \in BOOLEAN,
         p.since # 0 => force, LoadDiff(p, reset, force)
  PROVE  ViewerFine
<1>1. CASE p.load # 0 /\ panel' = [p EXCEPT !.queued = Merge(@, reset, force)] /\ UNCHANGED calls
  <2> DEFINE o == Merge(p.queued, reset, force)
  <2>1. o \in Options /\ o.any /\ (force => o.force)
    BY DEF Told, Panels, Options, Merge
  <2>2. panel' = [p EXCEPT !.queued = o]
    BY <1>1 DEF Told, Panels
  <2> HIDE DEF o
  <2>3. panel' \in Panels /\ panel'.load = p.load /\ panel'.queued = o /\ panel'.since = p.since
        /\ panel'.open = p.open
    BY <2>1, <2>2 DEF Told, Panels
  <2>4. Follows(calls') /\ PanelOK' /\ RestsFresh'
    BY <1>1, <2>3, FollowsSelf DEF Told, PanelOK, RestsFresh
  <2>5. Due(panel, calls)'
    BY <2>1, <2>3 DEF Due, Told
  <2> QED BY <2>4, <2>5 DEF ViewerFine
<1>2. CASE p.load = 0 /\ Start(p, reset, force)
  BY <1>2, Starting
<1> QED BY <1>1, <1>2 DEF LoadDiff

LEMMA LoadingEnds ==
  ASSUME IInv, NEW p \in Panels, Told(p), tree' = tree, LoadEnds(p),
         p.since # 0 /\ p.queued.any => p.queued.force,
         p.open /\ ~p.queued.any => p.aborted \/ AtLeast(p.shown, p.since)
  PROVE  ViewerFine
<1>1. CASE ~p.queued.any /\ panel' = [p EXCEPT !.load = 0, !.force = FALSE] /\ UNCHANGED calls
  <2> DEFINE q == [p EXCEPT !.load = 0, !.force = FALSE]
  <2>0. /\ q \in Panels /\ q.load = 0 /\ q.since = p.since /\ q.queued = p.queued /\ q.shown = p.shown
        /\ q.open = p.open /\ q.aborted = p.aborted
    <3>1. \A n \in 0..MaxCalls, f \in BOOLEAN : [p EXCEPT !.load = n, !.force = f] \in Panels
      BY DEF Panels
    <3>2. 0 \in 0..MaxCalls /\ FALSE \in BOOLEAN
      BY ConstantTypes
    <3>3. q \in Panels
      BY <3>1, <3>2, Zenon
    <3>4. q.load = 0 /\ q.since = p.since
      BY DEF Panels
    <3>5. q.queued = p.queued /\ q.shown = p.shown
      BY DEF Panels
    <3>6. q.open = p.open /\ q.aborted = p.aborted
      BY DEF Panels
    <3> QED BY <3>3, <3>4, <3>5, <3>6
  <2>1. panel' = q
    BY <1>1
  <2> HIDE DEF q
  <2>2. Follows(calls') /\ PanelOK'
    BY <1>1, <2>0, <2>1, FollowsSelf DEF PanelOK, IInv, CallsOK
  <2>3. RestsFresh'
    BY <1>1, <2>0, <2>1 DEF RestsFresh
  <2>4. Due(panel, calls)'
    BY <1>1, <2>0, <2>1 DEF Due, Told
  <2> QED BY <2>2, <2>3, <2>4 DEF ViewerFine
<1>2. CASE p.queued.any /\ Start(p, p.queued.reset, p.queued.force)
  <2>1. p.queued.reset \in BOOLEAN /\ p.queued.force \in BOOLEAN
    BY DEF Told, Panels, Options
  <2> QED BY <1>2, <2>1, Starting
<1> QED BY <1>1, <1>2 DEF LoadEnds

\* An action of the viewer leaves the rest alone.
LEMMA ViewerAlone ==
  ASSUME IInv, ViewerFine, UNCHANGED <<worldVars, warmDue, thread, port, workerVars>>,
         notices' \in Nat, faults' \in 0..MaxFaults
  PROVE  IInv'
<1>1. tree' = tree /\ tree \in Version /\ tree <= tree'
  BY DEF worldVars, IInv, WorldOK, Version
<1>2. WorldOK'
  BY <1>1 DEF IInv, WorldOK, worldVars
<1>3. CallsOK' /\ CallsFine' /\ Follows(calls')
  BY <1>1, CallsFollow DEF ViewerFine
<1>4. JobsOK'
  BY <1>3, JobsSame DEF workerVars
<1>5. PortOK'
  BY <1>3, PortSame
<1>6. CacheOK'
  BY DEF IInv, CacheOK, workerVars
<1> QED BY <1>2, <1>3, <1>4, <1>5, <1>6 DEF IInv, ViewerFine

LEMMA PanelTold == IInv => Told(panel) /\ panel \in Panels /\ (panel.since = 0 \/ panel.open)
BY DEF IInv, Told, PanelOK, Due

LEMMA OpenStep == IInv /\ Open => IInv'
<1> SUFFICES ASSUME IInv, Open PROVE IInv'
  OBVIOUS
<1>1. PICK reset \in BOOLEAN :
        LoadDiff([panel EXCEPT !.open = TRUE, !.opens = @ + 1], reset, FALSE)
  BY DEF Open
<1> DEFINE p == [panel EXCEPT !.open = TRUE, !.opens = @ + 1]
<1>2. ~panel.open /\ panel.opens < MaxOpens /\ panel.since = 0 /\ panel \in Panels
      /\ panel.load <= Len(calls) /\ tree \in Nat
  BY PanelTold DEF Open, Told, IInv, WorldOK, Version
<1>3. p \in Panels
  <2>1. panel.opens + 1 \in 0..MaxOpens
    BY <1>2, ConstantTypes DEF Panels
  <2>2. \A n \in 0..MaxOpens, b \in BOOLEAN : [panel EXCEPT !.open = b, !.opens = n] \in Panels
    BY <1>2 DEF Panels
  <2>3. TRUE \in BOOLEAN
    OBVIOUS
  <2>4. p = [panel EXCEPT !.open = TRUE, !.opens = panel.opens + 1]
    BY <1>2 DEF Panels
  <2> QED BY <2>1, <2>2, <2>3, <2>4, Zenon
<1>4. p.load = panel.load /\ p.since = panel.since
  BY <1>2 DEF Panels
<1> HIDE DEF p
<1>5. Told(p)
  BY <1>2, <1>3, <1>4 DEF Told
<1>6. tree' = tree /\ UNCHANGED <<worldVars, notices, warmDue, thread, faults, port, workerVars>>
  BY DEF Open, worldVars
<1>7. ViewerFine
  BY <1>1, <1>2, <1>3, <1>4, <1>5, <1>6, LoadsDiff DEF p
<1> QED BY <1>6, <1>7, ViewerAlone DEF IInv, WorldOK

LEMMA CloseStep == IInv /\ Close => IInv'
<1> SUFFICES ASSUME IInv, Close PROVE IInv'
  OBVIOUS
<1> DEFINE p == [panel EXCEPT !.open = FALSE, !.since = 0]
<1>1. panel \in Panels /\ panel.load <= Len(calls) /\ tree \in Nat
  BY PanelTold DEF Told, IInv, WorldOK, Version
<1>2. p \in Panels
  <2>1. \A n \in 0..MaxVersion, b \in BOOLEAN : [panel EXCEPT !.open = b, !.since = n] \in Panels
    BY <1>1 DEF Panels
  <2>2. FALSE \in BOOLEAN /\ 0 \in 0..MaxVersion
    BY ConstantTypes
  <2> QED BY <2>1, <2>2, Zenon
<1>3. p.load = panel.load /\ p.since = 0 /\ ~p.open
  BY <1>1 DEF Panels
<1>4. panel' = p /\ UNCHANGED <<worldVars, notices, warmDue, mainVars, port, workerVars>>
  BY DEF Close
<1> HIDE DEF p
<1>5. calls' = calls /\ tree' = tree /\ thread' = thread /\ faults' = faults
  BY <1>4 DEF mainVars, worldVars
<1>6. ViewerFine
  BY <1>1, <1>2, <1>3, <1>4, <1>5, FollowsSelf DEF ViewerFine, PanelOK, Due, RestsFresh
<1> QED BY <1>4, <1>5, <1>6, ViewerAlone DEF IInv, WorldOK

LEMMA NoticeStep == IInv /\ Notice => IInv'
<1> SUFFICES ASSUME IInv, Notice PROVE IInv'
  OBVIOUS
<1>1. panel \in Panels /\ panel.load <= Len(calls) /\ tree \in 0..MaxVersion /\ notices' \in Nat
      /\ (panel.since = 0 \/ panel.open)
  BY PanelTold, ConstantTypes DEF Told, Notice, IInv, WorldOK, Version
<1>2. UNCHANGED <<worldVars, warmDue, thread, faults, port, workerVars>> /\ tree' = tree
  BY DEF Notice, worldVars
<1>3. CASE panel.open /\ LoadDiff([panel EXCEPT !.since = tree], FALSE, TRUE)
  <2> DEFINE p == [panel EXCEPT !.since = tree]
  <2>1. p \in Panels /\ p.load = panel.load /\ p.since = tree /\ p.open
    BY <1>1, <1>3 DEF Panels
  <2> HIDE DEF p
  <2>2. Told(p)
    BY <1>1, <2>1 DEF Told
  <2>3. LoadDiff(p, FALSE, TRUE) /\ FALSE \in BOOLEAN /\ TRUE \in BOOLEAN
    BY <1>3 DEF p
  <2>4. ViewerFine
    BY <1>2, <2>1, <2>2, <2>3, LoadsDiff
  <2> QED BY <1>1, <1>2, <2>4, ViewerAlone DEF IInv, WorldOK
<1>4. CASE ~panel.open /\ panel' = [panel EXCEPT !.shown = None] /\ UNCHANGED calls
  <2>1. panel' \in Panels /\ panel'.load = panel.load /\ panel'.since = panel.since
        /\ panel'.open = panel.open /\ panel'.since = 0
    BY <1>1, <1>4, ConstantTypes DEF Panels
  <2>2. ViewerFine
    BY <1>1, <1>2, <1>4, <2>1, FollowsSelf DEF ViewerFine, PanelOK, Due, RestsFresh
  <2> QED BY <1>1, <1>2, <2>2, ViewerAlone DEF IInv, WorldOK
<1> QED BY <1>3, <1>4 DEF Notice

\* The list of an answered call that was asked for after the last notice is as
\* new as the viewer was told.
LEMMA AnswerIsNew ==
  ASSUME IInv, panel.load # 0, calls[panel.load].state = "answered"
  PROVE  /\ calls[panel.load].list \in Lists
         /\ ~panel.queued.any => AtLeast(calls[panel.load].list, panel.since)
<1>1. panel \in Panels /\ panel.load \in 1..Len(calls) /\ panel.since \in Nat
  BY ConstantTypes DEF IInv, PanelOK, Panels
<1>2. calls[panel.load] \in Calls /\ FreshCall(calls[panel.load])
  BY <1>1 DEF IInv, CallsOK, CallsFine, Ids
<1>3. calls[panel.load].list \in Lists /\ calls[panel.load].asked \in Nat
  BY <1>2, ConstantTypes DEF Calls
<1>4. ~panel.queued.any /\ panel.since # 0
      => calls[panel.load].force /\ calls[panel.load].asked >= panel.since
  BY <1>1 DEF IInv, Due
<1> QED BY <1>1, <1>2, <1>3, <1>4 DEF FreshCall, AtLeast, Version

\* What a result does to the viewer before the load goes on or ends.
Result(list, aborted) == [panel EXCEPT !.shown = list, !.aborted = aborted]

LEMMA ResultTold ==
  ASSUME IInv, NEW list \in Lists, NEW aborted \in BOOLEAN
  PROVE  LET p == Result(list, aborted) IN
         /\ p \in Panels /\ Told(p) /\ p.load = panel.load /\ p.queued = panel.queued
         /\ p.since = panel.since /\ p.force = panel.force /\ p.open = panel.open
         /\ p.shown = list /\ p.aborted = aborted
<1> DEFINE p == [panel EXCEPT !.shown = list, !.aborted = aborted]
<1>1. panel \in Panels /\ Told(panel)
  BY PanelTold
<1>2. p \in Panels /\ p.load = panel.load /\ p.since = panel.since /\ p.queued = panel.queued
  BY <1>1 DEF Panels
<1>3. p.force = panel.force /\ p.open = panel.open
  BY <1>1 DEF Panels
<1>4. p.shown = list /\ p.aborted = aborted
  BY <1>1 DEF Panels
<1>5. p = Result(list, aborted)
  BY DEF Result
<1> HIDE DEF p
<1> QED BY <1>1, <1>2, <1>3, <1>4, <1>5 DEF Told

LEMMA ShownStep == IInv /\ Shown => IInv'
<1> SUFFICES ASSUME IInv, Shown PROVE IInv'
  OBVIOUS
<1> DEFINE list == calls[panel.load].list
           p == Result(list, FALSE)
<1>1. panel.load # 0 /\ list \in Lists /\ FALSE \in BOOLEAN
      /\ (~panel.queued.any => AtLeast(list, panel.since))
      /\ (panel.since # 0 /\ panel.queued.any => panel.queued.force)
  BY AnswerIsNew DEF Shown, IInv, Due
<1>2. /\ UNCHANGED <<worldVars, notices, warmDue, thread, faults, port, workerVars>>
      /\ \/ /\ Room
            /\ calls' = Submitted("panel", {"full"}, p.force, 0)
            /\ panel' = [p EXCEPT !.load = Target("panel", {"full"}, p.force)]
         \/ LoadEnds(p)
  BY DEF Shown, Result
<1>3. tree' = tree
  BY <1>2 DEF worldVars
<1> HIDE DEF p, list
<1>4. /\ p \in Panels /\ Told(p) /\ p.load = panel.load /\ p.queued = panel.queued
      /\ p.since = panel.since /\ p.force = panel.force /\ p.shown = list
  BY <1>1, ResultTold DEF p
<1>5. ViewerFine
  <2>1. CASE LoadEnds(p)
    BY <1>1, <1>3, <1>4, <2>1, LoadingEnds
  <2>2. CASE /\ Room
             /\ calls' = Submitted("panel", {"full"}, p.force, 0)
             /\ panel' = [p EXCEPT !.load = Target("panel", {"full"}, p.force)]
    <3>1. PICK force \in BOOLEAN : force = p.force
      BY <1>4 DEF Panels
    <3>2. {"full"} \in SUBSET Scopes
      BY DEF Scopes
    <3>3. p.since # 0 /\ ~p.queued.any => force
      BY <1>1, <1>4, <3>1 DEF IInv, Due
    <3> QED BY <1>1, <1>3, <1>4, <2>2, <3>1, <3>2, <3>3, Loading
  <2> QED BY <1>2, <2>1, <2>2
<1> QED BY <1>2, <1>5, ViewerAlone DEF IInv, WorldOK

LEMMA ShowsErrorStep == IInv /\ ShowsError => IInv'
<1> SUFFICES ASSUME IInv, ShowsError PROVE IInv'
  OBVIOUS
<1> DEFINE p == Result(Failed, FALSE)
<1>1. /\ LoadEnds(p)
      /\ UNCHANGED <<worldVars, notices, warmDue, thread, faults, port, workerVars>>
  BY DEF ShowsError, Result
<1>2. tree' = tree
  BY <1>1 DEF worldVars
<1> HIDE DEF p
<1>3. Failed \in Lists /\ FALSE \in BOOLEAN
  BY ConstantTypes
<1>4. /\ p \in Panels /\ Told(p) /\ p.queued = panel.queued
      /\ p.since = panel.since /\ p.shown = Failed
  BY <1>3, ResultTold DEF p
<1>5. ViewerFine
  BY <1>1, <1>2, <1>4, LoadingEnds, ConstantTypes DEF IInv, Due, AtLeast
<1> QED BY <1>1, <1>5, ViewerAlone DEF IInv, WorldOK

LEMMA WatchdogStep == IInv /\ Watchdog => IInv'
<1> SUFFICES ASSUME IInv, Watchdog PROVE IInv'
  OBVIOUS
<1>0. PICK list \in {panel.shown, Failed} \ {None} :
        LoadEnds([panel EXCEPT !.shown = list, !.aborted = TRUE])
  BY DEF Watchdog
<1> DEFINE p == Result(list, TRUE)
<1>1. /\ UNCHANGED <<worldVars, notices, warmDue, thread, port, workerVars>>
      /\ Fault
  BY DEF Watchdog
<1>2. panel \in Panels
  BY PanelTold
<1>4. LoadEnds(p)
  BY <1>0 DEF Result
<1>5. tree' = tree
  BY <1>1 DEF worldVars
<1>6. faults' \in 0..MaxFaults /\ notices' \in Nat
  BY <1>1, ConstantTypes DEF Fault, IInv, WorldOK
<1>7. list \in Lists /\ TRUE \in BOOLEAN
  BY <1>0, <1>2, ConstantTypes DEF Panels
<1> HIDE DEF p
<1>8. /\ p \in Panels /\ Told(p) /\ p.queued = panel.queued
      /\ p.since = panel.since /\ p.aborted
  BY <1>7, ResultTold DEF p
<1>9. ViewerFine
  BY <1>4, <1>5, <1>8, LoadingEnds DEF IInv, Due
<1> QED BY <1>1, <1>6, <1>9, ViewerAlone

LEMMA ViewerStep == IInv /\ Viewer => IInv'
BY OpenStep, CloseStep, NoticeStep, ShownStep, ShowsErrorStep, WatchdogStep DEF Viewer

-----------------------------------------------------------------------------
(* The repository and its mirror, the warms, the worker client *)

\* An action that is not the viewer's.
LEMMA PanelAlone ==
  ASSUME IInv, Follows(calls'), panel' = panel, tree <= tree',
         WorldOK', CacheOK', PortOK', JobsOK'
  PROVE  IInv'
<1>1. tree' \in Version
  BY DEF WorldOK
<1> QED BY <1>1, CallsFollow, PanelSame DEF IInv

\* One that is not the worker's either.
LEMMA WorkerAlone ==
  ASSUME IInv, Follows(calls'), panel' = panel, UNCHANGED workerVars, tree <= tree',
         WorldOK', PortOK'
  PROVE  IInv'
<1>1. CacheOK' /\ jobs' = jobs
  BY DEF IInv, CacheOK, workerVars
<1> QED BY <1>1, PanelAlone, JobsSame

LEMMA ForwardPorts ==
  ASSUME IInv, calls' = calls, NEW reason \in {"mirror", "manual"}, Forward(reason)
  PROVE  PortOK'
<1> DEFINE m == [call |-> 0, reason |-> reason]
<1>1. m \in Messages /\ m.call <= Len(calls) /\ Follows(calls')
  BY FollowsSelf, ConstantTypes DEF Messages, IInv, CallsOK
<1>2. port' = port \/ port' = Append(port, m)
  BY DEF Forward
<1> HIDE DEF m
<1> QED BY <1>1, <1>2, PortSame, PortFollow

LEMMA WorldStep == IInv /\ World => IInv'
<1> SUFFICES ASSUME IInv, World PROVE IInv'
  OBVIOUS
<1>1. /\ tree \in Nat /\ tree >= 1 /\ mirror \in Version /\ owed \in 0..MaxVersion /\ notices \in Nat
      /\ warmDue \in BOOLEAN /\ thread \in {"none", "up", "gone"} /\ faults \in 0..MaxFaults
      /\ tree <= MaxVersion /\ MaxVersion \in Nat
  BY ConstantTypes DEF IInv, WorldOK, Version
<1>2. CASE Change
  <2>1. WorldOK' /\ tree <= tree' /\ calls' = calls
    BY <1>1, <1>2 DEF Change, WorldOK, Version, mainVars
  <2>2. panel' = panel /\ UNCHANGED workerVars /\ port' = port
    BY <1>2 DEF Change
  <2> QED BY <2>1, <2>2, WorkerAlone, FollowsSelf, PortSame
<1>3. CASE Mutate
  <2>1. WorldOK' /\ tree <= tree' /\ calls' = calls
    BY <1>1, <1>3 DEF Mutate, WorldOK, Version, mainVars
  <2>2. panel' = panel /\ UNCHANGED workerVars /\ port' = port
    BY <1>3 DEF Mutate
  <2> QED BY <2>1, <2>2, WorkerAlone, FollowsSelf, PortSame
<1>4. CASE KnownMutation
  <2>1. WorldOK' /\ tree <= tree' /\ calls' = calls
    BY <1>1, <1>4 DEF KnownMutation, WorldOK, Version, mainVars
  <2>2. panel' = panel /\ UNCHANGED workerVars /\ Forward("manual")
    BY <1>4 DEF KnownMutation
  <2> QED BY <2>1, <2>2, WorkerAlone, FollowsSelf, ForwardPorts
<1>5. CASE MirrorUpdate
  <2>1. WorldOK' /\ tree <= tree' /\ calls' = calls
    BY <1>1, <1>5 DEF MirrorUpdate, WorldOK, Version, mainVars
  <2>2. panel' = panel /\ UNCHANGED workerVars /\ Forward("mirror")
    BY <1>5 DEF MirrorUpdate
  <2> QED BY <2>1, <2>2, WorkerAlone, FollowsSelf, ForwardPorts
<1>6. CASE Warm
  <2>1. Room /\ calls' = Submitted("warm", Scopes, FALSE, mirror)
        /\ UNCHANGED <<worldVars, notices, panel, thread, faults, port, workerVars>>
        /\ warmDue' = FALSE
    BY <1>6 DEF Warm
  <2>2. mirror \in 0..MaxVersion /\ Scopes \in SUBSET Scopes /\ FALSE \in BOOLEAN
    BY <1>1 DEF Version
  <2>3. Follows(calls')
    BY <2>1, <2>2, SubmittedFollows
  <2>4. UNCHANGED <<tree, mirror, owed, notices, thread, faults>> /\ warmDue' \in BOOLEAN
    BY <2>1 DEF worldVars
  <2>5. WorldOK' /\ tree <= tree'
    BY <1>1, <2>4 DEF WorldOK, Version
  <2> QED BY <2>1, <2>3, <2>5, WorkerAlone, PortSame
<1> QED BY <1>2, <1>3, <1>4, <1>5, <1>6 DEF World

\* Calls that change their state to another than "answered".
LEMMA StateFollows ==
  ASSUME IInv, NEW D, D = [c \in Ids |-> D[c]],
         \A c \in Ids : \/ D[c] = calls[c]
                        \/ \E s \in {"posted", "failed"} : D[c] = [calls[c] EXCEPT !.state = s]
  PROVE  Follows(D)
<1>1. Ids = 1..Len(calls) /\ Len(calls) \in Nat /\ Len(calls) <= MaxCalls
  BY DEF IInv, CallsOK, Ids
<1>2. ASSUME NEW c \in Ids
      PROVE  D[c] \in Calls /\ SameRequest(D[c], calls[c]) /\ FencedCall(D[c]) /\ FreshCall(D[c])
  <2>1. calls[c] \in Calls /\ FencedCall(calls[c]) /\ FreshCall(calls[c])
    BY <1>1 DEF IInv, CallsOK, CallsFine
  <2>2. CASE D[c] = calls[c]
    BY <2>1, <2>2 DEF SameRequest
  <2>3. ASSUME NEW s \in {"posted", "failed"}, D[c] = [calls[c] EXCEPT !.state = s]
        PROVE  D[c] \in Calls /\ SameRequest(D[c], calls[c]) /\ FencedCall(D[c]) /\ FreshCall(D[c])
    <3> DEFINE d == [calls[c] EXCEPT !.state = s]
    <3>1. d \in Calls /\ d.force = calls[c].force /\ d.asked = calls[c].asked
          /\ d.warmth = calls[c].warmth /\ d.state # "answered"
      BY <2>1 DEF Calls
    <3>2. D[c] = d
      BY <2>3
    <3> HIDE DEF d
    <3> QED BY <2>1, <3>1, <3>2 DEF SameRequest, FencedCall, FreshCall
  <2> QED BY <1>2, <2>2, <2>3
<1>3. D \in [1..Len(calls) -> Calls]
  BY <1>1, <1>2
<1>4. D \in Seq(Calls) /\ Len(D) = Len(calls)
  BY <1>1, <1>3
<1> QED BY <1>1, <1>2, <1>4 DEF Follows

LEMMA PostStep == ASSUME IInv, NEW c \in Id, Post(c) PROVE IInv'
<1> DEFINE m == [call |-> c, reason |-> "none"]
<1>1. c \in Ids /\ calls' = [calls EXCEPT ![c].state = "posted"] /\ port' = Append(port, m)
      /\ thread' = "up" /\ warmDue' = (warmDue \/ thread = "gone")
      /\ UNCHANGED <<worldVars, notices, panel, faults, workerVars>>
  BY DEF Post
<1>2. calls \in Seq(Calls) /\ Len(calls) <= MaxCalls /\ c \in 1..Len(calls)
  BY <1>1 DEF IInv, CallsOK, Ids
<1>3. calls' = [d \in Ids |-> IF d = c THEN [calls[d] EXCEPT !.state = "posted"] ELSE calls[d]]
  BY <1>1, <1>2 DEF Ids
<1>4. Follows(calls')
  BY <1>3, StateFollows
<1>5. m \in Messages /\ m.call <= Len(calls)
  BY <1>2, ConstantTypes DEF Messages
<1> HIDE DEF m
<1>6. PortOK'
  BY <1>1, <1>4, <1>5, PortFollow
<1>7. UNCHANGED <<tree, mirror, owed, notices, faults>>
  BY <1>1 DEF worldVars
<1>8. warmDue' \in BOOLEAN /\ thread' \in {"none", "up", "gone"}
  BY <1>1
<1>9. WorldOK' /\ tree <= tree'
  BY <1>7, <1>8, ConstantTypes DEF IInv, WorldOK, Version
<1> QED BY <1>1, <1>4, <1>6, <1>9, WorkerAlone

LEMMA TimeOutStep == ASSUME IInv, NEW c \in Id, TimeOut(c) PROVE IInv'
<1>1. c \in Ids /\ calls' = [calls EXCEPT ![c].state = "failed"] /\ Fault
      /\ UNCHANGED <<worldVars, notices, warmDue, panel, thread, port, workerVars>>
  BY DEF TimeOut
<1>2. calls \in Seq(Calls)
  BY DEF IInv, CallsOK
<1>3. calls' = [d \in Ids |-> IF d = c THEN [calls[d] EXCEPT !.state = "failed"] ELSE calls[d]]
  BY <1>1, <1>2 DEF Ids
<1>4. Follows(calls')
  BY <1>3, StateFollows
<1>5. UNCHANGED <<tree, mirror, owed, notices, warmDue, thread>>
  BY <1>1 DEF worldVars
<1>6. WorldOK' /\ tree <= tree'
  BY <1>1, <1>5, ConstantTypes DEF IInv, WorldOK, Version, Fault
<1> QED BY <1>1, <1>4, <1>6, WorkerAlone, PortSame

LEMMA WorkerExitsStep == ASSUME IInv, WorkerExits PROVE IInv'
<1>1. /\ calls' = [c \in Ids |-> [calls[c] EXCEPT !.state = Rejected(@)]]
      /\ thread' = "gone" /\ Fault /\ port' = <<>>
      /\ UNCHANGED <<worldVars, notices, warmDue, panel>>
      /\ jobs' = [j \in Jobs |-> Idle]
  BY DEF WorkerExits
<1>2. ASSUME NEW c \in Ids
      PROVE  \/ calls'[c] = calls[c]
             \/ \E s \in {"posted", "failed"} : calls'[c] = [calls[c] EXCEPT !.state = s]
  <2>1. calls[c] \in Calls
    BY DEF IInv, CallsOK, Ids
  <2>2. calls'[c] = [calls[c] EXCEPT !.state = Rejected(calls[c].state)]
    BY <1>1, <2>1 DEF Calls
  <2>3. Rejected(calls[c].state) = "failed" \/ Rejected(calls[c].state) = calls[c].state
    BY DEF Rejected
  <2> QED BY <2>1, <2>2, <2>3 DEF Calls
<1>3. calls' = [c \in Ids |-> calls'[c]]
  BY <1>1
<1>4. Follows(calls')
  BY <1>2, <1>3, StateFollows
<1>5. PortOK'
  BY <1>1 DEF PortOK
<1>6. UNCHANGED <<tree, mirror, owed, notices, warmDue>>
  BY <1>1 DEF worldVars
<1>7. WorldOK' /\ tree <= tree'
  BY <1>1, <1>6, ConstantTypes DEF IInv, WorldOK, Version, Fault
<1>8. CacheOK'
  BY ConstantTypes DEF WorkerExits, CacheOK
<1>9. Idle \in JobStates /\ \A j \in Jobs : Fits(Idle, j)
  BY ConstantTypes DEF Idle, JobStates, Stages, Fits
<1>10. JobsOK'
  BY <1>1, <1>4, <1>9, JobsFollow
<1> QED BY <1>1, <1>4, <1>5, <1>7, <1>8, <1>10, PanelAlone

-----------------------------------------------------------------------------
(* The worker thread *)

\* An action of the worker leaves the world and the viewer alone.
LEMMA WorldAlone ==
  ASSUME IInv, UNCHANGED <<worldVars, notices, warmDue, panel, thread, faults>>,
         Follows(calls'), CacheOK', PortOK', JobsOK'
  PROVE  IInv'
<1>1. UNCHANGED <<tree, mirror, owed, notices, warmDue, thread, faults>>
  BY DEF worldVars
<1>2. WorldOK' /\ tree <= tree'
  BY <1>1 DEF IInv, WorldOK, Version
<1> QED BY <1>2, PanelAlone

LEMMA CacheTypes ==
  IInv => /\ cache \in [Scopes -> Lists] /\ inFlight \in [Scopes -> Jobs \cup {None}]
          /\ single \in Jobs \cup {None} /\ stamp \in 0..MaxVersion
          /\ tree \in Version /\ tree \in 0..MaxVersion
          /\ jobs \in [Jobs -> JobStates] /\ \A j \in Jobs : Fits(jobs[j], j)
BY ConstantTypes DEF IInv, CacheOK, WorldOK, JobsOK, Version

LEMMA IdleFits == Idle \in JobStates /\ \A j \in Jobs : Fits(Idle, j)
BY ConstantTypes DEF Idle, JobStates, Stages, Fits

LEMMA OpeningFits ==
  ASSUME NEW j \in Jobs, j[1] \in Ids
  PROVE  /\ [Idle EXCEPT !.stage = "opening", !.kept = TRUE] \in JobStates
         /\ Fits([Idle EXCEPT !.stage = "opening", !.kept = TRUE], j)
BY ConstantTypes DEF Idle, JobStates, Stages, Fits

\* A load loses its generation, not its place.
LEMMA OutdatedFits ==
  ASSUME IInv, NEW scopes
  PROVE  \A j \in Jobs : Outdated(scopes)[j] \in JobStates /\ Fits(Outdated(scopes)[j], j)
<1> TAKE j \in Jobs
<1> DEFINE x == [jobs[j] EXCEPT !.kept = FALSE]
<1>1. jobs[j] \in JobStates /\ Fits(jobs[j], j)
  BY CacheTypes
<1>2. x \in JobStates /\ x.stage = jobs[j].stage /\ x.list = jobs[j].list
  BY <1>1 DEF JobStates
<1>3. Outdated(scopes)[j] \in {x, jobs[j]}
  BY DEF Outdated
<1> HIDE DEF x
<1>4. Fits(x, j)
  BY <1>1, <1>2 DEF Fits
<1> QED BY <1>1, <1>2, <1>3, <1>4

LEMMA InvalidatedStep == ASSUME IInv, Invalidated PROVE IInv'
<1>1. /\ port # <<>> /\ port' = Tail(port)
      /\ cache' = [s \in Scopes |-> None]
      /\ stamp' = IF Head(port).reason = "manual" THEN tree ELSE stamp
      /\ jobs' = Outdated(Scopes)
      /\ UNCHANGED <<worldVars, notices, warmDue, panel, mainVars, inFlight, single>>
  BY DEF Invalidated
<1>2. calls' = calls /\ thread' = thread /\ faults' = faults
  BY <1>1 DEF mainVars
<1>3. Follows(calls')
  BY <1>2, FollowsSelf
<1>4. CacheOK'
  BY <1>1, CacheTypes, ConstantTypes DEF CacheOK
<1>5. jobs' = [j \in Jobs |-> Outdated(Scopes)[j]]
  BY <1>1 DEF Outdated
<1>6. JobsOK'
  BY <1>3, <1>5, OutdatedFits, JobsFollow
<1>7. PortOK'
  BY <1>1, <1>3, PortFollow
<1> QED BY <1>1, <1>2, <1>3, <1>4, <1>6, <1>7, WorldAlone

\* An answer follows if it is new enough for every forced call it goes to.
LEMMA AnsweredFollows ==
  ASSUME IInv, NEW done \in SUBSET Jobs, NEW list \in Lists,
         \A j \in done : j[1] \in Ids /\ calls[j[1]].force => AtLeast(list, calls[j[1]].asked)
  PROVE  Follows(Answered(done, list))
<1> DEFINE D == Answered(done, list)
           Answer(c) == IF calls[c].by = "panel" THEN list ELSE None
<1>1. calls \in Seq(Calls) /\ Ids = 1..Len(calls) /\ Len(calls) \in Nat /\ Len(calls) <= MaxCalls
  BY DEF IInv, CallsOK, Ids
<1>2. ASSUME NEW c \in Ids
      PROVE  \/ D[c] = calls[c]
             \/ /\ D[c] = [calls[c] EXCEPT !.state = "answered", !.list = Answer(c)]
                /\ \E j \in done : j[1] = c
  BY DEF Answered
<1>3. D = [c \in Ids |-> D[c]]
  BY DEF Answered
<1> HIDE DEF D
<1>4. ASSUME NEW c \in Ids
      PROVE  D[c] \in Calls /\ SameRequest(D[c], calls[c]) /\ FencedCall(D[c]) /\ FreshCall(D[c])
  <2>1. calls[c] \in Calls /\ FencedCall(calls[c]) /\ FreshCall(calls[c])
    BY <1>1 DEF IInv, CallsFine
  <2>2. CASE D[c] = calls[c]
    BY <2>1, <2>2 DEF SameRequest
  <2>3. CASE /\ D[c] = [calls[c] EXCEPT !.state = "answered", !.list = Answer(c)]
             /\ \E j \in done : j[1] = c
    <3>1. Answer(c) \in {list, None} /\ Answer(c) \in Lists
      BY ConstantTypes
    <3>2. calls[c].force => AtLeast(Answer(c), calls[c].asked)
      BY <2>3, <3>1, ConstantTypes DEF AtLeast
    <3> HIDE DEF Answer
    <3> DEFINE d == [calls[c] EXCEPT !.state = "answered", !.list = Answer(c)]
    <3>3. d \in Calls /\ d.force = calls[c].force /\ d.asked = calls[c].asked
          /\ d.warmth = calls[c].warmth /\ d.list = Answer(c)
      BY <2>1, <3>1 DEF Calls
    <3>4. D[c] = d
      BY <2>3
    <3> HIDE DEF d
    <3> QED BY <2>1, <3>2, <3>3, <3>4 DEF SameRequest, FencedCall, FreshCall
  <2> QED BY <1>2, <2>2, <2>3
<1>5. D \in [1..Len(calls) -> Calls]
  BY <1>1, <1>3, <1>4
<1>6. D \in Seq(Calls) /\ Len(D) = Len(calls)
  BY <1>1, <1>5
<1>7. Follows(D)
  BY <1>1, <1>4, <1>6 DEF Follows
<1> QED BY <1>7 DEF D

LEMMA GetPlainStep ==
  ASSUME IInv, NEW c \in Ids, GetPlain(c), single' = single
  PROVE  Follows(calls') /\ CacheOK' /\ JobsOK'
<1> DEFINE mine == {c} \X calls[c].scopes
           hits == {j \in mine : cache[j[2]] # None}
           Got(s) == IF inFlight[s] # None THEN [Idle EXCEPT !.stage = "joined", !.on = inFlight[s]]
                                           ELSE [Idle EXCEPT !.stage = "opening", !.kept = TRUE]
           list == IF hits = {} THEN None ELSE cache[(CHOOSE j \in hits : TRUE)[2]]
<1>1. /\ ~calls[c].force
      /\ jobs' = [j \in Jobs |-> IF j \in mine \ hits THEN Got(j[2]) ELSE jobs[j]]
      /\ inFlight' = [s \in Scopes |->
           IF <<c, s>> \in mine \ hits /\ inFlight[s] = None THEN <<c, s>> ELSE inFlight[s]]
      /\ calls' = Answered(hits, list)
      /\ UNCHANGED <<cache, stamp>>
  BY DEF GetPlain
<1>2. c \in Id /\ calls[c].scopes \in SUBSET Scopes
  <2>1. c \in 1..Len(calls) /\ calls \in Seq(Calls) /\ Len(calls) <= MaxCalls
    BY DEF IInv, CallsOK, Ids
  <2>2. calls[c] \in Calls /\ c \in Id
    BY <2>1, ConstantTypes DEF Id
  <2>3. calls[c].scopes \in SUBSET Scopes
    BY <2>2, Zenon DEF Calls
  <2> QED BY <2>2, <2>3
<1>3. mine \in SUBSET Jobs /\ \A j \in mine : j[1] = c /\ j[2] \in Scopes
  BY <1>2 DEF Jobs
<1>4. hits \in SUBSET Jobs /\ \A j \in hits : ~calls[j[1]].force
  BY <1>1, <1>3
<1>5. list \in Lists
  BY <1>3, CacheTypes, ConstantTypes
<1>6. Follows(calls')
  BY <1>1, <1>4, <1>5, AnsweredFollows
<1>7. ASSUME NEW j \in mine
      PROVE  Got(j[2]) \in JobStates /\ Fits(Got(j[2]), j)
  <2>1. j[2] \in Scopes /\ j \in Jobs /\ j[1] \in Ids /\ ~calls[j[1]].force
    BY <1>1, <1>3
  <2>2. inFlight[j[2]] \in Jobs \cup {None}
    BY <2>1, CacheTypes
  <2> DEFINE x == [Idle EXCEPT !.stage = "joined", !.on = inFlight[j[2]]]
             y == [Idle EXCEPT !.stage = "opening", !.kept = TRUE]
  <2>3. x \in JobStates /\ Fits(x, j)
    BY <2>1, <2>2, ConstantTypes DEF Idle, JobStates, Stages, Fits
  <2>4. y \in JobStates /\ Fits(y, j)
    BY <2>1, OpeningFits
  <2>5. Got(j[2]) \in {x, y}
    OBVIOUS
  <2> HIDE DEF x, y, Got
  <2> QED BY <2>3, <2>4, <2>5
<1>8. CacheOK'
  <2>1. inFlight' \in [Scopes -> Jobs \cup {None}]
    BY <1>1, <1>3, CacheTypes
  <2> QED BY <1>1, <2>1, CacheTypes DEF CacheOK
<1> HIDE DEF mine, hits, Got, list
<1>9. JobsOK'
  BY <1>1, <1>6, <1>7, CacheTypes, JobsFollow
<1> QED BY <1>6, <1>8, <1>9

LEMMA GetForcedStep ==
  ASSUME IInv, NEW c \in Ids, GetForced(c), single' = single
  PROVE  Follows(calls') /\ CacheOK' /\ JobsOK'
<1> DEFINE y == [Idle EXCEPT !.stage = "opening", !.kept = TRUE]
<1>1. /\ stamp' = IF \E s \in calls[c].scopes : cache[s] # None THEN tree ELSE stamp
      /\ cache' = [s \in Scopes |-> IF s \in calls[c].scopes THEN None ELSE cache[s]]
      /\ inFlight' = [s \in Scopes |-> IF s \in calls[c].scopes THEN <<c, s>> ELSE inFlight[s]]
      /\ jobs' = [j \in Jobs |-> IF j[1] = c /\ j[2] \in calls[c].scopes THEN y
                                 ELSE Outdated(calls[c].scopes)[j]]
      /\ calls' = calls
  BY DEF GetForced
<1>2. c \in Id
  BY ConstantTypes DEF IInv, CallsOK, Ids, Id
<1>3. Follows(calls')
  BY <1>1, FollowsSelf
<1>4. CacheOK'
  <2>1. inFlight' \in [Scopes -> Jobs \cup {None}]
    BY <1>1, <1>2, CacheTypes DEF Jobs
  <2>2. cache' \in [Scopes -> Lists] /\ stamp' \in 0..MaxVersion
    BY <1>1, CacheTypes, ConstantTypes
  <2> QED BY <2>1, <2>2, CacheTypes DEF CacheOK
<1>5. \A j \in Jobs : j[1] = c => y \in JobStates /\ Fits(y, j)
  BY OpeningFits
<1> HIDE DEF y
<1>6. JobsOK'
  BY <1>1, <1>3, <1>5, OutdatedFits, JobsFollow
<1> QED BY <1>3, <1>4, <1>6

LEMMA ReceivedStep == ASSUME IInv, Received PROVE IInv'
<1> DEFINE c == Head(port).call
<1>1. /\ port # <<>> /\ c # 0 /\ port' = Tail(port)
      /\ GetPlain(c) \/ GetForced(c)
      /\ UNCHANGED <<worldVars, notices, warmDue, panel, thread, faults, single>>
  BY DEF Received
<1>2. c \in Ids
  <2>1. port \in Seq(Messages) /\ Len(port) >= 1 /\ port[1] \in Messages /\ port[1].call <= Len(calls)
    BY <1>1 DEF IInv, PortOK
  <2>2. c \in Nat /\ c <= Len(calls)
    BY <1>1, <2>1, ConstantTypes DEF Messages
  <2> QED BY <1>1, <2>2 DEF Ids, IInv, CallsOK
<1> HIDE DEF c
<1>3. Follows(calls') /\ CacheOK' /\ JobsOK'
  BY <1>1, <1>2, GetPlainStep, GetForcedStep
<1>4. PortOK'
  BY <1>1, <1>3, PortFollow
<1> QED BY <1>1, <1>3, <1>4, WorldAlone

\* One job moves on.
LEMMA OneJob ==
  ASSUME IInv, NEW j \in Jobs, NEW x \in JobStates, Fits(x, j),
         jobs' = [jobs EXCEPT ![j] = x], single' \in Jobs \cup {None},
         UNCHANGED <<worldVars, notices, warmDue, panel, mainVars, port, cache, inFlight, stamp>>
  PROVE  IInv'
<1>1. jobs' = [k \in Jobs |-> IF k = j THEN x ELSE jobs[k]]
  BY CacheTypes
<1>2. calls' = calls /\ thread' = thread /\ faults' = faults /\ Follows(calls')
  BY FollowsSelf DEF mainVars
<1>3. JobsOK'
  BY <1>1, <1>2, CacheTypes, JobsFollow
<1>4. CacheOK'
  BY CacheTypes DEF CacheOK
<1> QED BY <1>2, <1>3, <1>4, PortSame, WorldAlone

LEMMA ShareStep == ASSUME IInv, NEW j \in Jobs, Share(j) PROVE IInv'
<1> DEFINE x == [jobs[j] EXCEPT !.stage = "shared", !.on = single]
<1>1. /\ jobs[j].stage = "opening" /\ ~calls[j[1]].force
      /\ jobs' = [jobs EXCEPT ![j] = x]
      /\ UNCHANGED <<worldVars, notices, warmDue, panel, mainVars, port, cache, inFlight,
                     single, stamp>>
  BY DEF Share, MayShare
<1>2. jobs[j] \in JobStates /\ Fits(jobs[j], j)
  BY CacheTypes
<1>3. x \in JobStates /\ x.stage = "shared"
  BY <1>2, CacheTypes DEF JobStates, Stages
<1> HIDE DEF x
<1>4. Fits(x, j)
  BY <1>1, <1>2, <1>3 DEF Fits
<1> QED BY <1>1, <1>3, <1>4, CacheTypes, OneJob

\* A forced call has no status of the mirror's to reuse.
LEMMA ReuseStep == ASSUME IInv, NEW j \in Jobs, Reuse(j) PROVE IInv'
<1> DEFINE w == calls[j[1]].warmth
           x == [jobs[j] EXCEPT !.stage = "counting", !.list = w]
<1>1. /\ jobs[j].stage = "opening" /\ w # 0 /\ single' = j
      /\ jobs' = [jobs EXCEPT ![j] = x]
      /\ UNCHANGED <<worldVars, notices, warmDue, panel, mainVars, port, cache, inFlight, stamp>>
  BY DEF Reuse, Reusable
<1>2. jobs[j] \in JobStates /\ Fits(jobs[j], j)
  BY CacheTypes
<1>3. j[1] \in Ids
  BY <1>1, <1>2 DEF Fits
<1>4. calls[j[1]] \in Calls /\ FencedCall(calls[j[1]])
  BY <1>3 DEF IInv, CallsOK, CallsFine, Ids
<1>5. w \in Lists /\ ~calls[j[1]].force
  BY <1>1, <1>4, ConstantTypes DEF Calls, FencedCall, Version
<1> HIDE DEF w
<1>6. x \in JobStates /\ x.stage = "counting"
  BY <1>2, <1>5 DEF JobStates, Stages
<1> HIDE DEF x
<1>7. Fits(x, j)
  BY <1>3, <1>5, <1>6 DEF Fits
<1> QED BY <1>1, <1>6, <1>7, OneJob

LEMMA OpenReadStep == ASSUME IInv, NEW j \in Jobs, OpenRead(j) PROVE IInv'
<1> DEFINE x == [jobs[j] EXCEPT !.stage = "reading"]
<1>1. /\ jobs[j].stage = "opening" /\ single' = j
      /\ jobs' = [jobs EXCEPT ![j] = x]
      /\ UNCHANGED <<worldVars, notices, warmDue, panel, mainVars, port, cache, inFlight, stamp>>
  BY DEF OpenRead
<1>2. jobs[j] \in JobStates /\ Fits(jobs[j], j)
  BY CacheTypes
<1>3. x \in JobStates /\ x.stage = "reading"
  BY <1>2 DEF JobStates, Stages
<1> HIDE DEF x
<1>4. Fits(x, j)
  BY <1>1, <1>2, <1>3 DEF Fits
<1> QED BY <1>1, <1>3, <1>4, OneJob

\* What git status reads now is as new as anything asked for before.
LEMMA StatusStep == ASSUME IInv, NEW j \in Jobs, Status(j) PROVE IInv'
<1>1. PICK list \in {tree} \cup (IF MayFail THEN {Failed} ELSE {}) :
        jobs' = [jobs EXCEPT ![j] = [@ EXCEPT !.stage = "counting", !.list = list]]
  BY DEF Status
<1> DEFINE x == [jobs[j] EXCEPT !.stage = "counting", !.list = list]
<1>2. /\ jobs[j].stage = "reading"
      /\ jobs' = [jobs EXCEPT ![j] = x]
      /\ UNCHANGED <<worldVars, notices, warmDue, panel, mainVars, port, cache, inFlight,
                     single, stamp>>
  BY <1>1 DEF Status
<1>3. jobs[j] \in JobStates /\ Fits(jobs[j], j)
  BY CacheTypes
<1>4. list \in Lists /\ (list \in Version => list = tree)
  BY <1>1, CacheTypes, ConstantTypes
<1>5. x \in JobStates /\ x.stage = "counting" /\ x.list = list
  BY <1>3, <1>4 DEF JobStates, Stages
<1> HIDE DEF x
<1>6. j[1] \in Ids
  BY <1>2, <1>3 DEF Fits
<1>7. calls[j[1]].force => calls[j[1]].asked <= tree
  BY <1>6 DEF IInv, CallsFine, FencedCall
<1>8. Fits(x, j)
  BY <1>4, <1>5, <1>6, <1>7 DEF Fits, AtLeast
<1> QED BY <1>2, <1>5, <1>8, CacheTypes, OneJob

\* The answers of a read go to the job that read and to plain calls.
LEMMA ReadEndsStep == ASSUME IInv, NEW j \in Jobs, ReadEnds(j) PROVE IInv'
<1> DEFINE loads == {j} \cup {k \in Jobs : jobs[k].stage = "shared" /\ jobs[k].on = j}
           done == loads \cup {k \in Jobs : jobs[k].stage = "joined" /\ jobs[k].on \in loads}
           list == jobs[j].list
<1>1. /\ jobs[j].stage = "counting"
      /\ jobs' = [k \in Jobs |-> IF k \in done THEN Idle ELSE jobs[k]]
      /\ single' = IF single = j THEN None ELSE single
      /\ cache' = [s \in Scopes |-> IF \E k \in loads : k[2] = s /\ jobs[k].kept
                                   THEN list ELSE cache[s]]
      /\ inFlight' = [s \in Scopes |-> IF inFlight[s] \in loads THEN None ELSE inFlight[s]]
      /\ calls' = Answered(done, list)
      /\ UNCHANGED <<worldVars, notices, warmDue, panel, thread, faults, port, stamp>>
  BY DEF ReadEnds
<1>2. jobs[j] \in JobStates /\ Fits(jobs[j], j) /\ list \in Lists /\ done \in SUBSET Jobs
  BY CacheTypes DEF JobStates
<1>3. ASSUME NEW k \in done, calls[k[1]].force
      PROVE  AtLeast(list, calls[k[1]].asked)
  <2>1. CASE k = j
    BY <1>1, <1>2, <1>3, <2>1 DEF Fits
  <2>2. CASE k # j
    <3>1. k \in Jobs /\ jobs[k].stage \in {"shared", "joined"}
      BY <2>2
    <3>2. Fits(jobs[k], k)
      BY <3>1, CacheTypes
    <3> QED BY <1>3, <3>1, <3>2 DEF Fits
  <2> QED BY <2>1, <2>2
<1>4. CacheOK'
  BY <1>1, <1>2, CacheTypes, ConstantTypes DEF CacheOK
<1> HIDE DEF loads, done, list
<1>5. Follows(calls')
  BY <1>1, <1>2, <1>3, AnsweredFollows
<1>6. JobsOK'
  BY <1>1, <1>5, CacheTypes, IdleFits, JobsFollow
<1>7. PortOK'
  BY <1>1, <1>5, PortSame
<1> QED BY <1>1, <1>4, <1>5, <1>6, <1>7, WorldAlone

-----------------------------------------------------------------------------
LEMMA InitIInv == Init => IInv
<1> SUFFICES ASSUME Init PROVE IInv
  OBVIOUS
<1>1. WorldOK /\ CallsOK /\ CacheOK
  BY ConstantTypes DEF Init, WorldOK, CallsOK, CacheOK, Version, Scopes
<1>2. PanelOK
  BY ConstantTypes DEF Init, PanelOK, Panels, NoOptions, Options
<1>3. PortOK /\ CallsFine
  BY DEF Init, PortOK, CallsFine, Ids
<1>4. JobsOK
  BY IdleFits DEF Init, JobsOK
<1>5. Due(panel, calls) /\ RestsFresh
  BY DEF Init, Due, RestsFresh, NoOptions
<1> QED BY <1>1, <1>2, <1>3, <1>4, <1>5 DEF IInv

LEMMA NextIInv == IInv /\ [Next]_vars => IInv'
<1> SUFFICES ASSUME IInv, [Next]_vars PROVE IInv'
  OBVIOUS
<1>1. CASE Viewer
  BY <1>1, ViewerStep
<1>2. CASE World
  BY <1>2, WorldStep
<1>3. CASE \E c \in Id : Post(c) \/ TimeOut(c)
  BY <1>3, PostStep, TimeOutStep
<1>4. CASE WorkerExits \/ Invalidated \/ Received
  BY <1>4, WorkerExitsStep, InvalidatedStep, ReceivedStep
<1>5. CASE \E j \in Jobs : Work(j)
  BY <1>5, ShareStep, ReuseStep, OpenReadStep, StatusStep, ReadEndsStep DEF Work
<1>6. CASE UNCHANGED vars
  <2>1. UNCHANGED <<worldVars, notices, warmDue, panel, thread, faults>> /\ calls' = calls
        /\ port' = port /\ UNCHANGED workerVars
    BY <1>6 DEF vars, mainVars
  <2>2. CacheOK' /\ jobs' = jobs
    BY <2>1 DEF IInv, CacheOK, workerVars
  <2> QED BY <2>1, <2>2, FollowsSelf, JobsSame, PortSame, WorldAlone
<1> QED BY <1>1, <1>2, <1>3, <1>4, <1>5, <1>6 DEF Next

LEMMA Invariant == Spec => []IInv
BY InitIInv, NextIInv, PTL DEF Spec

\* Every variable keeps its type.
THEOREM TypeTheorem == Spec => []TypeOK
<1>1. IInv => TypeOK
  BY DEF IInv, TypeOK, PanelOK, PortOK, JobsOK
<1> QED BY <1>1, Invariant, PTL

\* A forced load is never answered with a list older than the repository was when
\* it was asked for, whatever it overlaps with.
THEOREM ForcedTheorem == Spec => []ForcedIsFresh
<1>1. IInv => ForcedIsFresh
  BY DEF IInv, CallsFine, FreshCall, ForcedIsFresh
<1> QED BY <1>1, Invariant, PTL

\* A viewer that rests shows what it was told of, or says that it could not.
THEOREM RestsTheorem == Spec => []RestsFresh
<1>1. IInv => RestsFresh
  BY DEF IInv
<1> QED BY <1>1, Invariant, PTL

-----------------------------------------------------------------------------
(* The bodies                                                              *)

\* What a step records of the calls that join late and of what they store.
Marked ==
  /\ \A c \in Caller : c \notin late' =>
       /\ ~JoinsLate(c) /\ ~HitsDoubtful(c)
       /\ call'[c].pc = call[c].pc => c \notin late
  /\ \A k \in DOMAIN bodies'.entries : k \notin doubtful' =>
       /\ k \notin doubtful
       /\ \A c \in late : Stores(c) => call[c].key # k

\* An entry whose token is no newer than its body.
Honest(e) == e.body \in Nat /\ e.token \in Int /\ e.token <= e.body

\* What Size may be asked for.
Weight == Nat \cup {Size[k][v] : k \in Key, v \in Nat}
CallRecord ==
  [pc : {"idle", "validate", "stat", "wait", "served"}, key : Key \cup {NoCall.key},
   force : BOOLEAN, since : Nat, current : BOOLEAN, entry : [body : Nat, token : Int, size : Weight],
   token : Int, job : Caller \cup {"none"}]
ReadRecord == [pc : {"none", "asked", "read", "replied"}, body : Nat, ok : BOOLEAN]

\* The wipes are of the past, and the cache holds honest entries from after them,
\* but for the keys of D.
DiskInv ==
  /\ disk \in [Key -> Nat] /\ floor \in [Key -> Nat]
  /\ \A k \in Key : floor[k] <= disk[k]
Kept(D, k, e) ==
  /\ k \in Key /\ e \in [body : Nat, token : Int, size : Weight]
  /\ k \notin D => Honest(e) /\ floor[k] <= e.body
Holds(D, ca) ==
  /\ ca = [entries |-> ca.entries, bytes |-> ca.bytes, touched |-> ca.touched, queue |-> ca.queue]
  /\ \A k \in DOMAIN ca.entries : Kept(D, k, ca.entries[k])

Running(x) == x.pc \in {"validate", "stat", "wait"}

\* A call x began at a version there was, and its project was not wiped since
\* unless it knows.
Began(x) ==
  Running(x) => /\ x.key \in Key /\ x.since <= disk[x.key]
                /\ x.current => floor[x.key] <= x.since

\* The entry a call is about to vouch for is honest, unless it is known not to be.
Vouched(c) == call[c].pc = "validate" /\ c \notin late => Honest(call[c].entry)

\* It waits for a request of its key, its own or another's, and what that has
\* read is no older than the call's beginning or its token, unless it joined late.
WaitsFor(c, x, d) ==
  /\ d \in Caller /\ read[d].pc # "none"
  /\ x.token <= disk[x.key]
  /\ d = c => read[d].pc \in {"asked", "read"}
  /\ read[d].pc # "replied" => call[d].pc = "wait" /\ call[d].job = d /\ call[d].key = x.key
  /\ read[d].pc # "asked" /\ c \notin late => x.since <= read[d].body /\ x.token <= read[d].body
Waits(c) == call[c].pc = "wait" => WaitsFor(c, call[c], call[c].job)

\* A request under way is its caller's, who waits for it.
Asked(c) ==
  /\ read[c].pc \in {"asked", "read"} => call[c].pc = "wait" /\ call[c].job = c
  /\ call[c].pc \in {"validate", "stat"} => read[c].pc = "none"

CallsInv ==
  /\ call \in [Caller -> CallRecord] /\ read \in [Caller -> ReadRecord]
  /\ \A c \in Caller : Began(call[c]) /\ Vouched(c) /\ Waits(c) /\ Asked(c)

ContentInv == DiskInv /\ Holds(doubtful, bodies) /\ CallsInv

-----------------------------------------------------------------------------
(* The cache *)

\* A record of the cache's four fields is known by them.
LEMMA CacheRecord ==
  ASSUME NEW e, NEW b, NEW t, NEW u, NEW d, d = [f \in DOMAIN d |-> d[f]],
         DOMAIN d = {"entries", "bytes", "touched", "queue"},
         d.entries = e /\ d.bytes = b /\ d.touched = t /\ d.queue = u
  PROVE  d = [entries |-> e, bytes |-> b, touched |-> t, queue |-> u]
BY SMT

LEMMA CacheExcept ==
  ASSUME NEW e, NEW b, NEW t, NEW u, NEW en, NEW p, NEW n, NEW tt, NEW q
  PROVE  LET ca == [entries |-> e, bytes |-> b, touched |-> t, queue |-> u] IN
         /\ [ca EXCEPT !.touched = tt, !.queue = q]
              = [entries |-> e, bytes |-> b, touched |-> tt, queue |-> q]
         /\ [ca EXCEPT !.entries = en, !.bytes[p] = n]
              = [entries |-> en, bytes |-> [b EXCEPT ![p] = n], touched |-> t, queue |-> u]
<1> DEFINE ca == [entries |-> e, bytes |-> b, touched |-> t, queue |-> u]
           d1 == [ca EXCEPT !.touched = tt, !.queue = q]
           d2 == [ca EXCEPT !.entries = en, !.bytes[p] = n]
           b2 == [b EXCEPT ![p] = n]
<1>1. /\ d1.entries = e /\ d1.bytes = b /\ d1.touched = tt /\ d1.queue = q
      /\ DOMAIN d1 = {"entries", "bytes", "touched", "queue"}
      /\ d1 = [f \in DOMAIN d1 |-> d1[f]]
  <2>1. d1.entries = e /\ d1.bytes = b /\ d1.touched = tt /\ d1.queue = q
    OBVIOUS
  <2>2. DOMAIN d1 = {"entries", "bytes", "touched", "queue"}
    OBVIOUS
  <2>3. d1 = [f \in DOMAIN d1 |-> d1[f]]
    OBVIOUS
  <2> QED
    BY <2>1, <2>2, <2>3
<1>2. /\ d2.entries = en /\ d2.bytes = b2 /\ d2.touched = t /\ d2.queue = u
      /\ DOMAIN d2 = {"entries", "bytes", "touched", "queue"}
      /\ d2 = [f \in DOMAIN d2 |-> d2[f]]
  <2>1. d2.entries = en /\ d2.bytes = b2 /\ d2.touched = t /\ d2.queue = u
    OBVIOUS
  <2>2. DOMAIN d2 = {"entries", "bytes", "touched", "queue"}
    OBVIOUS
  <2>3. d2 = [f \in DOMAIN d2 |-> d2[f]]
    OBVIOUS
  <2> QED
    BY <2>1, <2>2, <2>3
<1>3. d1 = [entries |-> e, bytes |-> b, touched |-> tt, queue |-> q]
  <2> HIDE DEF d1
  <2> QED
    BY <1>1, CacheRecord
<1>4. d2 = [entries |-> en, bytes |-> b2, touched |-> t, queue |-> u]
  <2> HIDE DEF d2, b2
  <2> QED
    BY <1>2, CacheRecord
<1> QED
  BY <1>3, <1>4

LEMMA EntriesOf ==
  ASSUME NEW D, NEW ca, Holds(D, ca)
  PROVE  /\ \A k : /\ Touched(ca, k).entries = ca.entries
                   /\ Holds(D, Touched(ca, k))
         /\ \A S : /\ Dropped(ca, S).entries = [k \in DOMAIN ca.entries \ S |-> ca.entries[k]]
                   /\ Holds(D, Dropped(ca, S))
         /\ \A k, e : Kept(D, k, e) => Holds(D, Added(ca, k, e))
<1>1. ASSUME NEW k
      PROVE  LET t == Touched(ca, k) IN
             /\ t = [entries |-> t.entries, bytes |-> t.bytes, touched |-> t.touched, queue |-> t.queue]
             /\ t.entries = ca.entries
  <2> DEFINE tt == Append(Without(ca.touched, {k}), k)
             q == <<ProjectOf[k]>> \o Without(ca.queue, {ProjectOf[k]})
  <2>1. Touched(ca, k) = [ca EXCEPT !.touched = tt, !.queue = q]
    BY DEF Touched
  <2> HIDE DEF tt, q
  <2>2. Touched(ca, k) = [entries |-> ca.entries, bytes |-> ca.bytes, touched |-> tt, queue |-> q]
    BY <2>1, CacheExcept DEF Holds
  <2> QED
    BY <2>2
<1>2. ASSUME NEW S
      PROVE  LET t == Dropped(ca, S) IN
             /\ t = [entries |-> t.entries, bytes |-> t.bytes, touched |-> t.touched, queue |-> t.queue]
             /\ t.entries = [k \in DOMAIN ca.entries \ S |-> ca.entries[k]]
  BY DEF Dropped
<1>3. ASSUME NEW k, NEW e, Kept(D, k, e)
      PROVE  LET t == Added(ca, k, e) IN
             /\ t = [entries |-> t.entries, bytes |-> t.bytes, touched |-> t.touched, queue |-> t.queue]
             /\ t.entries = [j \in DOMAIN ca.entries \cup {k} |-> IF j = k THEN e ELSE ca.entries[j]]
  <2> DEFINE en == [j \in DOMAIN ca.entries \cup {k} |-> IF j = k THEN e ELSE ca.entries[j]]
             p == ProjectOf[k]
             n == ca.bytes[p] + e.size - (IF k \in DOMAIN ca.entries THEN ca.entries[k].size ELSE 0)
  <2>1. Added(ca, k, e) = [ca EXCEPT !.entries = en, !.bytes[p] = n]
    BY DEF Added
  <2>2. en = [j \in DOMAIN ca.entries \cup {k} |-> IF j = k THEN e ELSE ca.entries[j]]
    OBVIOUS
  <2> HIDE DEF en, p, n
  <2>3. Added(ca, k, e) = [entries |-> en, bytes |-> [ca.bytes EXCEPT ![p] = n],
                           touched |-> ca.touched, queue |-> ca.queue]
    BY <2>1, CacheExcept DEF Holds
  <2> QED
    BY <2>2, <2>3
<1>4. ASSUME NEW k, NEW e, Kept(D, k, e),
             NEW j \in DOMAIN [i \in DOMAIN ca.entries \cup {k} |-> IF i = k THEN e ELSE ca.entries[i]]
      PROVE  Kept(D, j, [i \in DOMAIN ca.entries \cup {k} |-> IF i = k THEN e ELSE ca.entries[i]][j])
  <2>1. CASE j = k
    BY <1>4, <2>1
  <2>2. CASE j # k
    BY <2>2 DEF Holds
  <2> QED
    BY <2>1, <2>2
<1>5. ASSUME NEW k PROVE Holds(D, Touched(ca, k))
  BY <1>1 DEF Holds
<1>6. ASSUME NEW S PROVE Holds(D, Dropped(ca, S))
  BY <1>2 DEF Holds
<1>7. ASSUME NEW k, NEW e, Kept(D, k, e) PROVE Holds(D, Added(ca, k, e))
  <2> DEFINE t == Added(ca, k, e)
             en == [i \in DOMAIN ca.entries \cup {k} |-> IF i = k THEN e ELSE ca.entries[i]]
  <2>1. /\ t = [entries |-> t.entries, bytes |-> t.bytes, touched |-> t.touched, queue |-> t.queue]
        /\ t.entries = en
    BY <1>3, <1>7
  <2>2. \A j \in DOMAIN en : Kept(D, j, en[j])
    BY <1>4, <1>7
  <2> HIDE DEF t, en
  <2>3. Holds(D, t)
    BY <2>1, <2>2 DEF Holds
  <2> QED
    BY <2>3 DEF t
<1> QED
  BY <1>1, <1>2, <1>5, <1>6, <1>7

-----------------------------------------------------------------------------
(* The calls *)

\* What the history variables record of a step, and what follows from it.
LEMMA DoubtMarks == ASSUME Doubt PROVE Marked
BY DEF Doubt, Marked

LEMMA StaysVouched ==
  ASSUME Marked, NEW c \in Caller, Vouched(c),
         call'[c].pc = "validate" => call[c].pc = "validate" /\ call'[c].entry = call[c].entry
  PROVE  Vouched(c)'
BY DEF Marked, Vouched

\* Calls that learn of a wipe or an eviction: only what is current changes.
Less(C, D) ==
  /\ C \in [Caller -> CallRecord]
  /\ \A c \in Caller :
       /\ C[c].pc = D[c].pc /\ C[c].key = D[c].key /\ C[c].since = D[c].since
       /\ C[c].entry = D[c].entry /\ C[c].token = D[c].token /\ C[c].job = D[c].job
       /\ C[c].current => D[c].current

LEMMA BumpedLess ==
  ASSUME NEW C \in [Caller -> CallRecord], NEW ps
  PROVE  /\ Less(Bumped(C, ps), C)
         /\ \A c \in Caller : ProjectOf[C[c].key] \in ps => ~Bumped(C, ps)[c].current
<1>1. \A c \in Caller : Bumped(C, ps)[c] = IF ProjectOf[C[c].key] \in ps
                                          THEN [C[c] EXCEPT !.current = FALSE] ELSE C[c]
  BY DEF Bumped
<1>2. \A x \in CallRecord : LET y == [x EXCEPT !.current = FALSE] IN
        /\ y \in CallRecord /\ ~y.current
        /\ y.pc = x.pc /\ y.key = x.key /\ y.since = x.since
        /\ y.entry = x.entry /\ y.token = x.token /\ y.job = x.job
  BY DEF CallRecord
<1>3. DOMAIN Bumped(C, ps) = Caller /\ Bumped(C, ps) = [c \in Caller |-> Bumped(C, ps)[c]]
  BY DEF Bumped
<1>4. \A c \in Caller : Bumped(C, ps)[c] \in CallRecord
  BY <1>1, <1>2
<1>5. Bumped(C, ps) \in [Caller -> CallRecord]
  BY <1>3, <1>4
<1> QED
  BY <1>1, <1>2, <1>5 DEF Less

\* The calls know less, the files are newer, the requests are as they were.
LEMMA CallsLater ==
  ASSUME CallsInv, DiskInv, DiskInv', Marked, Less(call', call), UNCHANGED read,
         \A k \in Key : disk[k] <= disk'[k],
         \A c \in Caller : Running(call[c]) /\ call'[c].current =>
           floor'[call[c].key] = floor[call[c].key]
  PROVE  CallsInv'
<1>1. ASSUME NEW c \in Caller PROVE Began(call[c])' /\ Vouched(c)' /\ Waits(c)' /\ Asked(c)'
  <2>1. Began(call[c]) /\ Vouched(c) /\ Waits(c) /\ Asked(c) /\ call[c] \in CallRecord
    BY DEF CallsInv
  <2>2. Began(call[c])'
    BY <2>1 DEF Began, Running, Less, DiskInv, CallRecord
  <2>5. Vouched(c)'
    BY <2>1, StaysVouched DEF Less
  <2>3. Asked(c)'
    BY <2>1 DEF Asked, Less
  <2>4. Waits(c)'
    <3> SUFFICES ASSUME call[c].pc = "wait" PROVE Waits(c)'
      BY DEF Waits, Less
    <3>1. WaitsFor(c, call[c], call[c].job) /\ call[c].key \in Key
      BY <2>1 DEF Waits, Began, Running
    <3>2. call'[c].token <= disk'[call'[c].key]
      BY <2>1, <3>1 DEF WaitsFor, Less, DiskInv, CallRecord
    <3> QED
      BY <3>1, <3>2 DEF Waits, WaitsFor, Less, Marked
  <2> QED
    BY <2>2, <2>3, <2>4, <2>5
<1>2. call' \in [Caller -> CallRecord] /\ read' \in [Caller -> ReadRecord]
  BY DEF CallsInv, Less
<1> QED
  BY <1>1, <1>2 DEF CallsInv

\* One call that no request is about changes, and does not wait afterwards.
LEMMA OneCall ==
  ASSUME CallsInv, Marked, NEW c \in Caller, read[c].pc = "none", UNCHANGED <<read, disk, floor>>,
         NEW x \in CallRecord, Began(x), x.pc # "wait", call' = [call EXCEPT ![c] = x],
         x.pc = "validate" /\ c \notin late' => Honest(x.entry)
  PROVE  CallsInv'
<1>1. call' \in [Caller -> CallRecord] /\ read' \in [Caller -> ReadRecord]
      /\ call'[c] = x /\ \A d \in Caller \ {c} : call'[d] = call[d]
  BY DEF CallsInv
<1>2. ASSUME NEW d \in Caller PROVE Began(call[d])' /\ Vouched(d)' /\ Waits(d)' /\ Asked(d)'
  <2>1. Began(call[d]) /\ Vouched(d) /\ Waits(d) /\ Asked(d)
    BY DEF CallsInv
  <2>2. CASE d = c
    BY <1>1, <2>2 DEF Began, Running, Vouched, Waits, Asked
  <2>3. CASE d # c
    <3>1. Began(call[d])' /\ Asked(d)'
      BY <1>1, <2>1, <2>3 DEF Began, Running, Asked
    <3>3. Vouched(d)'
      BY <1>1, <2>1, <2>3, StaysVouched
    <3>2. Waits(d)'
      <4> SUFFICES ASSUME call[d].pc = "wait" PROVE WaitsFor(d, call[d], call[d].job)'
        BY <1>1, <2>3 DEF Waits
      <4>1. WaitsFor(d, call[d], call[d].job) /\ call[d].job # c
        BY <2>1 DEF Waits, WaitsFor
      <4> QED
        BY <1>1, <2>3, <4>1 DEF WaitsFor, Marked
    <3> QED
      BY <3>1, <3>2, <3>3
  <2> QED
    BY <2>2, <2>3
<1> QED
  BY <1>1, <1>2 DEF CallsInv

\* Nothing but the calls' own state moves.
LEMMA CallsAlone ==
  ASSUME ContentInv, CallsInv', Marked, UNCHANGED <<disk, floor>>,
         \/ Holds(doubtful, bodies')
         \/ \E c \in late : Stores(c) /\ Holds(doubtful \cup {call[c].key}, bodies')
  PROVE  ContentInv'
<1>1. DiskInv'
  BY DEF ContentInv, DiskInv
<1>2. Holds(doubtful, bodies)'
  BY DEF Holds, Kept, Marked
<1> QED
  BY <1>1, <1>2 DEF ContentInv
-----------------------------------------------------------------------------
(* The steps of a call *)

\* A call that is over, and the record of one that waits.
LEMMA OverCall ==
  /\ NoCall \in CallRecord /\ Served \in CallRecord
  /\ NoCall.pc = "idle" /\ Served.pc = "served"
<1>1. NoToken \in Int /\ NoEntry \in [body : Nat, token : Int, size : Weight]
  BY DEF NoToken, NoEntry, Weight
<1>2. NoCall \in CallRecord /\ NoCall.pc = "idle"
  BY <1>1 DEF NoCall, CallRecord
<1>3. [NoCall EXCEPT !.pc = "served"] \in CallRecord /\ [NoCall EXCEPT !.pc = "served"].pc = "served"
  <2> DEFINE y == NoCall
  <2>1. y \in CallRecord
    BY <1>2
  <2> HIDE DEF y
  <2>2. [y EXCEPT !.pc = "served"] \in CallRecord /\ [y EXCEPT !.pc = "served"].pc = "served"
    BY <2>1 DEF CallRecord
  <2> QED
    BY <2>2 DEF y
<1> QED
  BY <1>2, <1>3 DEF Served

Waiting(x, token, job) ==
  [x EXCEPT !.pc = "wait", !.entry = NoEntry, !.token = token, !.job = job]

LEMMA WaitingCall ==
  ASSUME NEW x \in CallRecord, NEW token \in Int, NEW job \in Caller
  PROVE  LET y == Waiting(x, token, job) IN
         /\ y \in CallRecord
         /\ y.pc = "wait" /\ y.token = token /\ y.job = job
         /\ y.key = x.key /\ y.since = x.since /\ y.current = x.current
<1> DEFINE y == [x EXCEPT !.pc = "wait", !.entry = NoEntry, !.token = token, !.job = job]
<1>1. NoEntry \in [body : Nat, token : Int, size : Weight]
  BY DEF NoEntry, NoToken, Weight
<1>2. y.pc = "wait" /\ y.token = token /\ y.job = job
  BY DEF CallRecord
<1>3. y.key = x.key /\ y.since = x.since /\ y.current = x.current
  BY DEF CallRecord
<1>4. y \in CallRecord
  BY <1>1 DEF CallRecord
<1> QED
  BY <1>2, <1>3, <1>4 DEF Waiting

LEMMA CallStep ==
  ASSUME ContentInv, Marked, NEW c \in Caller, NEW k \in Key, NEW force \in BOOLEAN, Call(c, k, force)
  PROVE  ContentInv'
<1> DEFINE hit == ~force /\ k \in DOMAIN bodies.entries
           x == [pc |-> IF hit THEN "validate" ELSE "stat", key |-> k, force |-> force,
                 since |-> disk[k], current |-> TRUE,
                 entry |-> IF hit THEN bodies.entries[k] ELSE NoEntry,
                 token |-> NoToken, job |-> "none"]
<1>1. UNCHANGED <<disk, floor, read>> /\ read[c].pc = "none"
  BY DEF Call, NoRead
<1>2. call' = [call EXCEPT ![c] = x]
  BY DEF Call
<1>3. NoEntry \in [body : Nat, token : Int, size : Weight] /\ NoToken \in Int
  BY DEF NoEntry, NoToken, Weight
<1>4. hit => Kept(doubtful, k, bodies.entries[k])
  BY DEF ContentInv, Holds
<1>5. disk[k] \in Nat /\ floor[k] <= disk[k]
  BY DEF ContentInv, DiskInv
<1>6. x \in CallRecord
  BY <1>3, <1>4, <1>5 DEF CallRecord, Kept
<1>7. Began(x) /\ x.pc # "wait"
  BY <1>4, <1>5 DEF Began, Running
<1>10. x.pc = "validate" /\ c \notin late' => Honest(x.entry)
  <2>1. x.pc = "validate" => hit /\ x.entry = bodies.entries[k]
    OBVIOUS
  <2>2. call'[c] = x /\ x.key = k
    BY <1>2 DEF ContentInv, CallsInv
  <2>3. x.pc = "validate" /\ c \notin late' => k \notin doubtful
    BY <2>2 DEF Marked, HitsDoubtful, Call
  <2> QED
    BY <1>4, <2>1, <2>3 DEF Kept
<1>8. CallsInv'
  <2> HIDE DEF x
  <2> QED
    BY <1>1, <1>2, <1>6, <1>7, <1>10, OneCall DEF ContentInv
<1>9. Holds(doubtful, bodies')
  BY EntriesOf DEF ContentInv, Call
<1> QED
  BY <1>1, <1>8, <1>9, CallsAlone

\* A call takes its token and asks, or joins a request.
LEMMA AskStep ==
  ASSUME ContentInv, Marked, NEW c \in Caller, call[c].pc \in {"validate", "stat"},
         NEW token \in Tokens(call[c].key), Ask(c, token), UNCHANGED <<disk, bodies, floor>>
  PROVE  ContentInv'
<1> DEFINE job == IF Joinable(c) = {} THEN c ELSE CHOOSE d \in Joinable(c) : TRUE
           y == [call[c] EXCEPT !.pc = "wait", !.entry = NoEntry, !.token = token, !.job = job]
<1>1. /\ Began(call[c]) /\ Asked(c) /\ call[c] \in CallRecord
      /\ call \in [Caller -> CallRecord] /\ read \in [Caller -> ReadRecord]
  BY DEF ContentInv, CallsInv
<1>2. read[c].pc = "none" /\ call[c].key \in Key /\ call[c].since <= disk[call[c].key]
  BY <1>1 DEF Asked, Began, Running
<1>3. token \in Int /\ token <= disk[call[c].key]
  BY <1>2 DEF Tokens, NoToken, ContentInv, DiskInv
<1>4. job \in Caller /\ (job # c => job \in Joinable(c))
  BY DEF Joinable
<1>5. call' = [call EXCEPT ![c] = y]
      /\ read' = IF job = c THEN [read EXCEPT ![c].pc = "asked"] ELSE read
  BY DEF Ask
<1> HIDE DEF job
<1>6. /\ y \in CallRecord /\ y.pc = "wait" /\ y.token = token /\ y.job = job
      /\ y.key = call[c].key /\ y.since = call[c].since /\ y.current = call[c].current
  <2>1. y = Waiting(call[c], token, job)
    BY DEF Waiting
  <2> HIDE DEF y
  <2> QED
    BY <1>1, <1>3, <1>4, <2>1, WaitingCall
<1> HIDE DEF y
<1>7. call'[c] = y /\ \A d \in Caller \ {c} : call'[d] = call[d]
  BY <1>1, <1>5
<1>8. read' \in [Caller -> ReadRecord] /\ \A d \in Caller \ {c} : read'[d] = read[d]
  BY <1>1, <1>5 DEF ReadRecord
<1>9. IF job = c THEN read'[c].pc = "asked" ELSE read'[c] = read[c]
  BY <1>1, <1>5
<1>10. ASSUME NEW e \in Caller PROVE Began(call[e])' /\ Vouched(e)' /\ Waits(e)' /\ Asked(e)'
  <2>1. Began(call[e]) /\ Vouched(e) /\ Waits(e) /\ Asked(e)
    BY DEF ContentInv, CallsInv
  <2>2. CASE e = c
    <3>1. Began(call[e])'
      BY <1>1, <1>6, <1>7, <2>2 DEF Began, Running
    <3>2. Asked(e)'
      BY <1>2, <1>6, <1>7, <1>9, <2>2 DEF Asked
    <3>4. Vouched(e)'
      BY <1>6, <1>7, <2>2 DEF Vouched
    <3>3. WaitsFor(c, call[c], call[c].job)'
      <4>1. CASE job = c
        BY <1>3, <1>4, <1>6, <1>7, <1>9, <4>1 DEF WaitsFor
      <4>2. CASE job # c
        <5>1. call[job].pc = "wait" /\ call[job].job = job /\ call[job].key = call[c].key
          BY <1>4, <4>2 DEF Joinable
        <5>2. read[job].pc # "asked" => c \in late'
          BY <1>6, <1>7, <4>2 DEF Marked, JoinsLate
        <5>3. read[job].pc \in {"asked", "read"}
          BY <1>4, <5>1 DEF ContentInv, CallsInv, Waits, WaitsFor
        <5> QED
          BY <1>3, <1>4, <1>6, <1>7, <1>8, <4>2, <5>1, <5>2, <5>3 DEF WaitsFor
      <4> QED
        BY <4>1, <4>2
    <3> QED
      BY <2>2, <3>1, <3>2, <3>3, <3>4 DEF Waits
  <2>3. CASE e # c
    <3>1. Began(call[e])' /\ Asked(e)'
      BY <1>7, <1>8, <2>1, <2>3 DEF Began, Running, Asked
    <3>3. Vouched(e)'
      BY <1>7, <2>1, <2>3, StaysVouched
    <3>2. Waits(e)'
      <4> SUFFICES ASSUME call[e].pc = "wait" PROVE WaitsFor(e, call[e], call[e].job)'
        BY <1>7, <2>3 DEF Waits
      <4>1. WaitsFor(e, call[e], call[e].job) /\ call[e].job # c
        BY <1>2, <2>1 DEF Waits, WaitsFor
      <4> QED
        BY <1>7, <1>8, <2>3, <4>1 DEF WaitsFor, Marked
    <3> QED
      BY <3>1, <3>2, <3>3
  <2> QED
    BY <2>2, <2>3
<1>11. call' \in [Caller -> CallRecord]
  BY <1>1, <1>5, <1>6
<1>12. CallsInv'
  BY <1>8, <1>10, <1>11 DEF CallsInv
<1> QED
  BY <1>12, CallsAlone DEF ContentInv

LEMMA ValidateStep ==
  ASSUME ContentInv, Marked, NEW c \in Caller, NEW token \in Token,
         Validate(c, token) \/ StatMiss(c, token)
  PROVE  ContentInv'
<1>1. token \in Tokens(call[c].key) /\ UNCHANGED <<disk, bodies, floor>>
      /\ call[c].pc \in {"validate", "stat"}
  BY DEF Validate, StatMiss
<1>2. CASE Ask(c, token)
  BY <1>1, <1>2, AskStep
<1>3. CASE ~Ask(c, token)
  <2>1. PICK x \in {NoCall, Served} : call' = [call EXCEPT ![c] = x]
    BY <1>3 DEF Validate, StatMiss
  <2>2. UNCHANGED read
    BY <1>3 DEF Validate, StatMiss
  <2>3. read[c].pc = "none"
    BY <1>1 DEF ContentInv, CallsInv, Asked
  <2>4. x \in CallRecord /\ x.pc \notin {"wait", "validate"} /\ Began(x)
    BY <2>1, OverCall DEF Began, Running
  <2>5. CallsInv'
    BY <1>1, <2>1, <2>2, <2>3, <2>4, OneCall DEF ContentInv
  <2> QED
    BY <1>1, <2>5, CallsAlone DEF ContentInv
<1> QED
  BY <1>2, <1>3

LEMMA ReadStep ==
  ASSUME ContentInv, Marked, NEW c \in Caller, Read(c)
  PROVE  ContentInv'
<1>1. /\ call \in [Caller -> CallRecord] /\ read \in [Caller -> ReadRecord]
      /\ Began(call[c]) /\ Asked(c)
  BY DEF ContentInv, CallsInv
<1>2. call[c].pc = "wait" /\ call[c].job = c /\ call[c].key \in Key /\ disk[call[c].key] \in Nat
  BY <1>1 DEF Read, Asked, Began, Running, ContentInv, DiskInv
<1>3. read' \in [Caller -> ReadRecord] /\ UNCHANGED <<call, disk, floor, bodies>>
  BY <1>1, <1>2 DEF Read, ReadRecord
<1>4. /\ read[c].pc = "asked" /\ read'[c].pc = "read" /\ read'[c].body = disk[call[c].key]
      /\ \A d \in Caller \ {c} : read'[d] = read[d]
  BY <1>1 DEF Read, ReadRecord
<1>5. ASSUME NEW e \in Caller PROVE Began(call[e])' /\ Vouched(e)' /\ Waits(e)' /\ Asked(e)'
  <2>1. Began(call[e]) /\ Vouched(e) /\ Waits(e) /\ Asked(e)
    BY DEF ContentInv, CallsInv
  <2>2. Began(call[e])' /\ Asked(e)'
    BY <1>2, <1>3, <1>4, <2>1 DEF Began, Running, Asked
  <2>4. Vouched(e)'
    BY <1>3, <2>1, StaysVouched
  <2>3. Waits(e)'
    <3> SUFFICES ASSUME call[e].pc = "wait" PROVE WaitsFor(e, call[e], call[e].job)'
      BY <1>3 DEF Waits
    <3>1. WaitsFor(e, call[e], call[e].job) /\ call[e].key \in Key /\ call[e].since <= disk[call[e].key]
      BY <2>1 DEF Waits, Began, Running
    <3>2. CASE call[e].job # c
      BY <1>3, <1>4, <3>1, <3>2 DEF WaitsFor, Marked
    <3>3. CASE call[e].job = c
      BY <1>2, <1>3, <1>4, <3>1, <3>3 DEF WaitsFor
    <3> QED
      BY <3>2, <3>3
  <2> QED
    BY <2>2, <2>3, <2>4
<1>6. CallsInv'
  BY <1>1, <1>3, <1>5 DEF CallsInv
<1> QED
  BY <1>3, <1>6, CallsAlone DEF ContentInv

\* What a reply does to the calls and the requests.
LEMMA ReplyCalls ==
  ASSUME CallsInv, Marked, NEW c \in Caller, call[c].pc = "wait", NEW job, job = call[c].job,
         NEW ok \in BOOLEAN, NEW x \in {NoCall, Served}, UNCHANGED <<disk, floor>>,
         IF job = c THEN read[c].pc = "read" ELSE read[job].pc = "replied",
         NEW others, others = {d \in Caller \ {c} : call[d].pc = "wait" /\ call[d].job = job},
         read' = [read EXCEPT ![job] = IF others = {} THEN NoRead
                                       ELSE [@ EXCEPT !.pc = "replied", !.ok = ok]],
         Less(call', [call EXCEPT ![c] = x])
  PROVE  CallsInv'
<1>1. /\ call \in [Caller -> CallRecord] /\ read \in [Caller -> ReadRecord]
      /\ Began(call[c]) /\ Waits(c) /\ Asked(c) /\ job \in Caller
  BY DEF CallsInv, Waits, WaitsFor
<1>2. call' \in [Caller -> CallRecord] /\ call'[c].pc \in {"idle", "served"}
  BY <1>1, OverCall DEF Less
<1>3. \A d \in Caller \ {c} :
        /\ call'[d].pc = call[d].pc /\ call'[d].key = call[d].key /\ call'[d].since = call[d].since
        /\ call'[d].entry = call[d].entry /\ call'[d].token = call[d].token
        /\ call'[d].job = call[d].job /\ (call'[d].current => call[d].current)
  BY <1>1 DEF Less
<1> DEFINE r == [read[job] EXCEPT !.pc = "replied", !.ok = ok]
<1>4. r \in ReadRecord /\ r.pc = "replied" /\ r.body = read[job].body
  BY <1>1 DEF ReadRecord
<1>5. NoRead \in ReadRecord /\ NoRead.pc = "none"
  BY DEF NoRead, ReadRecord
<1>6. /\ read'[job] = (IF others = {} THEN NoRead ELSE r)
      /\ \A d \in Caller \ {job} : read'[d] = read[d]
  BY <1>1
<1>7. read' \in [Caller -> ReadRecord]
  <2> HIDE DEF r
  <2>1. read' = [read EXCEPT ![job] = IF others = {} THEN NoRead ELSE r]
    BY DEF r
  <2> QED
    BY <1>1, <1>4, <1>5, <2>1
<1> HIDE DEF r
<1>8. ASSUME NEW e \in Caller PROVE Began(call[e])' /\ Vouched(e)' /\ Waits(e)' /\ Asked(e)'
  <2>1. Began(call[e]) /\ Vouched(e) /\ Waits(e) /\ Asked(e)
    BY DEF CallsInv
  <2>2. Began(call[e])'
    <3>1. CASE e = c
      BY <1>2, <3>1 DEF Began, Running
    <3>2. CASE e # c
      BY <1>3, <2>1, <3>2 DEF Began, Running
    <3> QED
      BY <3>1, <3>2
  <2>5. Vouched(e)'
    BY <1>2, <1>3, <2>1, StaysVouched
  <2>3. Asked(e)'
    <3>1. CASE e = job
      <4>1. read'[e].pc \in {"none", "replied"}
        BY <1>4, <1>5, <1>6, <3>1
      <4>2. call'[e].pc \notin {"validate", "stat"}
        BY <1>2, <1>3, <2>1, <3>1 DEF Asked
      <4> QED
        BY <4>1, <4>2 DEF Asked
    <3>2. CASE e # job /\ e = c
      BY <1>2, <1>6, <2>1, <3>2 DEF Asked
    <3>3. CASE e # job /\ e # c
      BY <1>3, <1>6, <2>1, <3>3 DEF Asked
    <3> QED
      BY <3>1, <3>2, <3>3
  <2>4. Waits(e)'
    <3> SUFFICES ASSUME call[e].pc = "wait", e # c PROVE WaitsFor(e, call[e], call[e].job)'
      BY <1>2, <1>3 DEF Waits
    <3>1. WaitsFor(e, call[e], call[e].job)
      BY <2>1 DEF Waits
    <3>2. CASE call[e].job = job
      <4>1. read'[job].pc = "replied" /\ read'[job].body = read[job].body
        BY <1>4, <1>6, <3>2
      <4>2. job # e
        BY <3>1, <3>2, <1>1 DEF WaitsFor
      <4>3. read[job].pc \in {"read", "replied"}
        OBVIOUS
      <4> QED
        BY <1>3, <3>1, <3>2, <4>1, <4>2, <4>3 DEF WaitsFor, Marked
    <3>3. CASE call[e].job # job
      <4> DEFINE d == call[e].job
      <4>1. d \in Caller /\ read'[d] = read[d]
        BY <1>6, <3>1, <3>3 DEF WaitsFor
      <4>2. d = c => read[d].pc = "replied"
        BY <3>1, <3>3 DEF WaitsFor
      <4> QED
        BY <1>3, <3>1, <4>1, <4>2 DEF WaitsFor, Marked
    <3> QED
      BY <3>2, <3>3
  <2> QED
    BY <2>2, <2>3, <2>4, <2>5
<1> QED
  BY <1>2, <1>7, <1>8 DEF CallsInv

\* What it stores is from after the last wipe, under a token that is no newer, unless
\* it joined late.
LEMMA ItemKept ==
  ASSUME ContentInv, NEW c \in Caller, call[c].pc = "wait", call[c].current,
         read[call[c].job].pc # "asked"
  PROVE  Kept(IF c \in late THEN {call[c].key} ELSE {}, call[c].key, Item(c))
<1>1. /\ Began(call[c]) /\ WaitsFor(c, call[c], call[c].job)
      /\ call[c] \in CallRecord /\ read \in [Caller -> ReadRecord]
  BY DEF ContentInv, CallsInv, Waits
<1> DEFINE k == call[c].key
           body == read[call[c].job].body
<1>2. /\ k \in Key /\ floor[k] <= call[c].since
      /\ c \notin late => call[c].since <= body /\ call[c].token <= body
      /\ body \in Nat /\ call[c].token \in Int /\ call[c].since \in Nat
  BY <1>1 DEF Began, Running, WaitsFor, CallRecord, ReadRecord
<1>3. floor[k] \in Nat
  BY <1>2 DEF ContentInv, DiskInv
<1>4. Size[k][body] \in Weight
  BY <1>2 DEF Weight
<1> QED
  BY <1>2, <1>3, <1>4 DEF Kept, Honest, Item

LEMMA ReplyStep ==
  ASSUME ContentInv, Marked, NEW c \in Caller, NEW ok \in BOOLEAN, Reply(c, ok)
  PROVE  ContentInv'
<1> DEFINE job == call[c].job
           k == call[c].key
           put == Touched(Added(bodies, k, Item(c)), k)
           over == Overflow(put, ProjectOf[k])
           kept == Dropped(put, over)
           tail == Surplus(kept)
           others == {d \in Caller \ {c} : call[d].pc = "wait" /\ call[d].job = job}
           x == IF ok THEN Served ELSE NoCall
           done == [call EXCEPT ![c] = x]
           ps == {ProjectOf[j] : j \in over \cup tail}
           stored == ok /\ call[c].current /\ Item(c).size <= FileLimit /\ Item(c).size <= ByteLimit
           D == doubtful \cup (IF c \in late THEN {k} ELSE {})
<1>1. /\ call[c].pc = "wait" /\ UNCHANGED <<disk, floor>>
      /\ IF job = c THEN read[c].pc = "read" ELSE read[job].pc = "replied"
      /\ read' = [read EXCEPT ![job] = IF others = {} THEN NoRead
                                       ELSE [@ EXCEPT !.pc = "replied", !.ok = ok]]
  BY DEF Reply
<1>2. IF stored THEN bodies' = Dropped(kept, tail) /\ call' = Bumped(done, ps)
      ELSE call' = done /\ bodies' = bodies
  BY DEF Reply
<1>3. CallsInv /\ Holds(doubtful, bodies) /\ Holds(D, bodies)
  BY DEF ContentInv, Holds, Kept
<1>4. stored => Holds(D, bodies')
  <2> SUFFICES ASSUME stored PROVE Holds(D, bodies')
    OBVIOUS
  <2>1. Kept(D, k, Item(c))
    BY <1>1, ItemKept DEF Kept
  <2> HIDE DEF D
  <2>2. Holds(D, Added(bodies, k, Item(c)))
    BY <1>3, <2>1, EntriesOf
  <2>3. Holds(D, put)
    BY <2>2, EntriesOf
  <2> HIDE DEF put, over, tail
  <2>4. Holds(D, kept)
    BY <2>3, EntriesOf
  <2> HIDE DEF kept
  <2>5. Holds(D, Dropped(kept, tail))
    BY <2>4, EntriesOf
  <2> QED
    BY <1>2, <2>5
<1>5. done \in [Caller -> CallRecord] /\ x \in {NoCall, Served}
  BY <1>3, OverCall DEF CallsInv
<1>6. Less(done, done)
  BY <1>5 DEF Less
<1> HIDE DEF put, over, kept, tail, stored
<1>7. Less(call', done)
  <2>1. Less(Bumped(done, ps), done)
    <3> HIDE DEF done, ps
    <3> QED
      BY <1>5, BumpedLess
  <2> QED
    BY <1>2, <1>6, <2>1
<1>8. CallsInv'
  <2> HIDE DEF job, others, x
  <2>1. others = {d \in Caller \ {c} : call[d].pc = "wait" /\ call[d].job = job} /\ job = call[c].job
    BY DEF others, job
  <2> QED
    BY <1>1, <1>3, <1>5, <1>7, <2>1, ReplyCalls
<1>9. \/ Holds(doubtful, bodies')
      \/ \E d \in late : Stores(d) /\ Holds(doubtful \cup {call[d].key}, bodies')
  <2>1. CASE bodies' = bodies
    BY <1>3, <2>1
  <2>2. CASE bodies' # bodies
    <3>1. stored
      BY <1>2, <2>2
    <3>2. CASE c \notin late
      <4>1. D = doubtful
        BY <3>2
      <4> HIDE DEF D
      <4> QED
        BY <1>4, <3>1, <4>1
    <3>3. CASE c \in late
      <4>1. done[c].pc = "served"
        BY <1>3, <3>1, OverCall DEF CallsInv, stored
      <4>2. call'[c].pc = "served"
        BY <1>7, <4>1 DEF Less
      <4>3. Stores(c)
        BY <1>1, <2>2, <4>2 DEF Stores
      <4>4. D = doubtful \cup {call[c].key}
        BY <3>3
      <4> HIDE DEF D
      <4> QED
        BY <1>4, <3>1, <3>3, <4>3, <4>4
    <3> QED
      BY <3>2, <3>3
  <2> QED
    BY <2>1, <2>2
<1> QED
  BY <1>1, <1>8, <1>9, CallsAlone

-----------------------------------------------------------------------------
(* The invalidations *)

LEMMA EditStep ==
  ASSUME ContentInv, Marked, NEW k \in Key, Edit(k)
  PROVE  ContentInv'
<1>1. /\ UNCHANGED <<bodies, call, read, floor>>
      /\ disk' = [disk EXCEPT ![k] = @ + 1]
  BY DEF Edit
<1>2. DiskInv'
  BY <1>1 DEF DiskInv, ContentInv
<1>3. \A j \in Key : disk[j] <= disk'[j]
  BY <1>1 DEF DiskInv, ContentInv
<1>4. Less(call', call)
  BY <1>1 DEF ContentInv, CallsInv, Less
<1>5. CallsInv'
  BY <1>1, <1>2, <1>3, <1>4, CallsLater DEF ContentInv, Began, CallsInv
<1>6. Holds(doubtful, bodies)'
  BY <1>1 DEF ContentInv, Holds, Kept, Marked
<1> QED
  BY <1>2, <1>5, <1>6 DEF ContentInv

LEMMA RevalidatedStep ==
  ASSUME ContentInv, Marked, NEW p, NEW stale, Revalidated(p, stale), UNCHANGED <<disk, read, floor>>
  PROVE  ContentInv'
<1>1. call \in [Caller -> CallRecord] /\ Less(call, call)
  BY DEF ContentInv, CallsInv, Less
<1>2. Less(call', call)
  BY <1>1, BumpedLess DEF Revalidated
<1>3. Holds(doubtful, bodies')
  BY EntriesOf DEF Revalidated, ContentInv
<1>4. DiskInv' /\ \A j \in Key : disk[j] <= disk'[j]
  BY DEF ContentInv, DiskInv
<1>5. CallsInv'
  BY <1>2, <1>4, CallsLater DEF ContentInv
<1> QED
  BY <1>3, <1>5, CallsAlone

LEMMA WipeStep ==
  ASSUME ContentInv, Marked, NEW p \in Project, Wipe(p)
  PROVE  ContentInv'
<1>1. /\ UNCHANGED <<disk, read>> /\ call' = Bumped(call, {p})
      /\ floor' = [k \in Key |-> IF ProjectOf[k] = p THEN disk[k] ELSE floor[k]]
      /\ bodies' = Dropped(bodies, KeysOf(bodies, p))
  BY DEF Wipe
<1>2. DiskInv' /\ \A j \in Key : disk[j] <= disk'[j]
  BY <1>1 DEF ContentInv, DiskInv
<1>3. call \in [Caller -> CallRecord] /\ Less(call', call)
      /\ \A c \in Caller : ProjectOf[call[c].key] \in {p} => ~call'[c].current
  BY <1>1, BumpedLess DEF ContentInv, CallsInv
<1>4. \A c \in Caller : Running(call[c]) /\ call'[c].current =>
        floor'[call[c].key] = floor[call[c].key]
  <2> SUFFICES ASSUME NEW c \in Caller, Running(call[c]), call'[c].current
               PROVE  floor'[call[c].key] = floor[call[c].key]
    OBVIOUS
  <2>1. call[c].key \in Key
    BY DEF ContentInv, CallsInv, Began
  <2> QED
    BY <1>1, <1>3, <2>1
<1>5. CallsInv'
  BY <1>1, <1>2, <1>3, <1>4, CallsLater DEF ContentInv
<1>6. Holds(doubtful, bodies)'
  <2>1. Holds(doubtful, bodies')
        /\ bodies'.entries = [k \in DOMAIN bodies.entries \ KeysOf(bodies, p) |-> bodies.entries[k]]
    <3> DEFINE S == KeysOf(bodies, p)
    <3>1. bodies' = Dropped(bodies, S) /\ Holds(doubtful, bodies)
      BY <1>1 DEF ContentInv
    <3> HIDE DEF S
    <3>2. Holds(doubtful, Dropped(bodies, S))
      BY <3>1, EntriesOf
    <3>3. Dropped(bodies, S).entries = [k \in DOMAIN bodies.entries \ S |-> bodies.entries[k]]
      BY <3>1, EntriesOf
    <3> QED
      BY <3>1, <3>2, <3>3 DEF S
  <2>2. \A k \in DOMAIN bodies'.entries : ProjectOf[k] # p /\ Kept(doubtful, k, bodies'.entries[k])
    BY <2>1 DEF KeysOf, Holds
  <2>3. \A k \in DOMAIN bodies'.entries : floor'[k] = floor[k]
    BY <1>1, <2>2 DEF Kept
  <2> QED
    BY <2>1, <2>2, <2>3 DEF Holds, Kept, Marked
<1> QED
  BY <1>2, <1>5, <1>6 DEF ContentInv

-----------------------------------------------------------------------------
(* The theorems *)

LEMMA InitContentInv == ContentInit => ContentInv
<1> SUFFICES ASSUME ContentInit PROVE ContentInv
  OBVIOUS
<1>1. DiskInv
  BY DEF ContentInit, DiskInv
<1>2. Holds(doubtful, bodies)
  <2>1. bodies = [entries |-> <<>>, bytes |-> [p \in Project |-> 0], touched |-> <<>>, queue |-> <<>>]
    BY DEF ContentInit
  <2>2. DOMAIN bodies.entries = {}
    BY <2>1
  <2> QED
    BY <2>1, <2>2 DEF Holds
<1>3. /\ call = [c \in Caller |-> NoCall] /\ read = [c \in Caller |-> NoRead]
      /\ NoCall \in CallRecord /\ NoCall.pc = "idle"
  BY OverCall DEF ContentInit
<1>4. NoRead \in ReadRecord /\ NoRead.pc = "none"
  BY DEF NoRead, ReadRecord
<1>5. CallsInv
  BY <1>3, <1>4 DEF CallsInv, Began, Running, Vouched, Waits, Asked
<1> QED
  BY <1>1, <1>2, <1>5 DEF ContentInv

LEMMA NextContentInv == ContentInv /\ [ContentNext /\ Doubt]_cacheVars => ContentInv'
<1> SUFFICES ASSUME ContentInv, [ContentNext /\ Doubt]_cacheVars PROVE ContentInv'
  OBVIOUS
<1>1. CASE UNCHANGED cacheVars
  <2>1. UNCHANGED <<disk, bodies, call, read, floor, late, doubtful>>
    BY <1>1 DEF cacheVars, contentVars
  <2>2. DiskInv' /\ Holds(doubtful, bodies)'
    BY <2>1 DEF ContentInv, DiskInv, Holds, Kept
  <2>3. CallsInv'
    BY <2>1 DEF ContentInv, CallsInv, Began, Running, Vouched, Waits, WaitsFor, Asked
  <2> QED
    BY <2>2, <2>3 DEF ContentInv
<1>2. CASE ContentNext /\ Doubt
  <2>0. Marked
    BY <1>2, DoubtMarks
  <2>1. ASSUME NEW c \in Caller, NEW k \in Key, NEW force \in BOOLEAN, Call(c, k, force)
        PROVE  ContentInv'
    BY <2>0, <2>1, CallStep
  <2>2. ASSUME NEW c \in Caller, NEW token \in Token, Validate(c, token) \/ StatMiss(c, token)
        PROVE  ContentInv'
    BY <2>0, <2>2, ValidateStep
  <2>3. ASSUME NEW c \in Caller, Read(c) PROVE ContentInv'
    BY <2>0, <2>3, ReadStep
  <2>4. ASSUME NEW c \in Caller, NEW ok \in BOOLEAN, Reply(c, ok) PROVE ContentInv'
    BY <2>0, <2>4, ReplyStep
  <2>5. ASSUME NEW k \in Key, Edit(k) PROVE ContentInv'
    BY <2>0, <2>5, EditStep
  <2>6. ASSUME NEW p \in Project, NEW files, Evict(p, files) PROVE ContentInv'
    BY <2>0, <2>6, RevalidatedStep DEF Evict
  <2>7. ASSUME NEW p \in Project, Wipe(p) PROVE ContentInv'
    BY <2>0, <2>7, WipeStep
  <2>8. ASSUME NEW s \in Sweeper, SweepEnd(s) PROVE ContentInv'
    BY <2>0, <2>8, RevalidatedStep DEF SweepEnd
  <2>9. ASSUME NEW s \in Sweeper,
               (\E p \in Project : SweepStart(s, p))
                 \/ (\E k \in Key, token \in Token : SweepStat(s, k, token))
        PROVE  ContentInv'
    <3>1. UNCHANGED <<disk, bodies, call, read, floor>>
      BY <2>9 DEF SweepStart, SweepStat
    <3>2. DiskInv' /\ Holds(doubtful, bodies)'
      BY <2>0, <3>1 DEF ContentInv, DiskInv, Holds, Kept, Marked
    <3>3. CallsInv'
      BY <2>0, <3>1 DEF ContentInv, CallsInv, Began, Running, Vouched, Waits, WaitsFor, Asked, Marked
    <3> QED
      BY <3>2, <3>3 DEF ContentInv
  <2> QED
    BY <1>2, <2>1, <2>2, <2>3, <2>4, <2>5, <2>6, <2>7, <2>8, <2>9 DEF ContentNext
<1> QED
  BY <1>1, <1>2

LEMMA ContentInvariant == ContentSpec => []ContentInv
BY InitContentInv, NextContentInv, PTL DEF ContentSpec

\* A stored token is never newer than the body it vouches for, but of a key that a
\* call stored after it joined a request already read.
THEOREM TokenTheorem == ContentSpec => []TokenHonest
<1>1. ContentInv => TokenHonest
  BY DEF ContentInv, Holds, Kept, Honest, TokenHonest
<1> QED
  BY <1>1, ContentInvariant, PTL

\* Nothing from before a wipe is in the cache after it, but by a call that joined
\* late: every call under way learns of the wipe, and what another stores is from
\* after it.
THEOREM WipeTheorem == ContentSpec => []WipeHolds
<1>1. ContentInv => WipeHolds
  <2> SUFFICES ASSUME ContentInv, NEW k \in DOMAIN bodies.entries \ doubtful
               PROVE  bodies.entries[k].body >= floor[k]
    BY DEF WipeHolds
  <2>1. Kept(doubtful, k, bodies.entries[k])
    BY DEF ContentInv, Holds
  <2>2. floor[k] \in Nat /\ bodies.entries[k].body \in Nat
    BY <2>1 DEF Kept, Honest, ContentInv, DiskInv
  <2> QED
    BY <2>1, <2>2 DEF Kept
<1> QED
  BY <1>1, ContentInvariant, PTL

\* Which step makes a call a served one.
LEMMA ServedBy ==
  ASSUME ContentInv, ContentNext, NEW c \in Caller, call[c].pc # "served", call'[c].pc = "served"
  PROVE  \/ \E token \in Token : /\ call[c].pc = "validate" /\ token \in Tokens(call[c].key)
                                 /\ Fresh(call[c].entry.token, token)
                                 /\ NoToken \notin {token, call[c].entry.token}
         \/ \E ok \in BOOLEAN : Reply(c, ok)
<1>0. /\ call \in [Caller -> CallRecord] /\ DOMAIN call = Caller
      /\ NoCall.pc # "served"
  BY OverCall DEF ContentInv, CallsInv
<1> DEFINE Goal == \/ \E token \in Token : /\ call[c].pc = "validate" /\ token \in Tokens(call[c].key)
                                         /\ Fresh(call[c].entry.token, token)
                                         /\ NoToken \notin {token, call[c].entry.token}
                   \/ \E ok \in BOOLEAN : Reply(c, ok)
<1>1. ASSUME NEW d \in Caller, NEW k \in Key, NEW force \in BOOLEAN, Call(d, k, force) PROVE Goal
  <2>1. d = c \/ call'[c] = call[c]
    BY <1>0, <1>1 DEF Call
  <2>2. d = c => call'[c].pc \in {"validate", "stat"}
    BY <1>0, <1>1 DEF Call
  <2> QED
    BY <2>1, <2>2
<1>2. ASSUME NEW d \in Caller, NEW token \in Token, Validate(d, token) \/ StatMiss(d, token) PROVE Goal
  <2>1. d = c \/ call'[c] = call[c]
    BY <1>0, <1>2 DEF Validate, StatMiss, Ask
  <2>2. CASE d = c /\ Ask(c, token)
    <3>1. call'[c].pc = "wait"
      BY <1>0, <2>2 DEF Ask, CallRecord
    <3> QED
      BY <3>1
  <2>3. CASE d = c /\ ~Ask(c, token)
    <3>1. /\ call[c].pc = "validate" /\ token \in Tokens(call[c].key)
          /\ Fresh(call[c].entry.token, token)
          /\ call' = [call EXCEPT ![c] = IF NoToken \in {token, call[c].entry.token}
                                         THEN NoCall ELSE Served]
      BY <1>2, <2>3 DEF Validate, StatMiss
    <3>2. NoToken \notin {token, call[c].entry.token}
      BY <1>0, <3>1
    <3> QED
      BY <3>1, <3>2
  <2> QED
    BY <2>1, <2>2, <2>3
<1>3. ASSUME NEW d \in Caller, NEW ok \in BOOLEAN, Reply(d, ok) PROVE Goal
  <2> DEFINE done == [call EXCEPT ![d] = IF ok THEN Served ELSE NoCall]
  <2>1. done \in [Caller -> CallRecord]
    BY <1>0, OverCall
  <2>2. call' = done \/ \E ps : call' = Bumped(done, ps)
    BY <1>3 DEF Reply
  <2>3. d = c \/ done[c] = call[c]
    BY <1>0
  <2> HIDE DEF done
  <2>4. call'[c].pc = done[c].pc
    BY <2>1, <2>2, BumpedLess DEF Less
  <2> QED
    BY <1>3, <2>3, <2>4
<1>4. ASSUME UNCHANGED call \/ \E ps : call' = Bumped(call, ps) PROVE Goal
  <2>1. call'[c].pc = call[c].pc
    BY <1>0, <1>4, BumpedLess DEF Less
  <2> QED
    BY <2>1
<1>5. ASSUME NEW d \in Caller, Read(d) PROVE Goal
  BY <1>4, <1>5 DEF Read
<1>6. ASSUME (\E k \in Key : Edit(k)) \/ (\E p \in Project, files \in SUBSET Range(FileOf) : Evict(p, files))
      PROVE  Goal
  BY <1>4, <1>6 DEF Edit, Evict, Revalidated
<1>7. ASSUME NEW p \in Project, Wipe(p) \/ \E s \in Sweeper : SweepStart(s, p) PROVE Goal
  BY <1>4, <1>7 DEF Wipe, SweepStart
<1>8. ASSUME NEW s \in Sweeper, SweepEnd(s) \/ \E k \in Key, token \in Token : SweepStat(s, k, token)
      PROVE  Goal
  BY <1>4, <1>8 DEF SweepEnd, SweepStat, Revalidated
<1> HIDE DEF Goal
<1>9. Goal
  BY <1>1, <1>2, <1>3, <1>5, <1>6, <1>7, <1>8 DEF ContentNext
<1> QED
  BY <1>9 DEF Goal

\* A call that vouches for a working-tree body returns one the file had during the
\* call: a hit by its token, which the body is no older than; a miss because the
\* worker read the file after the call began, which a late join alone can break.
THEOREM ServeTheorem == ContentSpec => NoStaleServe
<1> DEFINE Fine == \A c \in Caller \ late :
             call[c].pc \in {"validate", "wait"} /\ call'[c].pc = "served" /\ Backing[call[c].key] = "worktree"
             => Returned(c) >= call[c].since
<1>1. ASSUME ContentInv, [ContentNext /\ Doubt]_cacheVars PROVE [Fine]_cacheVars
  <2> SUFFICES ASSUME ContentNext, NEW c \in Caller \ late, call[c].pc \in {"validate", "wait"},
                      call'[c].pc = "served"
               PROVE  Returned(c) >= call[c].since
    BY <1>1
  <2>1. /\ Began(call[c]) /\ Vouched(c) /\ Waits(c)
        /\ call[c] \in CallRecord /\ read \in [Caller -> ReadRecord]
        /\ call[c].key \in Key /\ call[c].since <= disk[call[c].key] /\ disk[call[c].key] \in Nat
    BY <1>1 DEF ContentInv, CallsInv, DiskInv, Began, Running
  <2>2. CASE \E token \in Token : /\ call[c].pc = "validate" /\ token \in Tokens(call[c].key)
                                  /\ Fresh(call[c].entry.token, token)
                                  /\ NoToken \notin {token, call[c].entry.token}
    <3>1. call[c].pc = "validate" /\ call[c].entry.token = disk[call[c].key]
      BY <2>2 DEF Fresh, Tokens
    <3>2. Honest(call[c].entry)
      BY <2>1, <3>1 DEF Vouched
    <3> QED
      BY <2>1, <3>1, <3>2 DEF Honest, Returned, CallRecord
  <2>3. CASE \E ok \in BOOLEAN : Reply(c, ok)
    <3>1. call[c].pc = "wait" /\ read[call[c].job].pc # "asked"
      BY <2>3 DEF Reply
    <3>2. WaitsFor(c, call[c], call[c].job)
      BY <2>1, <3>1 DEF Waits
    <3>3. call[c].since <= read[call[c].job].body /\ read[call[c].job].body \in Nat
      BY <2>1, <3>1, <3>2 DEF WaitsFor, ReadRecord
    <3> QED
      BY <2>1, <3>1, <3>3 DEF Returned, CallRecord
  <2> QED
    BY <1>1, <2>2, <2>3, ServedBy
<1>2. NoStaleServe <=> [][Fine]_cacheVars
  BY PTL DEF NoStaleServe
<1> QED
  BY <1>1, <1>2, ContentInvariant, PTL DEF ContentSpec

-----------------------------------------------------------------------------
(* Least elements                                                             *)

\* A set of numbers has a least one, and a set of finite sets a smallest one: a
\* claim about all of them is proved by the least that would refute it.
LEMMA LeastNumber ==
  ASSUME NEW T, T \subseteq Nat, T # {}
  PROVE  \E x \in T : \A y \in T : x <= y
<1> DEFINE R == OpToRel(<, Nat)
<1>1. IsWellFoundedOn(R, Nat)
  BY NatLessThanWellFounded
<1>2. \A x, y \in Nat : <<x, y>> \in R <=> x < y
  BY DEF OpToRel
<1> HIDE DEF R
<1>3. \E x \in T : \A y \in T : ~(<<y, x>> \in R)
  BY <1>1, WFMin
<1>4. \A x, y \in Nat : ~(y < x) => x <= y
  OBVIOUS
<1> QED
  BY <1>2, <1>3, <1>4

LEMMA SmallestSet ==
  ASSUME NEW S, IsFiniteSet(S), NEW C, C \subseteq SUBSET S, C # {}
  PROVE  \E T \in C : \A U \in C : U \subseteq T => U = T
<1> DEFINE N == {Cardinality(T) : T \in C}
<1>1. \A T \in C : IsFiniteSet(T) /\ Cardinality(T) \in Nat
  BY FS_Subset, FS_CardinalityType
<1>2. N \subseteq Nat /\ N # {}
  BY <1>1
<1>3. PICK n \in N : \A y \in N : n <= y
  <2> HIDE DEF N
  <2> QED
    BY <1>2, LeastNumber
<1>4. PICK T \in C : Cardinality(T) = n
  OBVIOUS
<1>5. ASSUME NEW U \in C, U \subseteq T PROVE U = T
  <2>1. Cardinality(U) <= Cardinality(T) /\ (Cardinality(T) = Cardinality(U) => T = U)
    BY <1>1, <1>5, FS_Subset
  <2>2. Cardinality(T) <= Cardinality(U)
    BY <1>3, <1>4
  <2> QED
    BY <1>1, <2>1, <2>2
<1> QED
  BY <1>5

-----------------------------------------------------------------------------
(* Sums: MapThenSumSet picks an element, adds it and goes on with the rest; the *)
(* sum is that of any element and the rest, and of any two parts                 *)

\* What it picks, and the sums over the subsets of S.
Chosen(s) == CHOOSE x \in s : TRUE
Sums(ca, S, f) ==
  f = [s \in SUBSET S |-> IF s = {} THEN 0 ELSE ca.entries[Chosen(s)].size + f[s \ {Chosen(s)}]]

LEMMA SizesDef == ASSUME NEW ca, NEW S
  PROVE Sizes(ca, S) = (CHOOSE f : Sums(ca, S, f))[S]
BY DEF Sizes, MapThenSumSet, MapThenFoldSet, Sums, Chosen

LEMMA SumsUnique ==
  ASSUME NEW ca, NEW S, IsFiniteSet(S), NEW f, NEW g, Sums(ca, S, f), Sums(ca, S, g)
  PROVE  f = g
<1> DEFINE C == {s \in SUBSET S : f[s] # g[s]}
<1>1. SUFFICES C = {}
  BY DEF Sums
<1>2. SUFFICES ASSUME C # {} PROVE FALSE
  OBVIOUS
<1>3. PICK s \in C : \A u \in C : u \subseteq s => u = s
  <2>1. C \subseteq SUBSET S
    OBVIOUS
  <2> HIDE DEF C
  <2> QED
    BY <1>2, <2>1, SmallestSet
<1>4. s # {} => Chosen(s) \in s
  BY DEF Chosen
<1>5. s # {} => f[s \ {Chosen(s)}] = g[s \ {Chosen(s)}]
  <2> HAVE s # {}
  <2>1. s \ {Chosen(s)} \in SUBSET S /\ s \ {Chosen(s)} # s
    BY <1>4
  <2> QED
    BY <1>3, <2>1
<1>6. f[s] = IF s = {} THEN 0 ELSE ca.entries[Chosen(s)].size + f[s \ {Chosen(s)}]
  BY DEF Sums
<1>7. g[s] = IF s = {} THEN 0 ELSE ca.entries[Chosen(s)].size + g[s \ {Chosen(s)}]
  BY DEF Sums
<1> QED
  BY <1>5, <1>6, <1>7

LEMMA SumsWithin ==
  ASSUME NEW ca, NEW S, NEW f, Sums(ca, S, f), NEW T \in SUBSET S
  PROVE  Sums(ca, T, [s \in SUBSET T |-> f[s]])
<1> DEFINE g == [s \in SUBSET T |-> f[s]]
<1>1. ASSUME NEW s \in SUBSET T
      PROVE  g[s] = IF s = {} THEN 0 ELSE ca.entries[Chosen(s)].size + g[s \ {Chosen(s)}]
  <2>1. f[s] = IF s = {} THEN 0 ELSE ca.entries[Chosen(s)].size + f[s \ {Chosen(s)}]
    BY DEF Sums
  <2>2. s \ {Chosen(s)} \in SUBSET T
    OBVIOUS
  <2> QED
    BY <2>1, <2>2
<1> HIDE DEF g
<1>2. g = [s \in SUBSET T |-> g[s]]
  BY DEF g
<1> QED
  BY <1>1, <1>2 DEF Sums, g

LEMMA SumsExist ==
  ASSUME NEW ca, NEW S, IsFiniteSet(S)
  PROVE  \E f : Sums(ca, S, f)
<1> DEFINE C == {T \in SUBSET S : ~\E f : Sums(ca, T, f)}
           F(s) == CHOOSE f : Sums(ca, s, f)
<1>1. SUFFICES ASSUME C # {} PROVE FALSE
  OBVIOUS
<1>2. PICK T \in C : \A u \in C : u \subseteq T => u = T
  <2>1. C \subseteq SUBSET S
    OBVIOUS
  <2> HIDE DEF C
  <2> QED
    BY <1>1, <2>1, SmallestSet
<1>3. ASSUME NEW s \in SUBSET T, s # T PROVE Sums(ca, s, F(s)) /\ IsFiniteSet(s)
  <2>1. s \notin C /\ s \in SUBSET S
    BY <1>2, <1>3
  <2> QED
    BY <2>1, FS_Subset
<1> DEFINE h == [s \in SUBSET T |-> IF s # T THEN F(s)[s]
                  ELSE IF T = {} THEN 0
                  ELSE ca.entries[Chosen(T)].size + F(T \ {Chosen(T)})[T \ {Chosen(T)}]]
<1>4. ASSUME NEW s \in SUBSET T
      PROVE  h[s] = IF s = {} THEN 0 ELSE ca.entries[Chosen(s)].size + h[s \ {Chosen(s)}]
  <2> DEFINE r == s \ {Chosen(s)}
  <2>1. s # {} => Chosen(s) \in s
    BY DEF Chosen
  <2>2. r \in SUBSET T /\ r \in SUBSET s
    OBVIOUS
  <2>3. s # {} => r # T /\ h[r] = F(r)[r]
    <3> HAVE s # {}
    <3>1. r # T
      BY <2>1
    <3> HIDE DEF F, r
    <3> QED
      BY <2>2, <3>1
  <2>4. CASE s = T
    <3> HIDE DEF F
    <3> QED
      BY <2>3, <2>4
  <2>5. CASE s # T
    <3>1. Sums(ca, s, F(s)) /\ IsFiniteSet(s)
      BY <1>3, <2>5
    <3> HIDE DEF F
    <3>2. F(s)[s] = IF s = {} THEN 0 ELSE ca.entries[Chosen(s)].size + F(s)[r]
      BY <3>1 DEF Sums
    <3>3. h[s] = F(s)[s]
      BY <2>5
    <3>4. s # {} => F(s)[r] = F(r)[r]
      <4> HAVE s # {}
      <4>1. r # T /\ r \in SUBSET T
        BY <2>2, <2>3
      <4>2. Sums(ca, r, F(r)) /\ IsFiniteSet(r)
        BY <1>3, <4>1
      <4>3. Sums(ca, r, [u \in SUBSET r |-> F(s)[u]])
        BY <3>1, <2>2, SumsWithin
      <4>4. F(r) = [u \in SUBSET r |-> F(s)[u]]
        BY <4>2, <4>3, SumsUnique
      <4> HIDE DEF r
      <4> QED
        BY <4>4
    <3> HIDE DEF h, r
    <3> QED
      BY <2>3, <3>2, <3>3, <3>4 DEF r
  <2> QED
    BY <2>4, <2>5
<1>5. h = [s \in SUBSET T |-> h[s]]
  OBVIOUS
<1> HIDE DEF h
<1>6. Sums(ca, T, h)
  BY <1>4, <1>5 DEF Sums
<1> QED
  BY <1>6

\* What MapThenSumSet promises: the sum is the sum of one element and the rest.
LEMMA SizesChosen ==
  ASSUME NEW ca, NEW S, IsFiniteSet(S)
  PROVE  Sizes(ca, S) = IF S = {} THEN 0
                        ELSE ca.entries[Chosen(S)].size + Sizes(ca, S \ {Chosen(S)})
<1> DEFINE F(s) == CHOOSE f : Sums(ca, s, f)
           r == S \ {Chosen(S)}
<1>1. Sums(ca, S, F(S)) /\ IsFiniteSet(r) /\ Sums(ca, r, F(r))
  <2>1. IsFiniteSet(r)
    BY FS_Subset
  <2> HIDE DEF r
  <2> QED
    BY <2>1, SumsExist
<1>2. Sizes(ca, S) = F(S)[S] /\ Sizes(ca, r) = F(r)[r]
  BY SizesDef
<1> HIDE DEF F
<1>3. F(S)[S] = IF S = {} THEN 0 ELSE ca.entries[Chosen(S)].size + F(S)[r]
  BY <1>1 DEF Sums
<1>4. F(r) = [u \in SUBSET r |-> F(S)[u]]
  <2>1. Sums(ca, r, [u \in SUBSET r |-> F(S)[u]])
    BY <1>1, SumsWithin
  <2> QED
    BY <1>1, <2>1, SumsUnique
<1> QED
  <2>1. F(r)[r] = F(S)[r]
    <3> HIDE DEF r
    <3> QED
      BY <1>4
  <2> HIDE DEF r
  <2> QED
    BY <1>2, <1>3, <2>1 DEF r

\* The entries of S have sizes.
Sized(ca, S) == \A k \in S : ca.entries[k].size \in Nat

LEMMA SizesNat ==
  ASSUME NEW ca, NEW S, IsFiniteSet(S), Sized(ca, S)
  PROVE  Sizes(ca, S) \in Nat
<1> DEFINE C == {T \in SUBSET S : Sizes(ca, T) \notin Nat}
<1>1. SUFFICES ASSUME C # {} PROVE FALSE
  OBVIOUS
<1>2. PICK T \in C : \A u \in C : u \subseteq T => u = T
  <2>1. C \subseteq SUBSET S
    OBVIOUS
  <2> HIDE DEF C
  <2> QED
    BY <1>1, <2>1, SmallestSet
<1>3. IsFiniteSet(T) /\ Sizes(ca, T) = IF T = {} THEN 0
                        ELSE ca.entries[Chosen(T)].size + Sizes(ca, T \ {Chosen(T)})
  <2>1. IsFiniteSet(T)
    BY FS_Subset
  <2> QED
    BY <2>1, SizesChosen
<1>4. CASE T = {}
  BY <1>3, <1>4
<1>5. CASE T # {}
  <2>1. Chosen(T) \in T
    BY <1>5 DEF Chosen
  <2>2. Sizes(ca, T \ {Chosen(T)}) \in Nat /\ ca.entries[Chosen(T)].size \in Nat
    <3>1. T \ {Chosen(T)} # T /\ T \ {Chosen(T)} \in SUBSET S
      BY <2>1
    <3> QED
      BY <1>2, <2>1, <3>1 DEF Sized
  <2> QED
    BY <1>3, <1>5, <2>2
<1> QED
  BY <1>4, <1>5

LEMMA SizesRemove ==
  ASSUME NEW ca, NEW S, IsFiniteSet(S), Sized(ca, S), NEW x \in S
  PROVE  Sizes(ca, S) = ca.entries[x].size + Sizes(ca, S \ {x})
<1> DEFINE Bad(T) == \E z \in T : Sizes(ca, T) # ca.entries[z].size + Sizes(ca, T \ {z})
           C == {T \in SUBSET S : Bad(T)}
<1>1. SUFFICES ASSUME C # {} PROVE FALSE
  OBVIOUS
<1>2. PICK T \in C : \A u \in C : u \subseteq T => u = T
  <2>1. C \subseteq SUBSET S
    OBVIOUS
  <2> HIDE DEF C
  <2> QED
    BY <1>1, <2>1, SmallestSet
<1>3. PICK z \in T : Sizes(ca, T) # ca.entries[z].size + Sizes(ca, T \ {z})
  OBVIOUS
<1> DEFINE y == Chosen(T)
<1>4. IsFiniteSet(T) /\ y \in T /\ Sizes(ca, T) = ca.entries[y].size + Sizes(ca, T \ {y})
  <2>1. IsFiniteSet(T)
    BY FS_Subset
  <2> QED
    BY <1>3, <2>1, SizesChosen DEF Chosen
<1> HIDE DEF y
<1>5. y # z
  BY <1>3, <1>4
<1>6. ASSUME NEW u \in SUBSET T, u # T, NEW v \in u
      PROVE  Sizes(ca, u) = ca.entries[v].size + Sizes(ca, u \ {v})
  <2>1. u \notin C /\ u \in SUBSET S
    <3> HIDE DEF C
    <3> QED
      BY <1>2, <1>6 DEF C
  <2> QED
    BY <2>1, <1>6
<1> HIDE DEF C, Bad
<1>7. Sizes(ca, T \ {y}) = ca.entries[z].size + Sizes(ca, (T \ {y}) \ {z})
  BY <1>4, <1>5, <1>6
<1>8. Sizes(ca, T \ {z}) = ca.entries[y].size + Sizes(ca, (T \ {z}) \ {y})
  BY <1>4, <1>5, <1>6
<1>9. (T \ {y}) \ {z} = (T \ {z}) \ {y}
  OBVIOUS
<1>10. Sizes(ca, (T \ {z}) \ {y}) \in Nat /\ ca.entries[y].size \in Nat /\ ca.entries[z].size \in Nat
  <2>1. (T \ {z}) \ {y} \in SUBSET S /\ y \in S /\ z \in S
    BY <1>4 DEF C
  <2>2. IsFiniteSet((T \ {z}) \ {y}) /\ Sized(ca, (T \ {z}) \ {y})
    BY <2>1, FS_Subset DEF Sized
  <2> QED
    BY <2>1, <2>2, SizesNat DEF Sized
<1> DEFINE a == ca.entries[y].size
           b == ca.entries[z].size
           s == Sizes(ca, (T \ {z}) \ {y})
<1>11. Sizes(ca, T) = a + (b + s) /\ Sizes(ca, T \ {z}) = a + s /\ a \in Nat /\ b \in Nat /\ s \in Nat
  BY <1>4, <1>7, <1>8, <1>9, <1>10
<1> HIDE DEF a, b, s
<1>12. a + (b + s) = b + (a + s)
  BY <1>11
<1> QED
  BY <1>3, <1>11, <1>12 DEF b

\* Two disjoint parts.
LEMMA SizesSplit ==
  ASSUME NEW ca, NEW S, IsFiniteSet(S), Sized(ca, S), NEW T \in SUBSET S
  PROVE  /\ Sizes(ca, S) = Sizes(ca, T) + Sizes(ca, S \ T)
         /\ Sizes(ca, S) \in Nat /\ Sizes(ca, T) \in Nat /\ Sizes(ca, S \ T) \in Nat
<1>1. ASSUME NEW U \in SUBSET S PROVE IsFiniteSet(U) /\ Sized(ca, U) /\ Sizes(ca, U) \in Nat
  <2>1. IsFiniteSet(U) /\ Sized(ca, U)
    BY FS_Subset DEF Sized
  <2> QED
    BY <2>1, SizesNat
<1> DEFINE C == {U \in SUBSET T : Sizes(ca, S) # Sizes(ca, U) + Sizes(ca, S \ U)}
<1>2. SUFFICES ASSUME C # {} PROVE FALSE
  BY <1>1
<1>3. PICK U \in C : \A V \in C : V \subseteq U => V = U
  <2>1. C \subseteq SUBSET T
    OBVIOUS
  <2>2. IsFiniteSet(T)
    BY <1>1
  <2> HIDE DEF C
  <2> QED
    BY <1>2, <2>1, <2>2, SmallestSet
<1>4. CASE U = {}
  <2>1. Sizes(ca, U) = 0
    BY <1>1, <1>4, SizesChosen
  <2>2. S \ U = S
    BY <1>4
  <2>3. Sizes(ca, S) \in Nat
    BY <1>1
  <2> QED
    BY <2>1, <2>2, <2>3
<1>5. CASE U # {}
  <2>1. PICK x \in U : TRUE
    BY <1>5
  <2>2. Sizes(ca, U) = ca.entries[x].size + Sizes(ca, U \ {x})
    BY <1>1, SizesRemove
  <2>3. Sizes(ca, S \ (U \ {x})) = ca.entries[x].size + Sizes(ca, S \ U)
    <3>1. (S \ (U \ {x})) \ {x} = S \ U /\ x \in S \ (U \ {x})
      OBVIOUS
    <3>2. IsFiniteSet(S \ (U \ {x})) /\ Sized(ca, S \ (U \ {x}))
      BY <1>1
    <3> QED
      BY <3>1, <3>2, SizesRemove
  <2>4. Sizes(ca, S) = Sizes(ca, U \ {x}) + Sizes(ca, S \ (U \ {x}))
    <3>1. U \ {x} \notin C /\ U \ {x} \in SUBSET T
      BY <1>3
    <3> QED
      BY <3>1
  <2>5. Sizes(ca, U \ {x}) \in Nat /\ Sizes(ca, S \ U) \in Nat /\ ca.entries[x].size \in Nat
    BY <1>1 DEF Sized
  <2> DEFINE a == Sizes(ca, U \ {x})
             b == Sizes(ca, S \ U)
             s == ca.entries[x].size
  <2>6. a \in Nat /\ b \in Nat /\ s \in Nat /\ Sizes(ca, S) = a + (s + b) /\ Sizes(ca, U) = s + a
    BY <2>2, <2>3, <2>4, <2>5
  <2>7. Sizes(ca, S) # Sizes(ca, U) + b
    OBVIOUS
  <2> HIDE DEF a, b, s
  <2> QED
    BY <2>6, <2>7
<1> QED
  BY <1>4, <1>5

\* The sum depends on the sizes of S only.
LEMMA SizesSame ==
  ASSUME NEW ca, NEW cb, NEW S, IsFiniteSet(S),
         \A k \in S : ca.entries[k].size = cb.entries[k].size
  PROVE  Sizes(ca, S) = Sizes(cb, S)
<1> DEFINE C == {T \in SUBSET S : Sizes(ca, T) # Sizes(cb, T)}
<1>1. SUFFICES ASSUME C # {} PROVE FALSE
  OBVIOUS
<1>2. PICK T \in C : \A u \in C : u \subseteq T => u = T
  <2>1. C \subseteq SUBSET S
    OBVIOUS
  <2> HIDE DEF C
  <2> QED
    BY <1>1, <2>1, SmallestSet
<1>3. /\ Sizes(ca, T) = IF T = {} THEN 0 ELSE ca.entries[Chosen(T)].size + Sizes(ca, T \ {Chosen(T)})
      /\ Sizes(cb, T) = IF T = {} THEN 0 ELSE cb.entries[Chosen(T)].size + Sizes(cb, T \ {Chosen(T)})
  <2>1. IsFiniteSet(T)
    BY FS_Subset
  <2> QED
    BY <2>1, SizesChosen
<1>4. CASE T = {}
  BY <1>3, <1>4
<1>5. CASE T # {}
  <2>1. Chosen(T) \in T
    BY <1>5 DEF Chosen
  <2>2. Sizes(ca, T \ {Chosen(T)}) = Sizes(cb, T \ {Chosen(T)})
    <3>1. T \ {Chosen(T)} # T /\ T \ {Chosen(T)} \in SUBSET S
      BY <2>1
    <3> QED
      BY <1>2, <3>1
  <2> QED
    BY <1>3, <1>5, <2>1, <2>2
<1> QED
  BY <1>4, <1>5

-----------------------------------------------------------------------------
(* Without keeps what is not left out, in order, once if it was there once    *)

\* The sequences left of the first 0, 1, ... n elements.
Rests(s, S, n, f) ==
  f = [i \in 0..n |-> IF i = 0 THEN <<>> ELSE IF s[i] \in S THEN f[i - 1] ELSE Append(f[i - 1], s[i])]

LEMMA RestsExist ==
  ASSUME NEW s, NEW S, NEW n \in Nat
  PROVE  \E f : Rests(s, S, n, f)
<1> DEFINE N == {m \in Nat : ~\E f : Rests(s, S, m, f)}
<1>1. SUFFICES ASSUME N # {} PROVE FALSE
  OBVIOUS
<1>2. PICK m \in N : \A k \in N : m <= k
  <2>1. N \subseteq Nat
    OBVIOUS
  <2> HIDE DEF N
  <2> QED
    BY <1>1, <2>1, LeastNumber
<1>3. CASE m = 0
  <2>1. Rests(s, S, m, [i \in 0..0 |-> <<>>])
    BY <1>3 DEF Rests
  <2> QED
    BY <2>1
<1>4. CASE m # 0
  <2>1. m - 1 \in Nat /\ ~(m <= m - 1)
    BY <1>4
  <2>2. PICK f : Rests(s, S, m - 1, f)
    BY <1>2, <2>1
  <2> DEFINE last == IF s[m] \in S THEN f[m - 1] ELSE Append(f[m - 1], s[m])
             g == [i \in 0..m |-> IF i = m THEN last ELSE f[i]]
  <2>3. ASSUME NEW i \in 0..m
        PROVE  g[i] = IF i = 0 THEN <<>> ELSE IF s[i] \in S THEN g[i - 1] ELSE Append(g[i - 1], s[i])
    <3>1. CASE i = m
      <4>1. g[i] = last /\ g[i - 1] = f[i - 1]
        BY <1>4, <3>1
      <4> QED
        BY <1>4, <3>1, <4>1
    <3>2. CASE i # m
      <4>1. i \in 0..(m - 1) /\ (i # 0 => i - 1 \in 0..m /\ i - 1 # m)
        BY <3>2
      <4>2. f[i] = IF i = 0 THEN <<>> ELSE IF s[i] \in S THEN f[i - 1] ELSE Append(f[i - 1], s[i])
        BY <2>2, <4>1 DEF Rests
      <4>3. g[i] = f[i] /\ (i # 0 => g[i - 1] = f[i - 1])
        BY <3>2, <4>1
      <4> QED
        BY <4>2, <4>3
    <3> QED
      BY <3>1, <3>2
  <2>4. g = [i \in 0..m |-> g[i]]
    OBVIOUS
  <2> HIDE DEF g
  <2>5. Rests(s, S, m, g)
    BY <2>3, <2>4 DEF Rests
  <2> QED
    BY <2>5
<1> QED
  BY <1>3, <1>4

\* What Without promises: the elements that are not in S, each as often as before.
LEMMA WithoutFacts ==
  ASSUME NEW T, NEW s \in Seq(T), NEW S
  PROVE  /\ Without(s, S) \in Seq(T)
         /\ ToSet(Without(s, S)) = ToSet(s) \ S
         /\ IsInjective(s) => IsInjective(Without(s, S))
<1> DEFINE f == CHOOSE f : Rests(s, S, Len(s), f)
<1>1. Len(s) \in Nat /\ DOMAIN s = 1..Len(s) /\ \A i \in 1..Len(s) : s[i] \in T
  OBVIOUS
<1>2. Rests(s, S, Len(s), f)
  BY <1>1, RestsExist
<1>3. Without(s, S) = f[Len(s)]
  BY DEF Without, Rests
<1> HIDE DEF f
<1> DEFINE Done(n) == /\ f[n] \in Seq(T)
                      /\ ToSet(f[n]) = {s[i] : i \in 1..n} \ S
                      /\ IsInjective(s) => IsInjective(f[n])
           N == {n \in 0..Len(s) : ~Done(n)}
<1>4. ASSUME NEW n \in 0..Len(s)
      PROVE  f[n] = IF n = 0 THEN <<>> ELSE IF s[n] \in S THEN f[n - 1] ELSE Append(f[n - 1], s[n])
  BY <1>2 DEF Rests
<1>5. Done(0)
  <2>1. f[0] = <<>>
    BY <1>1, <1>4
  <2> QED
    BY <2>1 DEF ToSet, IsInjective
<1>6. ASSUME NEW n \in 1..Len(s), Done(n - 1) PROVE Done(n)
  <2>1. 1..n = (1..(n - 1)) \cup {n}
    BY <1>1
  <2>2. {s[i] : i \in 1..n} = {s[i] : i \in 1..(n - 1)} \cup {s[n]}
    BY <2>1
  <2>3. CASE s[n] \in S
    <3>1. f[n] = f[n - 1]
      BY <1>1, <1>4, <2>3
    <3> QED
      BY <1>6, <2>2, <2>3, <3>1
  <2>4. CASE s[n] \notin S
    <3> DEFINE e == f[n - 1]
    <3>1. f[n] = Append(e, s[n]) /\ e \in Seq(T) /\ s[n] \in T
      <4>1. n \in 0..Len(s) /\ n # 0 /\ s[n] \in T
        BY <1>1
      <4>2. f[n] = IF s[n] \in S THEN f[n - 1] ELSE Append(f[n - 1], s[n])
        BY <1>4, <4>1
      <4> QED
        BY <1>6, <2>4, <4>1, <4>2
    <3>2. ToSet(e) = {s[i] : i \in 1..(n - 1)} \ S /\ (IsInjective(s) => IsInjective(e))
      BY <1>6
    <3> HIDE DEF e
    <3>3. /\ Len(f[n]) = Len(e) + 1 /\ Len(e) \in Nat /\ DOMAIN e = 1..Len(e)
          /\ DOMAIN f[n] = 1..(Len(e) + 1) /\ f[n] \in Seq(T)
          /\ f[n][Len(e) + 1] = s[n] /\ \A i \in 1..Len(e) : f[n][i] = e[i]
      BY <3>1
    <3>4. ToSet(f[n]) = ToSet(e) \cup {s[n]}
      BY <3>3 DEF ToSet
    <3>5. ASSUME IsInjective(s) PROVE IsInjective(f[n])
      <4>1. s[n] \notin ToSet(e)
        <5>1. ASSUME NEW i \in 1..(n - 1) PROVE s[i] # s[n]
          <6>1. i \in DOMAIN s /\ n \in DOMAIN s /\ i # n
            BY <1>1
          <6> QED
            BY <3>5, <6>1 DEF IsInjective
        <5> QED
          BY <3>2, <5>1
      <4> QED
        BY <3>2, <3>3, <3>5, <4>1 DEF IsInjective, ToSet
    <3> QED
      BY <2>2, <2>4, <3>2, <3>3, <3>4, <3>5
  <2> QED
    BY <2>3, <2>4
<1> HIDE DEF Done
<1>7. ASSUME N # {} PROVE FALSE
  <2>1. N \subseteq Nat
    BY <1>1
  <2>2. PICK n \in N : \A k \in N : n <= k
    <3> HIDE DEF N
    <3> QED
      BY <1>7, <2>1, LeastNumber
  <2>3. n # 0 /\ n \in 1..Len(s)
    BY <1>1, <1>5, <2>2
  <2>4. n - 1 \in 0..Len(s) /\ ~(n <= n - 1)
    BY <1>1, <2>3
  <2>5. Done(n - 1)
    BY <2>2, <2>4
  <2> QED
    BY <1>6, <2>2, <2>3, <2>5
<1>8. Done(Len(s))
  BY <1>1, <1>7
<1>9. ToSet(s) = {s[i] : i \in 1..Len(s)}
  BY <1>1 DEF ToSet
<1> QED
  BY <1>3, <1>8, <1>9 DEF Done

-----------------------------------------------------------------------------
(* Sequences that list each thing once *)

LEMMA AppendOnce ==
  ASSUME NEW T, NEW s \in Seq(T), IsInjective(s), NEW x \in T, x \notin ToSet(s)
  PROVE  /\ Append(s, x) \in Seq(T) /\ IsInjective(Append(s, x))
         /\ ToSet(Append(s, x)) = ToSet(s) \cup {x}
<1> DEFINE a == Append(s, x)
<1>1. /\ Len(s) \in Nat /\ DOMAIN s = 1..Len(s) /\ DOMAIN a = 1..(Len(s) + 1) /\ a \in Seq(T)
      /\ a[Len(s) + 1] = x /\ \A i \in 1..Len(s) : a[i] = s[i]
  OBVIOUS
<1> HIDE DEF a
<1>2. 1..(Len(s) + 1) = (1..Len(s)) \cup {Len(s) + 1}
  BY <1>1
<1>3. ToSet(a) = ToSet(s) \cup {x}
  BY <1>1, <1>2 DEF ToSet
<1>4. IsInjective(a)
  BY <1>1, <1>2 DEF IsInjective, ToSet
<1> QED
  BY <1>1, <1>3, <1>4 DEF a

LEMMA PrependOnce ==
  ASSUME NEW T, NEW s \in Seq(T), IsInjective(s), NEW x \in T, x \notin ToSet(s)
  PROVE  /\ <<x>> \o s \in Seq(T) /\ IsInjective(<<x>> \o s)
         /\ ToSet(<<x>> \o s) = ToSet(s) \cup {x}
<1> DEFINE a == <<x>> \o s
<1>1. /\ Len(s) \in Nat /\ DOMAIN s = 1..Len(s) /\ DOMAIN a = 1..(Len(s) + 1) /\ a \in Seq(T)
      /\ a[1] = x /\ \A i \in 1..Len(s) : a[i + 1] = s[i]
  OBVIOUS
<1> HIDE DEF a
<1>2. \A i \in 2..(Len(s) + 1) : i - 1 \in 1..Len(s) /\ a[i] = s[i - 1]
  <2> TAKE i \in 2..(Len(s) + 1)
  <2>1. i - 1 \in 1..Len(s) /\ (i - 1) + 1 = i
    BY <1>1
  <2> QED
    BY <1>1, <2>1
<1>3. 1..(Len(s) + 1) = (2..(Len(s) + 1)) \cup {1}
  BY <1>1
<1>4. ToSet(a) = ToSet(s) \cup {x}
  <2>1. ASSUME NEW y \in ToSet(a) PROVE y \in ToSet(s) \cup {x}
    <3>1. PICK i \in 1..(Len(s) + 1) : y = a[i]
      BY <1>1 DEF ToSet
    <3>2. CASE i = 1
      BY <1>1, <3>1, <3>2
    <3>3. CASE i # 1
      <4>1. i \in 2..(Len(s) + 1)
        BY <3>3
      <4>2. i - 1 \in DOMAIN s /\ y = s[i - 1]
        BY <1>1, <1>2, <3>1, <4>1
      <4> QED
        BY <4>2 DEF ToSet
    <3> QED
      BY <3>2, <3>3
  <2>2. ASSUME NEW y \in ToSet(s) PROVE y \in ToSet(a)
    <3>1. PICK i \in 1..Len(s) : y = s[i]
      BY <1>1 DEF ToSet
    <3>2. i + 1 \in DOMAIN a /\ a[i + 1] = y
      BY <1>1, <3>1
    <3> QED
      BY <3>2 DEF ToSet
  <2>3. x \in ToSet(a)
    BY <1>1 DEF ToSet
  <2> QED
    BY <2>1, <2>2, <2>3
<1>5. ASSUME NEW i \in 1..(Len(s) + 1), NEW j \in 1..(Len(s) + 1), a[i] = a[j] PROVE i = j
  <2>1. \A h \in 2..(Len(s) + 1) : a[h] # x
    BY <1>1, <1>2 DEF ToSet
  <2>2. CASE i = 1 \/ j = 1
    BY <1>1, <1>3, <1>5, <2>1, <2>2
  <2>3. CASE i # 1 /\ j # 1
    <3>1. i \in 2..(Len(s) + 1) /\ j \in 2..(Len(s) + 1)
      BY <2>3
    <3>2. s[i - 1] = s[j - 1] /\ i - 1 \in DOMAIN s /\ j - 1 \in DOMAIN s
      BY <1>1, <1>2, <1>5, <3>1
    <3>3. i - 1 = j - 1
      BY <3>2 DEF IsInjective
    <3> QED
      BY <3>3
  <2> QED
    BY <2>2, <2>3
<1>6. IsInjective(a)
  BY <1>1, <1>5 DEF IsInjective
<1> QED
  BY <1>1, <1>4, <1>6 DEF a

LEMMA LengthOnce ==
  ASSUME NEW T, NEW s \in Seq(T), IsInjective(s)
  PROVE  IsFiniteSet(ToSet(s)) /\ Cardinality(ToSet(s)) = Len(s)
<1>1. Len(s) \in Nat /\ DOMAIN s = 1..Len(s)
  OBVIOUS
<1>2. IsFiniteSet(1..Len(s)) /\ Cardinality(1..Len(s)) = Len(s)
  BY <1>1, FS_Interval
<1>3. s \in Surjection(1..Len(s), ToSet(s)) /\ s \in Injection(1..Len(s), ToSet(s))
  <2>1. s \in [1..Len(s) -> ToSet(s)]
    BY <1>1 DEF ToSet
  <2> QED
    BY <1>1, <2>1 DEF Surjection, Injection, IsInjective, ToSet
<1> QED
  BY <1>2, <1>3, FS_Surjection

LEMMA ShorterOnce ==
  ASSUME NEW T, NEW s \in Seq(T), IsInjective(s), NEW U, NEW r \in Seq(U), IsInjective(r),
         ToSet(s) \subseteq ToSet(r)
  PROVE  Len(s) <= Len(r)
BY LengthOnce, FS_Subset

LEMMA PrefixOnce ==
  ASSUME NEW T, NEW s \in Seq(T), IsInjective(s), NEW r \in Seq(T), NEW n \in Nat,
         ToSet(s) \subseteq {r[i] : i \in (1..Len(r)) \cap (1..n)}
  PROVE  Len(s) <= n
<1> DEFINE I == (1..Len(r)) \cap (1..n)
           f == [i \in I |-> r[i]]
           R == {r[i] : i \in I}
<1>1. IsFiniteSet(1..n) /\ Cardinality(1..n) = n
  <2>1. 1 \in Int /\ n \in Int /\ (IF 1 > n THEN 0 ELSE n - 1 + 1) = n
    OBVIOUS
  <2> QED
    BY <2>1, FS_Interval
<1>2. IsFiniteSet(I) /\ Cardinality(I) <= n
  <2>1. I \in SUBSET (1..n)
    OBVIOUS
  <2> HIDE DEF I
  <2> QED
    BY <1>1, <2>1, FS_Subset
<1>3. f \in Surjection(I, R)
  <2> HIDE DEF I
  <2> QED
    BY DEF Surjection
<1> HIDE DEF f, R, I
<1>4. IsFiniteSet(R) /\ Cardinality(R) <= Cardinality(I)
  BY <1>2, <1>3, FS_Surjection
<1>5. Cardinality(ToSet(s)) <= Cardinality(R)
  <2>1. ToSet(s) \in SUBSET R
    BY DEF R, I
  <2> QED
    BY <1>4, <2>1, FS_Subset
<1>6. Cardinality(ToSet(s)) = Len(s) /\ Len(s) \in Nat
  BY LengthOnce
<1>7. Cardinality(I) \in Nat /\ Cardinality(R) \in Nat
  BY <1>2, <1>4, FS_CardinalityType
<1> QED
  BY <1>2, <1>4, <1>5, <1>6, <1>7

-----------------------------------------------------------------------------
(* The ledger of the cache *)

\* What every step of the cache keeps: its entries are of known keys, each bucket's
\* bytes are its entries', nothing is listed twice, and the queue lists the buckets.
Ledger(ca) ==
  /\ ca = [entries |-> ca.entries, bytes |-> ca.bytes, touched |-> ca.touched, queue |-> ca.queue]
  /\ DOMAIN ca.entries \subseteq Key /\ \A k \in DOMAIN ca.entries : ca.entries[k] \in Entry
  /\ ca.bytes \in [Project -> Nat] /\ \A p \in Project : ca.bytes[p] = Sizes(ca, KeysOf(ca, p))
  /\ ca.touched \in Seq(Key) /\ IsInjective(ca.touched)
  /\ ca.queue \in Seq(Project) /\ IsInjective(ca.queue)
  /\ ToSet(ca.queue) = {ProjectOf[k] : k \in DOMAIN ca.entries}

LEMMA KeysFacts ==
  ASSUME NEW ca, Ledger(ca), NEW S, S \subseteq DOMAIN ca.entries
  PROVE  IsFiniteSet(S) /\ Sized(ca, S) /\ Sizes(ca, S) \in Nat
<1>1. IsFiniteSet(S) /\ Sized(ca, S)
  BY KeyAssumption, FS_Subset DEF Ledger, Sized, Entry
<1> QED
  BY <1>1, SizesNat

LEMMA TouchedStep ==
  ASSUME NEW ca, Ledger(ca), NEW k \in DOMAIN ca.entries
  PROVE  /\ Ledger(Touched(ca, k)) /\ Touched(ca, k).bytes = ca.bytes
         /\ Len(Touched(ca, k).queue) <= Len(ca.queue)
<1> DEFINE p == ProjectOf[k]
           w == Without(ca.touched, {k})
           v == Without(ca.queue, {p})
           t == Append(w, k)
           q == <<p>> \o v
           d == Touched(ca, k)
<1>1. k \in Key /\ p \in Project /\ ca.touched \in Seq(Key) /\ ca.queue \in Seq(Project)
      /\ IsInjective(ca.touched) /\ IsInjective(ca.queue)
      /\ ToSet(ca.queue) = {ProjectOf[j] : j \in DOMAIN ca.entries} /\ p \in ToSet(ca.queue)
  BY ConstantsAssumption DEF Ledger
<1>2. d = [entries |-> ca.entries, bytes |-> ca.bytes, touched |-> t, queue |-> q]
  <2>1. d = [ca EXCEPT !.touched = t, !.queue = q]
    BY DEF Touched
  <2> HIDE DEF d, t, q
  <2> QED
    BY <2>1, CacheExcept DEF Ledger
<1>3. w \in Seq(Key) /\ IsInjective(w) /\ ToSet(w) = ToSet(ca.touched) \ {k}
      /\ v \in Seq(Project) /\ IsInjective(v) /\ ToSet(v) = ToSet(ca.queue) \ {p}
  <2> HIDE DEF p
  <2> QED
    BY <1>1, WithoutFacts
<1>4. t \in Seq(Key) /\ IsInjective(t)
  <2> HIDE DEF w
  <2> QED
    BY <1>1, <1>3, AppendOnce
<1>5. q \in Seq(Project) /\ IsInjective(q) /\ ToSet(q) = ToSet(v) \cup {p}
  <2> HIDE DEF v, p
  <2> QED
    BY <1>1, <1>3, PrependOnce
<1>6. ToSet(q) = ToSet(ca.queue)
  BY <1>1, <1>3, <1>5
<1> HIDE DEF w, v, t, q, d, p
<1>7. \A r : Sizes(d, KeysOf(d, r)) = Sizes(ca, KeysOf(ca, r))
  <2> TAKE r
  <2>1. KeysOf(d, r) = KeysOf(ca, r) /\ KeysOf(ca, r) \subseteq DOMAIN ca.entries
    BY <1>2 DEF KeysOf
  <2>2. \A j \in KeysOf(ca, r) : d.entries[j].size = ca.entries[j].size
    BY <1>2
  <2> QED
    BY <2>1, <2>2, KeysFacts, SizesSame
<1>8. Ledger(d)
  BY <1>1, <1>2, <1>4, <1>5, <1>6, <1>7 DEF Ledger
<1>9. Len(q) <= Len(ca.queue)
  BY <1>1, <1>5, <1>6, ShorterOnce
<1> QED
  BY <1>2, <1>8, <1>9 DEF d

\* put, up to the evictions
LEMMA PutStep ==
  ASSUME NEW ca, Ledger(ca), NEW k \in Key, NEW e \in Entry
  PROVE  LET d == Touched(Added(ca, k, e), k) IN
         /\ Ledger(d) /\ \A p \in Project : p # ProjectOf[k] => d.bytes[p] = ca.bytes[p]
<1> DEFINE p == ProjectOf[k]
           a == Added(ca, k, e)
           old == IF k \in DOMAIN ca.entries THEN ca.entries[k].size ELSE 0
           n == ca.bytes[p] + e.size - old
           en == [j \in DOMAIN ca.entries \cup {k} |-> IF j = k THEN e ELSE ca.entries[j]]
           by == [ca.bytes EXCEPT ![p] = n]
           w == Without(ca.touched, {k})
           v == Without(ca.queue, {p})
           t == Append(w, k)
           q == <<p>> \o v
           d == Touched(a, k)
<1>1. /\ p \in Project /\ ca.touched \in Seq(Key) /\ ca.queue \in Seq(Project)
      /\ IsInjective(ca.touched) /\ IsInjective(ca.queue)
      /\ ToSet(ca.queue) = {ProjectOf[j] : j \in DOMAIN ca.entries}
      /\ ca.bytes \in [Project -> Nat] /\ ca.bytes[p] = Sizes(ca, KeysOf(ca, p)) /\ e.size \in Nat
  BY ConstantsAssumption DEF Ledger, Entry
<1>2. d = [entries |-> en, bytes |-> by, touched |-> t, queue |-> q]
  <2>1. a = [entries |-> en, bytes |-> by, touched |-> ca.touched, queue |-> ca.queue]
    <3>1. a = [ca EXCEPT !.entries = en, !.bytes[p] = n]
      BY DEF Added
    <3> HIDE DEF a, en, n, p
    <3> QED
      BY <3>1, CacheExcept DEF Ledger
  <2> HIDE DEF a, en, by
  <2>2. d = [a EXCEPT !.touched = t, !.queue = q]
    BY <2>1 DEF Touched
  <2> HIDE DEF d, t, q
  <2> QED
    BY <2>1, <2>2, CacheExcept
<1>3. w \in Seq(Key) /\ IsInjective(w) /\ ToSet(w) = ToSet(ca.touched) \ {k}
      /\ v \in Seq(Project) /\ IsInjective(v) /\ ToSet(v) = ToSet(ca.queue) \ {p}
  <2> HIDE DEF p, a, old, n, en, by, t, q, d
  <2>1. w \in Seq(Key) /\ IsInjective(w) /\ ToSet(w) = ToSet(ca.touched) \ {k}
    <3> HIDE DEF v
    <3> QED
      BY <1>1, WithoutFacts
  <2>2. v \in Seq(Project) /\ IsInjective(v) /\ ToSet(v) = ToSet(ca.queue) \ {p}
    <3> HIDE DEF w
    <3> QED
      BY <1>1, WithoutFacts
  <2> QED
    BY <2>1, <2>2
<1>4. t \in Seq(Key) /\ IsInjective(t)
  <2> HIDE DEF w
  <2> QED
    BY <1>1, <1>3, AppendOnce
<1>5. q \in Seq(Project) /\ IsInjective(q) /\ ToSet(q) = ToSet(v) \cup {p}
  <2> HIDE DEF v, p
  <2> QED
    BY <1>1, <1>3, PrependOnce
<1>6. /\ DOMAIN en = DOMAIN ca.entries \cup {k} /\ DOMAIN en \subseteq Key
      /\ en[k] = e /\ \A j \in DOMAIN ca.entries : j # k => en[j] = ca.entries[j]
      /\ \A j \in DOMAIN en : en[j] \in Entry
  BY DEF Ledger
<1>7. ToSet(q) = {ProjectOf[j] : j \in DOMAIN en}
  <2> HIDE DEF q, v, en
  <2> QED
    BY <1>1, <1>3, <1>5, <1>6
<1> DEFINE K == KeysOf(ca, p) \ {k}
<1> HIDE DEF w, v, t, q, d, en, a
<1>8. KeysOf(d, p) = K \cup {k} /\ k \notin K /\ K \subseteq DOMAIN ca.entries /\ KeysOf(ca, p) \subseteq DOMAIN ca.entries
  BY <1>2, <1>6 DEF KeysOf
<1>9. Sizes(d, K) = Sizes(ca, K) /\ Sizes(ca, K) \in Nat
  <2>1. \A j \in K : d.entries[j].size = ca.entries[j].size
    BY <1>2, <1>6, <1>8
  <2> HIDE DEF K
  <2>2. IsFiniteSet(K) /\ Sizes(ca, K) \in Nat
    BY <1>8, KeysFacts
  <2> QED
    BY <2>1, <2>2, SizesSame
<1>10. Sizes(d, KeysOf(d, p)) = e.size + Sizes(ca, K)
  <2>1. IsFiniteSet(KeysOf(d, p)) /\ Sized(d, KeysOf(d, p))
    <3>1. KeysOf(d, p) \subseteq DOMAIN en
      BY <1>2 DEF KeysOf
    <3> QED
      BY <1>2, <1>6, <3>1, KeyAssumption, FS_Subset DEF Sized, Entry
  <2>2. KeysOf(d, p) \ {k} = K /\ k \in KeysOf(d, p) /\ d.entries[k].size = e.size
    BY <1>2, <1>6, <1>8
  <2> HIDE DEF K, p
  <2> QED
    BY <1>9, <2>1, <2>2, SizesRemove
<1>11. Sizes(ca, KeysOf(ca, p)) = old + Sizes(ca, K) /\ old \in Nat
  <2>1. CASE k \in DOMAIN ca.entries
    <3>1. k \in KeysOf(ca, p)
      BY <2>1 DEF KeysOf
    <3>2. IsFiniteSet(KeysOf(ca, p)) /\ Sized(ca, KeysOf(ca, p)) /\ ca.entries[k].size \in Nat
      BY <1>8, <3>1, KeysFacts DEF Sized
    <3> QED
      BY <2>1, <3>1, <3>2, SizesRemove
  <2>2. CASE k \notin DOMAIN ca.entries
    <3>1. KeysOf(ca, p) = K
      BY <2>2 DEF KeysOf
    <3> HIDE DEF K
    <3> QED
      BY <1>9, <2>2, <3>1
  <2> QED
    BY <2>1, <2>2
<1>12. n = e.size + Sizes(ca, K) /\ n \in Nat
  <2> HIDE DEF K, old
  <2> QED
    BY <1>1, <1>9, <1>11
<1>13. by \in [Project -> Nat] /\ by[p] = n /\ \A r \in Project : r # p => by[r] = ca.bytes[r]
  <2> HIDE DEF n
  <2> QED
    BY <1>1, <1>12
<1>14. ASSUME NEW r \in Project PROVE d.bytes[r] = Sizes(d, KeysOf(d, r))
  <2>1. CASE r = p
    <3> HIDE DEF n, by, K, p
    <3> QED
      BY <1>2, <1>10, <1>12, <1>13, <2>1
  <2>2. CASE r # p
    <3>1. KeysOf(d, r) = KeysOf(ca, r) /\ KeysOf(ca, r) \subseteq DOMAIN ca.entries /\ k \notin KeysOf(ca, r)
      BY <1>2, <1>6, <2>2 DEF KeysOf
    <3>2. \A j \in KeysOf(ca, r) : d.entries[j].size = ca.entries[j].size
      BY <1>2, <1>6, <3>1
    <3>3. Sizes(d, KeysOf(d, r)) = Sizes(ca, KeysOf(ca, r))
      BY <3>1, <3>2, KeysFacts, SizesSame
    <3>4. d.bytes[r] = ca.bytes[r]
      <4> HIDE DEF by
      <4> QED
        BY <1>2, <1>13, <2>2
    <3> QED
      BY <3>3, <3>4 DEF Ledger
  <2> QED
    BY <2>1, <2>2
<1> HIDE DEF n, by, K, p
<1>15. Ledger(d)
  BY <1>2, <1>4, <1>5, <1>6, <1>7, <1>13, <1>14 DEF Ledger
<1> QED
  BY <1>2, <1>13, <1>15 DEF d, a, p

LEMMA DroppedStep ==
  ASSUME NEW ca, Ledger(ca), NEW S, S \subseteq DOMAIN ca.entries
  PROVE  LET d == Dropped(ca, S) IN
         /\ Ledger(d) /\ \A p \in Project : d.bytes[p] <= ca.bytes[p]
         /\ d.entries = [k \in DOMAIN ca.entries \ S |-> ca.entries[k]]
         /\ ToSet(d.queue) \subseteq ToSet(ca.queue) /\ Len(d.queue) <= Len(ca.queue)
<1> DEFINE en == [k \in DOMAIN ca.entries \ S |-> ca.entries[k]]
           gone == {ProjectOf[k] : k \in S} \ {ProjectOf[k] : k \in DOMAIN en}
           part(p) == S \cap KeysOf(ca, p)
           by == [p \in Project |-> IF p \in gone THEN 0 ELSE ca.bytes[p] - Sizes(ca, part(p))]
           t == Without(ca.touched, S)
           q == Without(ca.queue, gone)
           d == Dropped(ca, S)
<1>1. d = [entries |-> en, bytes |-> by, touched |-> t, queue |-> q]
  BY DEF Dropped
<1>2. DOMAIN en = DOMAIN ca.entries \ S /\ \A k \in DOMAIN en : en[k] = ca.entries[k]
  OBVIOUS
<1>3. /\ ca.touched \in Seq(Key) /\ ca.queue \in Seq(Project)
      /\ IsInjective(ca.touched) /\ IsInjective(ca.queue)
      /\ ToSet(ca.queue) = {ProjectOf[j] : j \in DOMAIN ca.entries}
      /\ ca.bytes \in [Project -> Nat] /\ \A p \in Project : ca.bytes[p] = Sizes(ca, KeysOf(ca, p))
  BY DEF Ledger
<1> HIDE DEF d, en
<1>4. t \in Seq(Key) /\ IsInjective(t)
  <2> HIDE DEF by, gone, q
  <2> QED
    BY <1>3, WithoutFacts
<1>5. q \in Seq(Project) /\ IsInjective(q) /\ ToSet(q) = ToSet(ca.queue) \ gone
  <2> HIDE DEF by, gone, t
  <2> QED
    BY <1>3, WithoutFacts
<1> HIDE DEF t, q
<1>6. ToSet(q) = {ProjectOf[j] : j \in DOMAIN en}
  BY <1>2, <1>3, <1>5
<1> HIDE DEF gone
<1>7. ASSUME NEW p \in Project
      PROVE  by[p] = Sizes(d, KeysOf(d, p)) /\ by[p] \in Nat /\ by[p] <= ca.bytes[p]
  <2> DEFINE K == KeysOf(ca, p)
             R == KeysOf(d, p)
  <2>1. K \subseteq DOMAIN ca.entries /\ R = K \ part(p) /\ part(p) \in SUBSET K
    BY <1>1, <1>2 DEF KeysOf
  <2>2. IsFiniteSet(K) /\ Sized(ca, K)
    BY <2>1, KeysFacts
  <2>3. /\ Sizes(ca, K) = Sizes(ca, part(p)) + Sizes(ca, K \ part(p))
        /\ Sizes(ca, K) \in Nat /\ Sizes(ca, part(p)) \in Nat /\ Sizes(ca, K \ part(p)) \in Nat
    <3> HIDE DEF K, part
    <3> QED
      BY <2>1, <2>2, SizesSplit
  <2>4. Sizes(d, R) = Sizes(ca, R)
    <3>1. \A k \in R : d.entries[k].size = ca.entries[k].size
      BY <1>1, <1>2 DEF KeysOf
    <3>2. IsFiniteSet(R)
      BY <2>1, KeysFacts
    <3> HIDE DEF R
    <3> QED
      BY <3>1, <3>2, SizesSame
  <2>5. CASE p \in gone
    <3>1. R = {}
      BY <1>1, <1>2, <2>5 DEF gone, KeysOf
    <3>2. Sizes(d, R) = 0
      <4> HIDE DEF R
      <4> QED
        BY <3>1, FS_EmptySet, SizesChosen
    <3>3. by[p] = 0 /\ 0 <= ca.bytes[p]
      BY <1>3, <2>5
    <3> QED
      BY <3>2, <3>3
  <2>6. CASE p \notin gone
    <3>1. by[p] = ca.bytes[p] - Sizes(ca, part(p)) /\ ca.bytes[p] = Sizes(ca, K)
      BY <1>3, <2>6
    <3> HIDE DEF K, R, part, by
    <3> QED
      BY <2>1, <2>3, <2>4, <3>1 DEF R
  <2> QED
    BY <2>5, <2>6
<1>8. by \in [Project -> Nat]
  BY <1>7
<1> HIDE DEF by, part
<1>9. Ledger(d)
  <2>1. DOMAIN en \subseteq Key /\ \A k \in DOMAIN en : en[k] \in Entry
    BY <1>2 DEF Ledger
  <2> QED
    BY <1>1, <1>4, <1>5, <1>6, <1>7, <1>8, <2>1 DEF Ledger
<1>10. Len(q) <= Len(ca.queue)
  BY <1>3, <1>5, ShorterOnce
<1> QED
  <2>1. d.entries = en /\ d.queue = q /\ \A p \in Project : d.bytes[p] <= ca.bytes[p]
    BY <1>1, <1>7
  <2>2. ToSet(d.queue) \subseteq ToSet(ca.queue) /\ Len(d.queue) <= Len(ca.queue)
    BY <1>5, <1>10, <2>1
  <2>3. d.entries = [k \in DOMAIN ca.entries \ S |-> ca.entries[k]]
    BY <2>1 DEF en
  <2> QED
    BY <1>9, <2>1, <2>2, <2>3 DEF d

\* evictWithinProjectIfOverLimit brings the bucket inside its limit: what is left is
\* no more than what was there when the first of it had its turn.
LEMMA OverflowStep ==
  ASSUME NEW ca, Ledger(ca), NEW p \in Project
  PROVE  /\ Overflow(ca, p) \subseteq DOMAIN ca.entries
         /\ Dropped(ca, Overflow(ca, p)).bytes[p] <= ByteLimit
<1> DEFINE K == KeysOf(ca, p)
           O == Overflow(ca, p)
           B(k) == {j \in K : Sooner(ca, j, k)}
           R == K \ O
           d == Dropped(ca, O)
<1>1. O \subseteq K /\ K \subseteq DOMAIN ca.entries /\ O \subseteq DOMAIN ca.entries
  BY DEF Overflow, KeysOf
<1>2. \A k \in R : ca.bytes[p] - Sizes(ca, B(k)) <= ByteLimit
  <2> TAKE k \in R
  <2>1. ~(ca.bytes[p] - Sizes(ca, B(k)) > ByteLimit)
    BY DEF Overflow
  <2>2. ca.bytes[p] \in Nat /\ Sizes(ca, B(k)) \in Nat /\ ByteLimit \in Nat
    BY <1>1, KeysFacts, ConstantsAssumption DEF Ledger
  <2> QED
    BY <2>1, <2>2
<1>3. Ledger(d) /\ d.entries = [k \in DOMAIN ca.entries \ O |-> ca.entries[k]]
  <2> HIDE DEF O
  <2> QED
    BY <1>1, DroppedStep
<1>4. d.bytes[p] = Sizes(ca, R) /\ Sizes(ca, R) \in Nat
  <2>1. KeysOf(d, p) = R /\ \A k \in R : d.entries[k].size = ca.entries[k].size
    BY <1>1, <1>3 DEF KeysOf
  <2>2. IsFiniteSet(R) /\ Sizes(ca, R) \in Nat
    BY <1>1, KeysFacts
  <2>3. d.bytes[p] = Sizes(d, KeysOf(d, p))
    BY <1>3 DEF Ledger
  <2> HIDE DEF R, d
  <2> QED
    BY <2>1, <2>2, <2>3, SizesSame
<1>5. ASSUME R = {} PROVE d.bytes[p] <= ByteLimit
  <2>1. Sizes(ca, R) = 0
    <3> HIDE DEF R
    <3> QED
      BY <1>5, FS_EmptySet, SizesChosen
  <2>2. ByteLimit \in Nat
    BY ConstantsAssumption
  <2> HIDE DEF d, R
  <2> QED
    BY <1>4, <2>1, <2>2
<1>6. ASSUME R # {} PROVE d.bytes[p] <= ByteLimit
  <2> DEFINE C == {B(k) : k \in R}
  <2>1. IsFiniteSet(K) /\ C \subseteq SUBSET K /\ C # {}
    BY <1>1, <1>6, KeysFacts
  <2>2. PICK T \in C : \A U \in C : U \subseteq T => U = T
    <3> HIDE DEF C, K
    <3> QED
      BY <2>1, SmallestSet
  <2>3. PICK f \in R : T = B(f)
    OBVIOUS
  <2>4. \A k \in K : ca.entries[k].size \in Nat
    BY <1>1, KeysFacts DEF Sized
  <2>5. ASSUME NEW j \in R PROVE ~Sooner(ca, j, f)
    <3>1. SUFFICES ASSUME Sooner(ca, j, f) PROVE FALSE
      OBVIOUS
    <3>2. ~Sooner(ca, j, j)
      <4>1. ca.entries[j].size \in Nat
        BY <2>4
      <4>2. \A m, n \in DOMAIN ca.touched : m < n /\ ca.touched[m] = j /\ ca.touched[n] = j => FALSE
        <5>1. DOMAIN ca.touched = 1..Len(ca.touched) /\ Len(ca.touched) \in Nat
          BY DEF Ledger
        <5>2. \A m, n \in DOMAIN ca.touched : ca.touched[m] = ca.touched[n] => m = n
          BY DEF Ledger, IsInjective
        <5> QED
          BY <5>1, <5>2
      <4> QED
        BY <4>1, <4>2 DEF Sooner
    <3>3. ASSUME NEW i \in K, Sooner(ca, i, j) PROVE Sooner(ca, i, f)
      <4>1. ca.entries[i].size \in Nat /\ ca.entries[j].size \in Nat /\ ca.entries[f].size \in Nat
        BY <2>4
      <4>2. CASE ca.entries[i].size < ca.entries[j].size \/ ca.entries[j].size < ca.entries[f].size
        <5>1. ca.entries[i].size <= ca.entries[j].size /\ ca.entries[j].size <= ca.entries[f].size
          BY <3>1, <3>3, <4>1 DEF Sooner
        <5> QED
          BY <4>1, <4>2, <5>1 DEF Sooner
      <4>3. CASE ~(ca.entries[i].size < ca.entries[j].size) /\ ~(ca.entries[j].size < ca.entries[f].size)
        <5>1. PICK m \in DOMAIN ca.touched, n \in DOMAIN ca.touched :
                m < n /\ ca.touched[m] = i /\ ca.touched[n] = j
          BY <3>3, <4>3 DEF Sooner
        <5>2. PICK g \in DOMAIN ca.touched, h \in DOMAIN ca.touched :
                g < h /\ ca.touched[g] = j /\ ca.touched[h] = f
          BY <3>1, <4>3 DEF Sooner
        <5>3. g = n
          BY <5>1, <5>2 DEF Ledger, IsInjective
        <5>4. m \in Nat /\ n \in Nat /\ h \in Nat
          BY DEF Ledger
        <5>5. m < h
          BY <5>1, <5>2, <5>3, <5>4
        <5>6. ca.entries[i].size = ca.entries[f].size
          BY <3>1, <3>3, <4>3 DEF Sooner
        <5> QED
          BY <5>1, <5>2, <5>5, <5>6 DEF Sooner
      <4> QED
        BY <4>2, <4>3
    <3>4. B(j) \subseteq B(f) /\ B(j) \in C
      BY <3>3
    <3>5. B(j) = B(f)
      <4> HIDE DEF C, B
      <4> QED
        BY <2>2, <2>3, <3>4
    <3>6. j \in B(f) /\ j \notin B(j)
      BY <3>1, <3>2
    <3> QED
      BY <3>5, <3>6
  <2>6. R \in SUBSET (K \ B(f)) /\ B(f) \in SUBSET K
    BY <2>5
  <2>7. IsFiniteSet(K) /\ Sized(ca, K) /\ IsFiniteSet(K \ B(f)) /\ Sized(ca, K \ B(f))
    BY <1>1, KeysFacts
  <2>8. ca.bytes[p] = Sizes(ca, K) /\ ca.bytes[p] - Sizes(ca, B(f)) <= ByteLimit
    BY <1>2 DEF Ledger
  <2> DEFINE X == K \ B(f)
  <2> HIDE DEF K, R, B, d
  <2>9. Sizes(ca, K) = Sizes(ca, B(f)) + Sizes(ca, X) /\ Sizes(ca, B(f)) \in Nat
    BY <2>6, <2>7, SizesSplit
  <2>10. Sizes(ca, X) = Sizes(ca, R) + Sizes(ca, X \ R)
         /\ Sizes(ca, R) \in Nat /\ Sizes(ca, X \ R) \in Nat
    <3>1. R \in SUBSET X /\ IsFiniteSet(X) /\ Sized(ca, X)
      BY <2>6, <2>7
    <3> HIDE DEF X
    <3> QED
      BY <3>1, SizesSplit
  <2>11. ByteLimit \in Nat
    BY ConstantsAssumption
  <2> QED
    BY <1>4, <2>8, <2>9, <2>10, <2>11
<1> QED
  BY <1>1, <1>5, <1>6

\* evictProjectsIfOverLimit brings the queue inside its limit.
LEMMA SurplusStep ==
  ASSUME NEW ca, Ledger(ca)
  PROVE  /\ Surplus(ca) \subseteq DOMAIN ca.entries
         /\ Len(Dropped(ca, Surplus(ca)).queue) <= MaxProjects
<1> DEFINE S == Surplus(ca)
           d == Dropped(ca, S)
           r == ca.queue
           tail == SubSeq(r, MaxProjects + 1, Len(r))
<1>1. S \subseteq DOMAIN ca.entries /\ MaxProjects \in Nat
  BY ConstantsAssumption DEF Surplus
<1>2. /\ Ledger(d) /\ ToSet(d.queue) \subseteq ToSet(r)
      /\ d.entries = [k \in DOMAIN ca.entries \ S |-> ca.entries[k]]
  <2> HIDE DEF S
  <2> QED
    BY <1>1, DroppedStep
<1>3. r \in Seq(Project) /\ Len(r) \in Nat /\ DOMAIN r = 1..Len(r)
  BY DEF Ledger
<1>4. \A i \in 1..Len(r) : i > MaxProjects => r[i] \in ToSet(tail)
  <2> TAKE i \in 1..Len(r)
  <2> HAVE i > MaxProjects
  <2>1. /\ i - MaxProjects \in 1..(Len(r) - MaxProjects)
        /\ (MaxProjects + 1) + (i - MaxProjects) - 1 = i
    BY <1>1, <1>3
  <2>2. tail[i - MaxProjects] = r[i] /\ i - MaxProjects \in DOMAIN tail
    <3>1. DOMAIN tail = 1..(Len(r) - MaxProjects)
      BY <1>1, <1>3
    <3>2. tail[i - MaxProjects] = r[(MaxProjects + 1) + (i - MaxProjects) - 1]
      BY <1>1, <1>3, <2>1
    <3> QED
      BY <2>1, <3>1, <3>2
  <2> QED
    BY <2>2 DEF ToSet
<1>5. \A x \in ToSet(d.queue) : x \notin ToSet(tail)
  <2> TAKE x \in ToSet(d.queue)
  <2>1. PICK k \in DOMAIN d.entries : x = ProjectOf[k]
    BY <1>2 DEF Ledger
  <2>2. k \in DOMAIN ca.entries /\ k \notin S
    BY <1>2
  <2> QED
    BY <2>1, <2>2 DEF Surplus
<1> HIDE DEF tail, d, S
<1>6. ToSet(d.queue) \subseteq {r[i] : i \in (1..Len(r)) \cap (1..MaxProjects)}
  <2> SUFFICES ASSUME NEW x \in ToSet(d.queue)
               PROVE  \E i \in (1..Len(r)) \cap (1..MaxProjects) : x = r[i]
    OBVIOUS
  <2>1. PICK i \in 1..Len(r) : x = r[i]
    BY <1>2, <1>3 DEF ToSet
  <2>2. ~(i > MaxProjects)
    BY <1>4, <1>5, <2>1
  <2>3. i \in 1..MaxProjects
    BY <1>1, <1>3, <2>2
  <2> QED
    BY <2>1, <2>3
<1>7. d.queue \in Seq(Project) /\ IsInjective(d.queue)
  BY <1>2 DEF Ledger
<1>8. Len(d.queue) <= MaxProjects
  BY <1>1, <1>3, <1>6, <1>7, PrefixOnce
<1> QED
  BY <1>1, <1>8 DEF d, S

-----------------------------------------------------------------------------
(* The ledger over the steps of the calls, the sweeps and the disk *)

Bounded(ca) ==
  /\ Ledger(ca) /\ Len(ca.queue) <= MaxProjects
  /\ \A p \in Project : ca.bytes[p] <= ByteLimit
VersionsTyped == disk \in [Key -> BodyVersion] /\ floor \in [Key -> BodyVersion]
CallTyped ==
  [pc : {"idle", "validate", "stat", "wait", "served"}, key : Key, force : BOOLEAN,
   since : BodyVersion, current : BOOLEAN, entry : Entry, token : Token,
   job : Caller \cup {"none"}]
ReadTyped == [pc : {"none", "asked", "read", "replied"}, body : BodyVersion, ok : BOOLEAN]
CallsTyped ==
  /\ call \in [Caller -> CallTyped] /\ read \in [Caller -> ReadTyped]
  /\ \A c \in Caller : call[c].pc = "wait" => call[c].job \in Caller
SweepTyped(x) ==
  /\ x = [on |-> x.on, project |-> x.project, left |-> x.left, tokens |-> x.tokens]
  /\ x.left \subseteq Key /\ x.project \in Project
SweepsTyped == sweep = [s \in Sweeper |-> sweep[s]] /\ \A s \in Sweeper : SweepTyped(sweep[s])

LedgerInv == VersionsTyped /\ Bounded(bodies) /\ CallsTyped /\ SweepsTyped

LEMMA LedgerInvImplies == LedgerInv => LedgerExact
BY DEF LedgerInv, LedgerExact, ContentTypeOK, VersionsTyped, Bounded, Ledger, CallsTyped, CallTyped,
       ReadTyped, SweepsTyped, SweepTyped

\* The highest version is a number, and no file is edited more often.
LEMMA Versions ==
  /\ BodyVersion \subseteq Nat /\ 0 \in BodyVersion
  /\ \A k \in Key : \A v \in Nat : v <= LastVersion[k] => v \in BodyVersion
<1> DEFINE R == Range(LastVersion)
<1>1. R = {LastVersion[k] : k \in Key} /\ R \subseteq Nat /\ R # {}
  BY ConstantsAssumption, KeyAssumption DEF Range
<1>2. IsFiniteSet(R)
  <2>1. LastVersion \in Surjection(Key, R)
    BY <1>1, ConstantsAssumption DEF Surjection
  <2> HIDE DEF R
  <2> QED
    BY <2>1, KeyAssumption, FS_Surjection
<1> HIDE DEF R
<1>3. \E x \in R : \A y \in R : x >= y
  <2> DEFINE C == {T \in SUBSET R : T # {} /\ ~\E x \in T : \A y \in T : x >= y}
  <2>1. SUFFICES ASSUME C # {} PROVE FALSE
    BY <1>1
  <2>2. PICK T \in C : \A U \in C : U \subseteq T => U = T
    <3>1. C \subseteq SUBSET R
      OBVIOUS
    <3> HIDE DEF C
    <3> QED
      BY <1>2, <2>1, <3>1, SmallestSet
  <2>3. PICK z \in T : TRUE
    OBVIOUS
  <2>4. T \ {z} \notin C /\ T \ {z} \in SUBSET R /\ T \subseteq Nat /\ z \in Nat
    BY <1>1, <2>2, <2>3
  <2>5. CASE T \ {z} = {}
    <3>1. z >= z /\ \A y \in T : y = z
      BY <2>4, <2>5
    <3> QED
      BY <2>3, <3>1
  <2>6. CASE T \ {z} # {}
    <3>1. PICK x \in T \ {z} : \A y \in T \ {z} : x >= y
      BY <2>4, <2>6
    <3>2. x \in Nat /\ (x >= z \/ (z >= x /\ \A y \in T \ {z} : z >= y)) /\ z >= z
      BY <2>4, <3>1
    <3> QED
      BY <2>3, <3>1, <3>2
  <2> QED
    BY <2>5, <2>6
<1>4. Max(R) \in Nat /\ \A y \in R : Max(R) >= y
  BY <1>1, <1>3 DEF Max
<1> DEFINE m == Max(R)
<1>5. BodyVersion = 0..m /\ m \in Nat /\ \A k \in Key : LastVersion[k] \in Nat /\ m >= LastVersion[k]
  BY <1>1, <1>4 DEF BodyVersion, R
<1> HIDE DEF m
<1> QED
  BY <1>5

LEMMA Fixed ==
  /\ NoCall \in CallTyped /\ Served \in CallTyped /\ NoCall.pc = "idle" /\ Served.pc = "served"
  /\ NoEntry \in Entry /\ NoRead \in ReadTyped /\ SweepTyped(NoSweep)
  /\ NoToken \in Token /\ BodyVersion \subseteq Token
<1>1. NoEntry \in Entry /\ NoToken \in Token /\ BodyVersion \subseteq Token
  BY Versions DEF NoEntry, Entry, Token
<1>2. (CHOOSE k \in Key : TRUE) \in Key /\ (CHOOSE p \in Project : TRUE) \in Project
  BY KeyAssumption, ConstantsAssumption
<1>3. NoCall \in CallTyped /\ NoCall.pc = "idle"
  BY <1>1, <1>2, Versions DEF NoCall, CallTyped
<1>4. Served \in CallTyped /\ Served.pc = "served"
  BY <1>3 DEF Served, CallTyped
<1>5. NoRead \in ReadTyped
  BY Versions DEF NoRead, ReadTyped
<1>6. SweepTyped(NoSweep)
  BY <1>2 DEF SweepTyped, NoSweep
<1> QED
  BY <1>1, <1>3, <1>4, <1>5, <1>6

\* One call moves to x.
LEMMA CallsSet ==
  ASSUME NEW C \in [Caller -> CallTyped], NEW c \in Caller, NEW x \in CallTyped,
         x.pc = "wait" => x.job \in Caller,
         \A d \in Caller : C[d].pc = "wait" => C[d].job \in Caller
  PROVE  LET D == [C EXCEPT ![c] = x] IN
         /\ D \in [Caller -> CallTyped]
         /\ \A d \in Caller : D[d].pc = "wait" => D[d].job \in Caller
<1> DEFINE D == [C EXCEPT ![c] = x]
<1>1. D \in [Caller -> CallTyped] /\ D[c] = x /\ \A d \in Caller : d # c => D[d] = C[d]
  OBVIOUS
<1> HIDE DEF D
<1>2. \A d \in Caller : D[d].pc = "wait" => D[d].job \in Caller
  BY <1>1
<1> QED
  BY <1>1, <1>2 DEF D

LEMMA BumpedTyped ==
  ASSUME NEW C \in [Caller -> CallTyped], NEW P,
         \A d \in Caller : C[d].pc = "wait" => C[d].job \in Caller
  PROVE  /\ Bumped(C, P) \in [Caller -> CallTyped]
         /\ \A d \in Caller : Bumped(C, P)[d].pc = "wait" => Bumped(C, P)[d].job \in Caller
<1>1. ASSUME NEW d \in Caller
      PROVE  /\ [C[d] EXCEPT !.current = FALSE] \in CallTyped
             /\ [C[d] EXCEPT !.current = FALSE].pc = C[d].pc
             /\ [C[d] EXCEPT !.current = FALSE].job = C[d].job
  <2>1. C[d] \in CallTyped
    OBVIOUS
  <2> QED
    BY <2>1 DEF CallTyped
<1> QED
  BY <1>1 DEF Bumped

LEMMA AskTyped ==
  ASSUME CallsTyped, NEW c \in Caller, NEW token \in Token, Ask(c, token)
  PROVE  CallsTyped'
<1> DEFINE job == IF Joinable(c) = {} THEN c ELSE CHOOSE d \in Joinable(c) : TRUE
           x == [call[c] EXCEPT !.pc = "wait", !.entry = NoEntry, !.token = token, !.job = job]
<1>1. job \in Caller
  BY DEF Joinable
<1>2. call' = [call EXCEPT ![c] = x]
      /\ read' = IF job = c THEN [read EXCEPT ![c].pc = "asked"] ELSE read
  BY DEF Ask
<1> HIDE DEF job
<1>3. x \in CallTyped /\ x.pc = "wait" /\ x.job = job
  <2>1. call[c] \in CallTyped
    BY DEF CallsTyped
  <2> QED
    BY <1>1, <2>1, Fixed DEF CallTyped
<1> HIDE DEF x
<1>4. call' \in [Caller -> CallTyped] /\ \A d \in Caller : call'[d].pc = "wait" => call'[d].job \in Caller
  BY <1>1, <1>2, <1>3, CallsSet DEF CallsTyped
<1>5. read' \in [Caller -> ReadTyped]
  <2>1. read[c] \in ReadTyped /\ [read[c] EXCEPT !.pc = "asked"] \in ReadTyped
    BY DEF CallsTyped, ReadTyped
  <2> QED
    BY <1>2, <2>1 DEF CallsTyped
<1> QED
  BY <1>4, <1>5 DEF CallsTyped

LEMMA CallLedger ==
  ASSUME LedgerInv, NEW c \in Caller, NEW k \in Key, NEW force \in BOOLEAN, Call(c, k, force)
  PROVE  LedgerInv'
<1> DEFINE hit == ~force /\ k \in DOMAIN bodies.entries
           x == [pc |-> IF hit THEN "validate" ELSE "stat", key |-> k, force |-> force,
                 since |-> disk[k], current |-> TRUE,
                 entry |-> IF hit THEN bodies.entries[k] ELSE NoEntry,
                 token |-> NoToken, job |-> "none"]
<1>1. call' = [call EXCEPT ![c] = x] /\ bodies' = (IF hit THEN Touched(bodies, k) ELSE bodies)
      /\ UNCHANGED <<disk, read, sweep, floor>>
  BY DEF Call
<1>2. x \in CallTyped /\ x.pc # "wait"
  <2>1. disk[k] \in BodyVersion /\ (hit => bodies.entries[k] \in Entry)
    BY DEF LedgerInv, VersionsTyped, Bounded, Ledger
  <2> HIDE DEF hit
  <2> QED
    BY <2>1, Fixed DEF CallTyped
<1> HIDE DEF x
<1>3. CallsTyped'
  BY <1>1, <1>2, CallsSet DEF LedgerInv, CallsTyped
<1>4. Bounded(bodies)'
  <2>1. CASE hit
    <3> DEFINE d == Touched(bodies, k)
    <3>1. Ledger(d) /\ d.bytes = bodies.bytes /\ Len(d.queue) <= Len(bodies.queue) /\ bodies' = d
      BY <1>1, <2>1, TouchedStep DEF LedgerInv, Bounded
    <3>2. Len(d.queue) \in Nat /\ Len(bodies.queue) \in Nat /\ MaxProjects \in Nat
      BY <3>1, ConstantsAssumption DEF LedgerInv, Bounded, Ledger
    <3> HIDE DEF d
    <3> QED
      BY <3>1, <3>2 DEF LedgerInv, Bounded
  <2>2. CASE ~hit
    BY <1>1, <2>2 DEF LedgerInv
  <2> QED
    BY <2>1, <2>2
<1> QED
  BY <1>1, <1>3, <1>4 DEF LedgerInv, VersionsTyped, SweepsTyped, SweepTyped

LEMMA ValidateLedger ==
  ASSUME LedgerInv, NEW c \in Caller, NEW token \in Token, Validate(c, token) \/ StatMiss(c, token)
  PROVE  LedgerInv'
<1>1. UNCHANGED <<disk, bodies, sweep, floor>>
  BY DEF Validate, StatMiss
<1>2. Ask(c, token) \/ (read' = read /\ (call' = [call EXCEPT ![c] = NoCall] \/ call' = [call EXCEPT ![c] = Served]))
  BY DEF Validate, StatMiss
<1>3. CallsTyped'
  <2>1. CASE Ask(c, token)
    BY <2>1, AskTyped DEF LedgerInv
  <2>2. ASSUME NEW x \in {NoCall, Served}, read' = read, call' = [call EXCEPT ![c] = x] PROVE CallsTyped'
    <3>1. x \in CallTyped /\ x.pc # "wait"
      BY Fixed
    <3> QED
      BY <2>2, <3>1, CallsSet DEF LedgerInv, CallsTyped
  <2> QED
    BY <1>2, <2>1, <2>2
<1> QED
  BY <1>1, <1>3 DEF LedgerInv, VersionsTyped, SweepsTyped, SweepTyped

LEMMA ReadLedger ==
  ASSUME LedgerInv, NEW c \in Caller, Read(c)
  PROVE  LedgerInv'
<1> DEFINE x == [read[c] EXCEPT !.pc = "read", !.body = disk[call[c].key]]
<1>1. read' = [read EXCEPT ![c] = x] /\ UNCHANGED <<disk, bodies, call, sweep, floor>>
  BY DEF Read
<1>2. x \in ReadTyped
  <2>1. read[c] \in ReadTyped /\ call[c].key \in Key
    BY DEF LedgerInv, CallsTyped, CallTyped
  <2>2. disk[call[c].key] \in BodyVersion
    BY <2>1 DEF LedgerInv, VersionsTyped
  <2> QED
    BY <2>1, <2>2 DEF ReadTyped
<1> HIDE DEF x
<1>3. CallsTyped'
  BY <1>1, <1>2 DEF LedgerInv, CallsTyped
<1> QED
  BY <1>1, <1>3 DEF LedgerInv, VersionsTyped, SweepsTyped, SweepTyped

\* A reply that is stored: put, then the bucket's own limit, then the queue's.
LEMMA StoredBounded ==
  ASSUME NEW ca, Bounded(ca), NEW k \in Key, NEW e \in Entry
  PROVE  LET put == Touched(Added(ca, k, e), k)
             kept == Dropped(put, Overflow(put, ProjectOf[k])) IN
         Bounded(Dropped(kept, Surplus(kept)))
<1> DEFINE p == ProjectOf[k]
           put == Touched(Added(ca, k, e), k)
           kept == Dropped(put, Overflow(put, p))
           d == Dropped(kept, Surplus(kept))
<1>1. p \in Project /\ ByteLimit \in Nat
  BY ConstantsAssumption
<1>2. Ledger(put) /\ \A r \in Project : r # p => put.bytes[r] = ca.bytes[r]
  BY PutStep DEF Bounded
<1> HIDE DEF put, p
<1>3. Ledger(kept) /\ (\A r \in Project : kept.bytes[r] <= put.bytes[r]) /\ kept.bytes[p] <= ByteLimit
  <2>1. Overflow(put, p) \subseteq DOMAIN put.entries /\ kept.bytes[p] <= ByteLimit
    BY <1>1, <1>2, OverflowStep
  <2> QED
    BY <1>2, <2>1, DroppedStep
<1> HIDE DEF kept
<1>4. Ledger(d) /\ (\A r \in Project : d.bytes[r] <= kept.bytes[r]) /\ Len(d.queue) <= MaxProjects
  <2>1. Surplus(kept) \subseteq DOMAIN kept.entries /\ Len(d.queue) <= MaxProjects
    BY <1>3, SurplusStep
  <2> QED
    BY <1>3, <2>1, DroppedStep
<1> HIDE DEF d
<1>5. ASSUME NEW r \in Project PROVE d.bytes[r] <= ByteLimit
  <2>1. d.bytes[r] \in Nat /\ kept.bytes[r] \in Nat /\ put.bytes[r] \in Nat /\ ca.bytes[r] \in Nat
    BY <1>2, <1>3, <1>4 DEF Bounded, Ledger
  <2>2. d.bytes[r] <= kept.bytes[r] /\ kept.bytes[r] <= put.bytes[r]
    BY <1>3, <1>4
  <2>3. CASE r = p
    BY <1>1, <1>3, <2>1, <2>2, <2>3
  <2>4. CASE r # p
    <3>1. put.bytes[r] = ca.bytes[r] /\ ca.bytes[r] <= ByteLimit
      BY <1>2, <2>4 DEF Bounded
    <3> QED
      BY <1>1, <2>1, <2>2, <3>1
  <2> QED
    BY <2>3, <2>4
<1>6. Bounded(d)
  BY <1>4, <1>5 DEF Bounded
<1> QED
  BY <1>6 DEF d, kept, put, p

LEMMA ReplyLedger ==
  ASSUME LedgerInv, NEW c \in Caller, NEW ok \in BOOLEAN, Reply(c, ok)
  PROVE  LedgerInv'
<1> DEFINE job == call[c].job
           k == call[c].key
           put == Touched(Added(bodies, k, Item(c)), k)
           over == Overflow(put, ProjectOf[k])
           kept == Dropped(put, over)
           tail == Surplus(kept)
           others == {d \in Caller \ {c} : call[d].pc = "wait" /\ call[d].job = job}
           done == [call EXCEPT ![c] = IF ok THEN Served ELSE NoCall]
           P == {ProjectOf[j] : j \in over \cup tail}
<1>1. /\ call[c].pc = "wait"
      /\ read' = [read EXCEPT ![job] = IF others = {} THEN NoRead
                                       ELSE [@ EXCEPT !.pc = "replied", !.ok = ok]]
      /\ UNCHANGED <<disk, sweep, floor>>
  BY DEF Reply
<1>2. \/ bodies' = Dropped(kept, tail) /\ call' = Bumped(done, P)
      \/ call' = done /\ bodies' = bodies
  BY DEF Reply
<1>3. job \in Caller /\ k \in Key /\ call[c] \in CallTyped /\ read[job] \in ReadTyped
  BY <1>1 DEF LedgerInv, CallsTyped, CallTyped
<1>4. Item(c) \in Entry
  <2>1. read[job].body \in BodyVersion /\ call[c].token \in Token
    BY <1>3 DEF CallTyped, ReadTyped
  <2>2. Size[k][read[job].body] \in Nat
    BY <1>3, <2>1, ConstantsAssumption
  <2> QED
    BY <2>1, <2>2 DEF Item, Entry
<1>5. Bounded(Dropped(kept, tail))
  BY <1>3, <1>4, StoredBounded DEF LedgerInv
<1>6. /\ done \in [Caller -> CallTyped]
      /\ \A d \in Caller : done[d].pc = "wait" => done[d].job \in Caller
  <2> DEFINE x == IF ok THEN Served ELSE NoCall
  <2>1. x \in CallTyped /\ x.pc # "wait"
    BY Fixed
  <2>2. done = [call EXCEPT ![c] = x]
    OBVIOUS
  <2> HIDE DEF x, done
  <2> QED
    BY <2>1, <2>2, CallsSet DEF LedgerInv, CallsTyped
<1>7. read' \in [Caller -> ReadTyped]
  <2> DEFINE x == IF others = {} THEN NoRead ELSE [read[job] EXCEPT !.pc = "replied", !.ok = ok]
  <2>1. x \in ReadTyped
    <3>1. [read[job] EXCEPT !.pc = "replied", !.ok = ok] \in ReadTyped
      <4> HIDE DEF job
      <4> QED
        BY <1>3 DEF ReadTyped
    <3> QED
      BY <3>1, Fixed
  <2>2. read' = [read EXCEPT ![job] = x]
    BY <1>1
  <2> HIDE DEF x, job
  <2> QED
    BY <1>3, <2>1, <2>2 DEF LedgerInv, CallsTyped
<1> HIDE DEF done, P, kept, tail, over, put, others
<1>8. CallsTyped'
  <2>1. CASE call' = Bumped(done, P)
    BY <1>6, <1>7, <2>1, BumpedTyped DEF CallsTyped
  <2>2. CASE call' = done
    BY <1>6, <1>7, <2>2 DEF CallsTyped
  <2> QED
    BY <1>2, <2>1, <2>2
<1>9. Bounded(bodies)'
  BY <1>2, <1>5 DEF LedgerInv
<1> QED
  BY <1>1, <1>8, <1>9 DEF LedgerInv, VersionsTyped, SweepsTyped, SweepTyped

LEMMA DroppedBounded ==
  ASSUME NEW ca, Bounded(ca), NEW S, S \subseteq DOMAIN ca.entries
  PROVE  Bounded(Dropped(ca, S))
<1> DEFINE d == Dropped(ca, S)
<1>1. Ledger(d) /\ (\A p \in Project : d.bytes[p] <= ca.bytes[p]) /\ Len(d.queue) <= Len(ca.queue)
  BY DroppedStep DEF Bounded
<1> HIDE DEF d
<1>2. Len(d.queue) \in Nat /\ Len(ca.queue) \in Nat /\ MaxProjects \in Nat /\ ByteLimit \in Nat
  BY <1>1, ConstantsAssumption DEF Bounded, Ledger
<1>3. \A p \in Project : d.bytes[p] \in Nat /\ ca.bytes[p] \in Nat
  BY <1>1 DEF Bounded, Ledger
<1>4. Bounded(d)
  BY <1>1, <1>2, <1>3 DEF Bounded
<1> QED
  BY <1>4 DEF d

LEMMA RevalidatedLedger ==
  ASSUME LedgerInv, NEW p, NEW S, S \subseteq DOMAIN bodies.entries, Revalidated(p, S),
         UNCHANGED read
  PROVE  Bounded(bodies)' /\ CallsTyped'
<1>1. Bounded(bodies)'
  BY DroppedBounded DEF LedgerInv, Revalidated
<1>2. call' = call \/ call' = Bumped(call, {p})
  BY DEF Revalidated
<1>3. CallsTyped'
  BY <1>2, BumpedTyped DEF LedgerInv, CallsTyped
<1> QED
  BY <1>1, <1>3

LEMMA EditLedger ==
  ASSUME LedgerInv, NEW k \in Key, Edit(k)
  PROVE  LedgerInv'
<1>1. disk[k] < LastVersion[k] /\ disk' = [disk EXCEPT ![k] = @ + 1]
      /\ UNCHANGED <<bodies, call, read, sweep, floor>>
  BY DEF Edit
<1>2. disk[k] + 1 \in BodyVersion
  <2>1. disk[k] \in Nat /\ LastVersion[k] \in Nat
    BY Versions, ConstantsAssumption DEF LedgerInv, VersionsTyped
  <2>2. disk[k] + 1 \in Nat /\ disk[k] + 1 <= LastVersion[k]
    BY <1>1, <2>1
  <2> QED
    BY <2>2, Versions
<1>3. VersionsTyped'
  BY <1>1, <1>2 DEF LedgerInv, VersionsTyped
<1> QED
  BY <1>1, <1>3 DEF LedgerInv, CallsTyped, SweepsTyped, SweepTyped

LEMMA EvictLedger ==
  ASSUME LedgerInv, NEW p \in Project, NEW files, Evict(p, files)
  PROVE  LedgerInv'
<1> DEFINE gone == {k \in KeysOf(bodies, p) : FileOf[k] \in files}
<1>1. UNCHANGED <<disk, read, sweep, floor>> /\ gone \subseteq DOMAIN bodies.entries
      /\ Revalidated(p, gone)
  BY DEF Evict, KeysOf
<1> HIDE DEF gone
<1> QED
  BY <1>1, RevalidatedLedger DEF LedgerInv, VersionsTyped, SweepsTyped, SweepTyped

LEMMA WipeLedger ==
  ASSUME LedgerInv, NEW p \in Project, Wipe(p)
  PROVE  LedgerInv'
<1>1. /\ bodies' = Dropped(bodies, KeysOf(bodies, p)) /\ call' = Bumped(call, {p})
      /\ floor' = [k \in Key |-> IF ProjectOf[k] = p THEN disk[k] ELSE floor[k]]
      /\ UNCHANGED <<disk, read, sweep>>
  BY DEF Wipe
<1>2. Bounded(bodies)'
  <2>1. KeysOf(bodies, p) \subseteq DOMAIN bodies.entries
    BY DEF KeysOf
  <2> QED
    BY <1>1, <2>1, DroppedBounded DEF LedgerInv
<1>3. CallsTyped'
  BY <1>1, BumpedTyped DEF LedgerInv, CallsTyped
<1>4. VersionsTyped'
  BY <1>1 DEF LedgerInv, VersionsTyped
<1> QED
  BY <1>1, <1>2, <1>3, <1>4 DEF LedgerInv, SweepsTyped, SweepTyped

LEMMA SweepStartLedger ==
  ASSUME LedgerInv, NEW s \in Sweeper, NEW p \in Project, SweepStart(s, p)
  PROVE  LedgerInv'
<1> DEFINE keys == {k \in KeysOf(bodies, p) : Backing[k] = "worktree"}
           x == [project |-> p, left |-> keys, tokens |-> <<>>, on |-> TRUE]
<1>1. sweep' = [sweep EXCEPT ![s] = x] /\ UNCHANGED <<disk, bodies, call, read, floor>>
  BY DEF SweepStart
<1>2. keys \subseteq Key
  BY DEF KeysOf, LedgerInv, Bounded, Ledger
<1>3. SweepTyped(x)
  <2> HIDE DEF keys
  <2> QED
    BY <1>2 DEF SweepTyped
<1> HIDE DEF x
<1>4. SweepsTyped'
  BY <1>1, <1>3 DEF LedgerInv, SweepsTyped
<1> QED
  BY <1>1, <1>4 DEF LedgerInv, VersionsTyped, CallsTyped

LEMMA SweepExcept ==
  ASSUME NEW a, NEW p, NEW l, NEW t, NEW m, NEW u
  PROVE  [[on |-> a, project |-> p, left |-> l, tokens |-> t] EXCEPT !.left = m, !.tokens = u]
           = [on |-> a, project |-> p, left |-> m, tokens |-> u]
<1> DEFINE d == [[on |-> a, project |-> p, left |-> l, tokens |-> t] EXCEPT !.left = m, !.tokens = u]
<1>1. d.on = a /\ d.project = p /\ d.left = m /\ d.tokens = u
  OBVIOUS
<1>2. DOMAIN d = {"on", "project", "left", "tokens"} /\ d = [f \in DOMAIN d |-> d[f]]
  OBVIOUS
<1> HIDE DEF d
<1>3. d = [on |-> a, project |-> p, left |-> m, tokens |-> u]
  BY <1>1, <1>2, SMT
<1> QED
  BY <1>3 DEF d

LEMMA SweepStatLedger ==
  ASSUME LedgerInv, NEW s \in Sweeper, NEW k \in Key, NEW token \in Token, SweepStat(s, k, token)
  PROVE  LedgerInv'
<1> DEFINE y == sweep[s]
           x == [y EXCEPT !.left = @ \ {k}, !.tokens = (k :> token) @@ @]
<1>1. sweep' = [sweep EXCEPT ![s] = x] /\ UNCHANGED <<disk, bodies, call, read, floor>>
  BY DEF SweepStat
<1>2. SweepTyped(x)
  <2>1. SweepTyped(y)
    BY DEF LedgerInv, SweepsTyped
  <2> DEFINE tk == (k :> token) @@ y.tokens
             lf == y.left \ {k}
  <2>2. x = [y EXCEPT !.left = lf, !.tokens = tk]
    OBVIOUS
  <2>3. lf \subseteq Key /\ y.project \in Project
    BY <2>1 DEF SweepTyped
  <2> HIDE DEF tk, lf, x, y
  <2>4. x = [on |-> y.on, project |-> y.project, left |-> lf, tokens |-> tk]
    <3>1. y = [on |-> y.on, project |-> y.project, left |-> y.left, tokens |-> y.tokens]
      BY <2>1 DEF SweepTyped
    <3>2. [y EXCEPT !.left = lf, !.tokens = tk]
            = [[on |-> y.on, project |-> y.project, left |-> y.left, tokens |-> y.tokens]
                 EXCEPT !.left = lf, !.tokens = tk]
      BY <3>1
    <3> QED
      BY <2>2, <3>2, SweepExcept
  <2> QED
    BY <2>3, <2>4 DEF SweepTyped
<1> HIDE DEF x
<1>3. SweepsTyped'
  BY <1>1, <1>2 DEF LedgerInv, SweepsTyped
<1> QED
  BY <1>1, <1>3 DEF LedgerInv, VersionsTyped, CallsTyped

LEMMA SweepEndLedger ==
  ASSUME LedgerInv, NEW s \in Sweeper, SweepEnd(s)
  PROVE  LedgerInv'
<1> DEFINE p == sweep[s].project
           S == {k \in KeysOf(bodies, p) : Stale(sweep[s].tokens, k, bodies.entries[k])}
<1>1. Revalidated(p, S) /\ sweep' = [sweep EXCEPT ![s] = NoSweep] /\ UNCHANGED <<disk, read, floor>>
  BY DEF SweepEnd
<1>2. S \subseteq DOMAIN bodies.entries
  BY DEF KeysOf
<1> HIDE DEF S, p
<1>3. Bounded(bodies)' /\ CallsTyped'
  BY <1>1, <1>2, RevalidatedLedger
<1>4. SweepsTyped'
  BY <1>1, Fixed DEF LedgerInv, SweepsTyped
<1> QED
  BY <1>1, <1>3, <1>4 DEF LedgerInv, VersionsTyped

LEMMA InitLedger == ContentInit => LedgerInv
<1> SUFFICES ASSUME ContentInit PROVE LedgerInv
  OBVIOUS
<1>1. VersionsTyped
  BY Versions DEF ContentInit, VersionsTyped
<1>2. CallsTyped
  BY Fixed DEF ContentInit, CallsTyped
<1>3. SweepsTyped
  BY Fixed DEF ContentInit, SweepsTyped
<1>4. Ledger(bodies)
  <2>1. bodies.entries = <<>> /\ bodies.touched = <<>> /\ bodies.queue = <<>>
        /\ bodies.bytes = [p \in Project |-> 0]
        /\ bodies = [entries |-> bodies.entries, bytes |-> bodies.bytes,
                     touched |-> bodies.touched, queue |-> bodies.queue]
    BY DEF ContentInit
  <2>2. DOMAIN bodies.entries = {} /\ \A p : KeysOf(bodies, p) = {}
    BY <2>1 DEF KeysOf
  <2>3. Sizes(bodies, {}) = 0
    BY FS_EmptySet, SizesChosen
  <2>4. IsInjective(bodies.touched) /\ IsInjective(bodies.queue) /\ ToSet(bodies.queue) = {}
    BY <2>1 DEF IsInjective, ToSet
  <2>5. <<>> \in Seq(Key) /\ <<>> \in Seq(Project)
    OBVIOUS
  <2>6. \A p \in Project : bodies.bytes[p] = Sizes(bodies, KeysOf(bodies, p))
    BY <2>1, <2>2, <2>3
  <2>7. bodies.bytes \in [Project -> Nat]
    BY <2>1
  <2>8. ToSet(bodies.queue) = {ProjectOf[k] : k \in DOMAIN bodies.entries}
    BY <2>2, <2>4
  <2> QED
    BY <2>1, <2>2, <2>4, <2>5, <2>6, <2>7, <2>8 DEF Ledger
<1>5. Bounded(bodies)
  BY <1>4, ConstantsAssumption DEF ContentInit, Bounded
<1> QED
  BY <1>1, <1>2, <1>3, <1>5 DEF LedgerInv

LEMMA NextLedger == LedgerInv /\ [ContentNext /\ Doubt]_cacheVars => LedgerInv'
<1> SUFFICES ASSUME LedgerInv, [ContentNext /\ Doubt]_cacheVars PROVE LedgerInv'
  OBVIOUS
<1>1. CASE UNCHANGED cacheVars
  BY <1>1 DEF cacheVars, contentVars, LedgerInv, VersionsTyped, CallsTyped, SweepsTyped, SweepTyped
<1>2. CASE ContentNext
  BY <1>2, CallLedger, ValidateLedger, ReadLedger, ReplyLedger, EditLedger, EvictLedger, WipeLedger,
     SweepStartLedger, SweepStatLedger, SweepEndLedger DEF ContentNext
<1> QED
  BY <1>1, <1>2

\* The counters put and evictWithinProjectIfOverLimit keep are those of what is
\* held, the limits on bytes and on buckets hold after every call, sweep and
\* mutation, and projectQueue lists each bucket that holds something once.
THEOREM LedgerTheorem == ContentSpec => []LedgerExact
BY InitLedger, NextLedger, LedgerInvImplies, PTL DEF ContentSpec

=============================================================================
