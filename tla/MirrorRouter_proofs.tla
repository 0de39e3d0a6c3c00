------------------------- MODULE MirrorRouter_proofs -------------------------
(***************************************************************************)
(* The counts of the router, for any finite sets of windows, terminals and *)
(* directories and any number of subscriptions, probes and crashes: they   *)
(* add up, and nothing that is still shown is released.                    *)
(***************************************************************************)
EXTENDS MirrorRouter, FiniteSetTheorems, TLAPS

\* A window that does not navigate holds what the router counts for it.
ViewsCounted == \A r \in Renderer : ~navigating[r] => \A c \in Cwd : subs[r][c] >= held[r][c]

\* The main process's share covers the terminals; a directory is a subscriber's.
TerminalsCounted ==
  /\ \A c \in Cwd : tables.own[c] >= Cardinality(Terminals(c))
  /\ \A t \in Terminal : entry[t].cwd # None => entry[t].on

\* Continuations wait for probes there have been.
ProbesCounted == \A t \in Terminal : waiting[t] <= probes

\* The inductive invariant: a release takes 1 from a count that stands for the
\* one who releases, which the shares tell apart for windows and terminals.
IInv == TypeOK /\ SharesAddUp /\ ViewsCounted /\ TerminalsCounted /\ ProbesCounted

-----------------------------------------------------------------------------
(* Counting: sets that differ in one element, and sequences of a finite set *)

Subscribers(c) == {r \in Renderer : subs[r][c] > 0}

LEMMA ConstantTypes ==
  /\ MaxAttempts \in Nat /\ MaxHold \in Nat /\ MaxProbes \in Nat /\ MaxCrashes \in Nat
  /\ MaxInbox \in Nat
  /\ IsFiniteSet(Terminal) /\ IsFiniteSet(Renderer) /\ IsFiniteSet(Cwd) /\ None \notin Cwd
BY RouterAssumption, FiniteAssumption, NoneIsNoCwd

LEMMA CountsAreNat ==
  ASSUME NEW c \in Cwd
  PROVE  /\ IsFiniteSet(Terminals(c)) /\ Cardinality(Terminals(c)) \in Nat
         /\ IsFiniteSet(Subscribers(c)) /\ Cardinality(Subscribers(c)) \in Nat
<1>1. Terminals(c) \in SUBSET Terminal /\ Subscribers(c) \in SUBSET Renderer
  BY DEF Terminals, Subscribers
<1>2. IsFiniteSet(Terminals(c)) /\ IsFiniteSet(Subscribers(c))
  BY <1>1, FS_Subset, ConstantTypes
<1> QED BY <1>2, FS_CardinalityType

One(b) == IF b THEN 1 ELSE 0

\* A set without x is smaller by x.
LEMMA WithoutOne ==
  ASSUME NEW S, NEW x, IsFiniteSet(S)
  PROVE  /\ Cardinality(S) \in Nat /\ Cardinality(S \ {x}) \in Nat
         /\ Cardinality(S) = Cardinality(S \ {x}) + One(x \in S)
<1>1. IsFiniteSet(S \ {x}) /\ Cardinality(S) \in Nat
      /\ Cardinality(S \ {x}) = IF x \in S THEN Cardinality(S) - 1 ELSE Cardinality(S)
  BY FS_RemoveElement, FS_CardinalityType
<1>2. Cardinality(S \ {x}) \in Nat
  BY <1>1, FS_CardinalityType
<1> QED BY <1>1, <1>2 DEF One

\* The messages to a set of directories are a sequence of messages.
LEMMA ToEachTyped ==
  ASSUME NEW C \in SUBSET Cwd, NEW kind \in {"attach-watch", "detach-watch"}
  PROVE  ToEach(kind, C) \in Seq(Messages)
<1> DEFINE M == {Message(kind, c) : c \in C}
           f == [c \in C |-> Message(kind, c)]
<1>1. IsFiniteSet(C)
  BY FS_Subset, ConstantTypes
<1>2. f \in Surjection(C, M)
  BY DEF Surjection
<1>3. M \subseteq Messages
  BY DEF Message, Messages
<1>4. ToEach(kind, C) = SetToSeq(M)
  BY DEF ToEach
<1> HIDE DEF M, f
<1>5. IsFiniteSet(M)
  BY <1>1, <1>2, FS_Surjection
<1>6. Cardinality(M) \in Nat /\ ExistsBijection(1..Cardinality(M), M)
  BY <1>5, FS_CardinalityType
<1>7. \E g \in [1..Cardinality(M) -> M] : IsInjective(g)
  BY <1>6 DEF ExistsBijection, Bijection, Injection, IsInjective
<1>8. SetToSeq(M) \in [1..Cardinality(M) -> M]
  BY <1>7 DEF SetToSeq
<1>9. SetToSeq(M) \in Seq(M)
  BY <1>6, <1>8
<1> QED BY <1>3, <1>4, <1>9

-----------------------------------------------------------------------------
(* What the functions from tables to tables do to the counts *)

\* Tables with other counts: nothing else of them changes.
WithRef(T, f) == [T EXCEPT !.ref = f]
WithOwn(T, f) == [T EXCEPT !.own = f]

LEMMA CountTables ==
  ASSUME NEW T \in Tables, NEW f \in [Cwd -> Nat]
  PROVE  /\ WithRef(T, f) \in Tables /\ WithRef(T, f).own = T.own /\ WithRef(T, f).ref = f
         /\ WithOwn(T, f) \in Tables /\ WithOwn(T, f).ref = T.ref /\ WithOwn(T, f).own = f
BY DEF Tables, WithRef, WithOwn

LEMMA CountsTyped ==
  ASSUME NEW T \in Tables, NEW c \in Cwd, NEW n \in Int
  PROVE  /\ T.ref[c] \in Nat /\ T.own[c] \in Nat
         /\ T.ref[c] + n \in Nat => [T.ref EXCEPT ![c] = @ + n] \in [Cwd -> Nat]
         /\ T.own[c] + n \in Nat => [T.own EXCEPT ![c] = @ + n] \in [Cwd -> Nat]
<1>1. T.ref \in [Cwd -> Nat] /\ T.own \in [Cwd -> Nat]
  BY DEF Tables
<1> QED BY <1>1

LEMMA PostTables ==
  ASSUME NEW T \in Tables, NEW m \in Messages
  PROVE  /\ postToWorker(T, m) \in Tables
         /\ postToWorker(T, m).ref = T.ref /\ postToWorker(T, m).own = T.own
<1>1. T.inbox \in Seq(Messages)
  BY DEF Tables
<1>2. Append(T.inbox, m) \in Seq(Messages)
  BY <1>1
<1>3. postToWorker(T, m) = IF worker = "none" THEN T ELSE [T EXCEPT !.inbox = Append(T.inbox, m)]
  BY DEF postToWorker
<1> QED BY <1>1, <1>2, <1>3 DEF Tables

LEMMA MessageTyped ==
  /\ \A c \in Cwd : Message("attach-watch", c) \in Messages /\ Message("detach-watch", c) \in Messages
  /\ \A c \in Cwd \cup {None} : Message("reconcile-focus", c) \in Messages
BY DEF Message, Messages

LEMMA RetainTables ==
  ASSUME NEW T \in Tables, NEW c \in Cwd
  PROVE  /\ Retain(T, c) \in Tables /\ Retain(T, c).own = T.own
         /\ Retain(T, c).ref = [T.ref EXCEPT ![c] = @ + 1]
<1> DEFINE f == [T.ref EXCEPT ![c] = @ + 1]
           U == WithRef(T, f)
<1>1. f \in [Cwd -> Nat]
  BY CountsTyped
<1>2. Retain(T, c) \in {U, postToWorker(U, Message("attach-watch", c))}
  BY DEF Retain, WithRef
<1> HIDE DEF f
<1>3. U \in Tables /\ U.own = T.own /\ U.ref = f
  BY <1>1, CountTables
<1> HIDE DEF U
<1>4. Retain(T, c) \in Tables /\ Retain(T, c).own = T.own /\ Retain(T, c).ref = f
  BY <1>2, <1>3, PostTables, MessageTyped
<1> QED BY <1>4 DEF f

LEMMA ReleaseTables ==
  ASSUME NEW T \in Tables, NEW c \in Cwd, T.ref[c] > 0
  PROVE  /\ Release(T, c) \in Tables /\ Release(T, c).own = T.own
         /\ Release(T, c).ref = [T.ref EXCEPT ![c] = @ - 1]
<1> DEFINE f == [T.ref EXCEPT ![c] = @ - 1]
           U == WithRef(T, f)
<1>1. f \in [Cwd -> Nat]
  BY DEF Tables
<1>2. Release(T, c) \in {U, postToWorker(U, Message("detach-watch", c))}
  BY DEF Release, WithRef
<1> HIDE DEF f
<1>3. U \in Tables /\ U.own = T.own /\ U.ref = f
  BY <1>1, CountTables
<1> HIDE DEF U
<1>4. Release(T, c) \in Tables /\ Release(T, c).own = T.own /\ Release(T, c).ref = f
  BY <1>2, <1>3, PostTables, MessageTyped
<1> QED BY <1>4 DEF f

\* n more subscriptions of the main process: both counts rise by n.
Rises(T, U, c, n) ==
  /\ U \in Tables
  /\ \A d \in Cwd : /\ U.ref[d] = T.ref[d] + (IF d = c THEN n ELSE 0)
                    /\ U.own[d] = T.own[d] + (IF d = c THEN n ELSE 0)

LEMMA SubscribeTables ==
  ASSUME NEW T \in Tables, NEW c \in Cwd
  PROVE  Rises(T, internalSubscribe(T, c), c, 1)
<1> DEFINE f == [T.own EXCEPT ![c] = @ + 1]
           U == WithOwn(T, f)
<1>1. f \in [Cwd -> Nat]
  BY CountsTyped
<1>2. internalSubscribe(T, c) = Retain(U, c)
  BY DEF internalSubscribe, WithOwn
<1>3. \A d \in Cwd : f[d] = T.own[d] + (IF d = c THEN 1 ELSE 0)
  BY DEF Tables
<1> HIDE DEF f
<1>4. U \in Tables /\ U.ref = T.ref /\ U.own = f
  BY <1>1, CountTables
<1> HIDE DEF U
<1>5. /\ Retain(U, c) \in Tables /\ Retain(U, c).own = f
      /\ Retain(U, c).ref = [T.ref EXCEPT ![c] = @ + 1]
  BY <1>4, RetainTables
<1>6. \A d \in Cwd : [T.ref EXCEPT ![c] = @ + 1][d] = T.ref[d] + (IF d = c THEN 1 ELSE 0)
  BY DEF Tables
<1> QED BY <1>2, <1>3, <1>5, <1>6 DEF Rises

LEMMA UnsubscribeTables ==
  ASSUME NEW T \in Tables, NEW c \in Cwd, T.own[c] > 0, T.ref[c] > 0
  PROVE  Rises(T, internalUnsubscribe(T, c), c, -1)
<1> DEFINE f == [T.own EXCEPT ![c] = @ - 1]
           U == WithOwn(T, f)
<1>1. f \in [Cwd -> Nat]
  BY DEF Tables
<1>2. internalUnsubscribe(T, c) = Release(U, c)
  BY DEF internalUnsubscribe, WithOwn
<1>3. \A d \in Cwd : f[d] = T.own[d] + (IF d = c THEN -1 ELSE 0)
  BY DEF Tables
<1> HIDE DEF f
<1>4. U \in Tables /\ U.ref = T.ref /\ U.own = f
  BY <1>1, CountTables
<1> HIDE DEF U
<1>5. /\ Release(U, c) \in Tables /\ Release(U, c).own = f
      /\ Release(U, c).ref = [T.ref EXCEPT ![c] = @ - 1]
  BY <1>4, ReleaseTables
<1>6. \A d \in Cwd : [T.ref EXCEPT ![c] = @ - 1][d] = T.ref[d] + (IF d = c THEN -1 ELSE 0)
  BY DEF Tables
<1> QED BY <1>2, <1>3, <1>5, <1>6 DEF Rises

LEMMA SubscribeTimesTables ==
  ASSUME NEW T \in Tables, NEW c \in Cwd, NEW n \in Nat
  PROVE  Rises(T, internalSubscribeTimes(T, c, n), c, n)
<1>1. CASE n = 0
  <2>1. internalSubscribeTimes(T, c, n) = T
    BY <1>1 DEF internalSubscribeTimes
  <2> QED BY <1>1, <2>1 DEF Rises, Tables
<1>2. CASE n > 0
  <2> DEFINE U == internalSubscribe(T, c)
             f == [U.ref EXCEPT ![c] = @ + (n - 1)]
             g == [U.own EXCEPT ![c] = @ + (n - 1)]
             W == WithRef(U, f)
  <2>1. Rises(T, U, c, 1)
    BY SubscribeTables
  <2>2. internalSubscribeTimes(T, c, n) = WithOwn(W, g)
    <3>1. internalSubscribeTimes(T, c, n) = [U EXCEPT !.ref = f, !.own = g]
      BY <1>2 DEF internalSubscribeTimes
    <3> QED BY <3>1 DEF WithRef, WithOwn
  <2> HIDE DEF U
  <2>3. U \in Tables /\ U.ref \in [Cwd -> Nat] /\ U.own \in [Cwd -> Nat]
    BY <2>1 DEF Rises, Tables
  <2>4. /\ f \in [Cwd -> Nat] /\ g \in [Cwd -> Nat]
        /\ \A d \in Cwd : /\ f[d] = U.ref[d] + (IF d = c THEN n - 1 ELSE 0)
                          /\ g[d] = U.own[d] + (IF d = c THEN n - 1 ELSE 0)
    BY <1>2, <2>3
  <2> HIDE DEF f, g
  <2>5. W \in Tables /\ W.ref = f
    BY <2>3, <2>4, CountTables
  <2> HIDE DEF W
  <2>6. WithOwn(W, g) \in Tables /\ WithOwn(W, g).ref = f /\ WithOwn(W, g).own = g
    BY <2>4, <2>5, CountTables
  <2>7. \A d \in Cwd : T.ref[d] \in Nat /\ T.own[d] \in Nat
    BY CountsTyped
  <2>8. \A d \in Cwd : /\ f[d] = T.ref[d] + (IF d = c THEN n ELSE 0)
                       /\ g[d] = T.own[d] + (IF d = c THEN n ELSE 0)
    BY <1>2, <2>1, <2>4, <2>7 DEF Rises
  <2> QED BY <2>2, <2>6, <2>8 DEF Rises
<1> QED BY <1>1, <1>2
-----------------------------------------------------------------------------
(* The bridge.  The counts of T fit when terminal t is in directory d.      *)

Others(t, c) == Terminals(c) \ {t}

Fits(T, t, d) ==
  /\ T \in Tables
  /\ \A c \in Cwd : /\ T.ref[c] = T.own[c] + Cardinality(Subscribers(c))
                    /\ T.own[c] >= Cardinality(Others(t, c)) + One(c = d)

LEMMA OthersCounted ==
  ASSUME NEW t \in Terminal, NEW c \in Cwd
  PROVE  /\ Cardinality(Others(t, c)) \in Nat
         /\ Cardinality(Terminals(c)) = Cardinality(Others(t, c)) + One(entry[t].cwd = c)
<1>1. IsFiniteSet(Terminals(c))
  BY CountsAreNat
<1>2. /\ Cardinality(Others(t, c)) \in Nat
      /\ Cardinality(Terminals(c)) = Cardinality(Others(t, c)) + One(t \in Terminals(c))
  BY <1>1, WithoutOne DEF Others
<1>3. t \in Terminals(c) <=> entry[t].cwd = c
  BY DEF Terminals
<1> QED BY <1>2, <1>3 DEF One

LEMMA Stays ==
  ASSUME IInv, NEW t \in Terminal
  PROVE  Fits(tables, t, entry[t].cwd)
<1>1. \A c \in Cwd : One(entry[t].cwd = c) = One(c = entry[t].cwd)
  BY DEF One
<1> QED BY <1>1, OthersCounted DEF IInv, TypeOK, SharesAddUp, Subscribers, TerminalsCounted, Fits

LEMMA FitsRises ==
  ASSUME NEW t \in Terminal, NEW T \in Tables, NEW d \in Cwd \cup {None}, Fits(T, t, d),
         NEW c \in Cwd, NEW n \in Int, NEW e \in Cwd \cup {None}, NEW U, Rises(T, U, c, n),
         \A a \in Cwd : One(a = e) <= One(a = d) + (IF a = c THEN n ELSE 0)
  PROVE  Fits(U, t, e)
<1>1. \A a \in Cwd : /\ T.ref[a] \in Nat /\ T.own[a] \in Nat /\ U.ref[a] \in Nat /\ U.own[a] \in Nat
                     /\ Cardinality(Subscribers(a)) \in Nat /\ Cardinality(Others(t, a)) \in Nat
                     /\ One(a = d) \in Int /\ One(a = e) \in Int
  BY CountsAreNat, OthersCounted DEF Rises, Tables, One
<1> QED BY <1>1 DEF Fits, Rises

LEMMA DetachFits ==
  ASSUME IInv, NEW t \in Terminal
  PROVE  Fits(detachMirror(tables, t), t, None)
<1> DEFINE d == entry[t].cwd
<1>1. d \in Cwd \cup {None} /\ tables \in Tables /\ Fits(tables, t, d)
  BY Stays DEF IInv, TypeOK
<1>2. CASE d = None
  BY <1>1, <1>2 DEF detachMirror
<1>3. CASE d # None
  <2>1. d \in Cwd
    BY <1>1, <1>3
  <2>2. tables.own[d] > 0 /\ tables.ref[d] > 0
    <3>1. /\ Cardinality(Others(t, d)) \in Nat /\ Cardinality(Subscribers(d)) \in Nat
          /\ tables.own[d] \in Nat /\ tables.ref[d] \in Nat
      BY <1>1, <2>1, OthersCounted, CountsAreNat DEF Tables
    <3> QED BY <1>1, <2>1, <3>1 DEF Fits, One
  <2>3. Rises(tables, detachMirror(tables, t), d, -1)
    BY <1>1, <1>3, <2>1, <2>2, UnsubscribeTables DEF detachMirror
  <2>4. \A a \in Cwd : One(a = None) <= One(a = d) + (IF a = d THEN -1 ELSE 0)
    BY ConstantTypes DEF One
  <2> HIDE DEF d
  <2> QED BY <1>1, <2>1, <2>3, <2>4, FitsRises
<1> QED BY <1>2, <1>3

LEMMA AttachFits ==
  ASSUME NEW t \in Terminal, NEW T, Fits(T, t, None), NEW c \in Cwd
  PROVE  Fits(attachMirror(T, c), t, c)
<1>1. T \in Tables
  BY DEF Fits
<1>2. Rises(T, attachMirror(T, c), c, 1)
  BY <1>1, SubscribeTables DEF attachMirror
<1>3. \A a \in Cwd : One(a = c) <= One(a = None) + (IF a = c THEN 1 ELSE 0)
  BY ConstantTypes DEF One
<1> QED BY <1>1, <1>2, <1>3, FitsRises

LEMMA FocusFits ==
  ASSUME NEW t, NEW d, NEW T, Fits(T, t, d), NEW c \in Cwd \cup {None}
  PROVE  Fits(setReconcileFocus(T, c), t, d)
<1>1. T \in Tables
  BY DEF Fits
<1>2. /\ setReconcileFocus(T, c) \in Tables
      /\ setReconcileFocus(T, c).ref = T.ref /\ setReconcileFocus(T, c).own = T.own
  BY <1>1, PostTables, MessageTyped DEF setReconcileFocus
<1> QED BY <1>2 DEF Fits

LEMMA MovedFits ==
  ASSUME IInv, NEW t \in Terminal, NEW c \in Cwd
  PROVE  Fits(Moved(tables, t, c), t, IF entry[t].on THEN c ELSE None)
<1> DEFINE A == attachMirror(detachMirror(tables, t), c)
<1>1. Fits(A, t, c) /\ Fits(setReconcileFocus(A, c), t, c)
  BY DetachFits, AttachFits, FocusFits
<1>2. Moved(tables, t, c) = IF ~entry[t].on \/ entry[t].cwd = c THEN tables
                            ELSE IF t = focused THEN setReconcileFocus(A, c) ELSE A
  BY DEF Moved
<1> HIDE DEF A
<1>3. CASE ~entry[t].on
  <2>1. entry[t].cwd = None
    BY <1>3 DEF IInv, TerminalsCounted
  <2> QED BY <1>2, <1>3, <2>1, Stays
<1>4. CASE entry[t].on
  BY <1>1, <1>2, <1>4, Stays
<1> QED BY <1>3, <1>4

LEMMA TimesFits ==
  ASSUME NEW t \in Terminal, NEW d \in Cwd \cup {None}, NEW T, Fits(T, t, d), NEW c \in Cwd,
         NEW n \in Nat
  PROVE  Fits(internalSubscribeTimes(T, c, n), t, d)
<1>1. T \in Tables
  BY DEF Fits
<1>2. Rises(T, internalSubscribeTimes(T, c, n), c, n)
  BY <1>1, SubscribeTimesTables
<1>3. \A a \in Cwd : One(a = d) <= One(a = d) + (IF a = c THEN n ELSE 0)
  BY DEF One
<1> QED BY <1>1, <1>2, <1>3, FitsRises

\* A step of the bridge: t's entry, and counts that fit it.
LEMMA BridgeStep ==
  ASSUME IInv, NEW t \in Terminal, Fits(tables', t, entry'[t].cwd), UNCHANGED view,
         \A u \in Terminal \ {t} : entry'[u] = entry[u],
         entry'[t].cwd # None => entry'[t].on
  PROVE  SharesAddUp' /\ ViewsCounted' /\ TerminalsCounted'
<1>1. held' = held /\ navigating' = navigating /\ subs' = subs
  BY DEF view
<1>2. SharesAddUp' /\ ViewsCounted'
  BY <1>1 DEF IInv, SharesAddUp, ViewsCounted, Fits, Subscribers
<1>3. ASSUME NEW c \in Cwd PROVE tables'.own[c] >= Cardinality(Terminals(c)')
  <2> DEFINE B == {u \in Terminal : entry'[u].cwd = c}
  <2>1. B \ {t} = Others(t, c) /\ (t \in B <=> c = entry'[t].cwd) /\ B \in SUBSET Terminal
    BY DEF Others, Terminals
  <2>2. Terminals(c)' = B
    BY DEF Terminals
  <2> HIDE DEF B
  <2>3. IsFiniteSet(B)
    BY <2>1, FS_Subset, ConstantTypes
  <2>4. Cardinality(B) = Cardinality(B \ {t}) + One(t \in B)
    BY <2>3, WithoutOne
  <2>5. Cardinality(B) = Cardinality(Others(t, c)) + One(c = entry'[t].cwd)
    BY <2>1, <2>4 DEF One
  <2> QED BY <2>2, <2>5 DEF Fits
<1>4. \A u \in Terminal : entry'[u].cwd # None => entry'[u].on
  BY DEF IInv, TerminalsCounted
<1> QED BY <1>2, <1>3, <1>4 DEF TerminalsCounted

LEMMA pushTerminalCwdStep ==
  ASSUME IInv, NEW t \in Terminal, NEW c \in Cwd, pushTerminalCwd(t, c)
  PROVE  IInv'
<1>1. /\ UNCHANGED <<waiting, probes, focused, held, navigating, subs, worker, respawnTimer,
                     respawnAttempt, crashes, watch, focusKey>> /\ UNCHANGED view
      /\ terminalCwds' = [terminalCwds EXCEPT ![t] = c]
      /\ tables' = Moved(tables, t, c)
      /\ entry' = [entry EXCEPT ![t].cwd = IF entry[t].on THEN c ELSE @]
  BY DEF pushTerminalCwd, view, life, inside
<1>2. /\ entry' \in [Terminal -> [on : BOOLEAN, cwd : Cwd \cup {None}, waits : BOOLEAN]]
      /\ \A u \in Terminal \ {t} : entry'[u] = entry[u]
      /\ entry'[t].cwd = (IF entry[t].on THEN c ELSE None) /\ entry'[t].on = entry[t].on
  BY <1>1 DEF IInv, TypeOK, TerminalsCounted
<1>3. Fits(tables', t, entry'[t].cwd)
  BY <1>1, <1>2, MovedFits
<1>4. TypeOK'
  BY <1>1, <1>2, <1>3 DEF IInv, TypeOK, Fits
<1>5. SharesAddUp' /\ ViewsCounted' /\ TerminalsCounted'
  BY <1>1, <1>2, <1>3, BridgeStep, ConstantTypes
<1>6. ProbesCounted'
  BY <1>1 DEF IInv, ProbesCounted
<1> QED BY <1>4, <1>5, <1>6 DEF IInv

LEMMA BridgeSubscribeStep == ASSUME IInv, NEW t \in Terminal, BridgeSubscribe(t) PROVE IInv'
<1> DEFINE c == terminalCwds[t]
<1>1. /\ UNCHANGED <<terminalCwds, focused, held, navigating, subs, worker, respawnTimer,
                     respawnAttempt, crashes, watch, focusKey>> /\ UNCHANGED view
      /\ ~entry[t].on /\ entry[t].cwd = None /\ c \in Cwd \cup {None}
  BY DEF BridgeSubscribe, view, life, inside, IInv, TypeOK, TerminalsCounted
<1>2. /\ entry' \in [Terminal -> [on : BOOLEAN, cwd : Cwd \cup {None}, waits : BOOLEAN]]
      /\ \A u \in Terminal \ {t} : entry'[u] = entry[u]
      /\ entry'[t].cwd = c /\ entry'[t].on
  <2>1. PICK w \in BOOLEAN : entry' = [entry EXCEPT ![t] = [on |-> TRUE, cwd |-> c, waits |-> w]]
    BY DEF BridgeSubscribe
  <2>2. [on |-> TRUE, cwd |-> c, waits |-> w] \in [on : BOOLEAN, cwd : Cwd \cup {None}, waits : BOOLEAN]
    BY <1>1
  <2> HIDE DEF c
  <2> QED BY <2>1, <2>2 DEF IInv, TypeOK
<1>3. tables' = IF c = None THEN tables ELSE attachMirror(tables, c)
  BY DEF BridgeSubscribe
<1>4. Fits(tables, t, None)
  BY <1>1, Stays
<1>5. Fits(tables', t, entry'[t].cwd)
  BY <1>1, <1>2, <1>3, <1>4, AttachFits
<1>6. /\ waiting' \in [Terminal -> 0..MaxProbes] /\ probes' \in 0..MaxProbes
      /\ \A u \in Terminal : waiting'[u] <= probes'
  <2>1. /\ waiting \in [Terminal -> 0..MaxProbes] /\ probes \in 0..MaxProbes /\ MaxProbes \in Nat
        /\ \A u \in Terminal : waiting[u] <= probes
    BY ConstantTypes DEF IInv, TypeOK, ProbesCounted
  <2>2. \/ waiting' = waiting /\ probes' = probes
        \/ /\ waiting' = [waiting EXCEPT ![t] = @ + 1] /\ probes' = probes + 1
           /\ probes < MaxProbes
    BY DEF BridgeSubscribe
  <2> QED BY <2>1, <2>2
<1>7. TypeOK'
  BY <1>1, <1>2, <1>5, <1>6 DEF IInv, TypeOK, Fits
<1>8. SharesAddUp' /\ ViewsCounted' /\ TerminalsCounted'
  BY <1>1, <1>2, <1>5, BridgeStep
<1> QED BY <1>6, <1>7, <1>8 DEF IInv, ProbesCounted

LEMMA ProbeEndsStep ==
  ASSUME IInv, NEW t \in Terminal, NEW c \in Cwd \cup {None}, ProbeEnds(t, c)
  PROVE  IInv'
<1> DEFINE again == IF entry[t].on THEN waiting[t] ELSE 0
<1>1. /\ UNCHANGED <<probes, focused, held, navigating, subs, worker, respawnTimer,
                     respawnAttempt, crashes, watch, focusKey>> /\ UNCHANGED view
      /\ waiting' = [waiting EXCEPT ![t] = 0]
      /\ terminalCwds' \in [Terminal -> Cwd \cup {None}]
  BY DEF ProbeEnds, view, life, inside, IInv, TypeOK
<1>2. /\ entry' \in [Terminal -> [on : BOOLEAN, cwd : Cwd \cup {None}, waits : BOOLEAN]]
      /\ \A u \in Terminal \ {t} : entry'[u] = entry[u]
      /\ entry'[t].cwd = (IF entry[t].on /\ c # None THEN c ELSE entry[t].cwd)
      /\ entry'[t].on = entry[t].on
  BY DEF ProbeEnds, IInv, TypeOK
<1>3. again \in Nat /\ (entry[t].cwd # None => entry[t].on)
  BY ConstantTypes DEF IInv, TypeOK, TerminalsCounted
<1>4. Fits(tables', t, entry'[t].cwd)
  <2>1. CASE c = None
    BY <1>2, <2>1, Stays DEF ProbeEnds
  <2>2. CASE c # None
    <3> DEFINE d == IF entry[t].on THEN c ELSE None
    <3>1. tables' = internalSubscribeTimes(Moved(tables, t, c), c, again)
      BY <2>2 DEF ProbeEnds
    <3>2. Fits(Moved(tables, t, c), t, d) /\ d \in Cwd \cup {None} /\ c \in Cwd
      BY <2>2, MovedFits
    <3>3. entry'[t].cwd = d
      BY <1>2, <1>3, <2>2
    <3> HIDE DEF again, d
    <3> QED BY <1>3, <3>1, <3>2, <3>3, TimesFits
  <2> QED BY <2>1, <2>2
<1>5. /\ waiting' \in [Terminal -> 0..MaxProbes]
      /\ \A u \in Terminal : waiting'[u] <= probes'
  BY <1>1, ConstantTypes DEF IInv, TypeOK, ProbesCounted
<1>6. TypeOK'
  BY <1>1, <1>2, <1>4, <1>5 DEF IInv, TypeOK, Fits
<1>7. SharesAddUp' /\ ViewsCounted' /\ TerminalsCounted'
  BY <1>1, <1>2, <1>3, <1>4, BridgeStep
<1> QED BY <1>5, <1>6, <1>7 DEF IInv, ProbesCounted

LEMMA BridgeUnsubscribeStep == ASSUME IInv, NEW t \in Terminal, BridgeUnsubscribe(t) PROVE IInv'
<1> DEFINE T == detachMirror(tables, t)
<1>1. /\ UNCHANGED <<waiting, probes, terminalCwds, held, navigating, subs, worker, respawnTimer,
                     respawnAttempt, crashes, watch, focusKey>> /\ UNCHANGED view
      /\ focused' \in {focused, None} /\ entry' = [entry EXCEPT ![t] = NoEntry]
      /\ tables' \in {T, setReconcileFocus(T, None)}
  BY DEF BridgeUnsubscribe, view, life, inside
<1>2. /\ entry' \in [Terminal -> [on : BOOLEAN, cwd : Cwd \cup {None}, waits : BOOLEAN]]
      /\ \A u \in Terminal \ {t} : entry'[u] = entry[u]
      /\ entry'[t].cwd = None
  BY <1>1 DEF NoEntry, IInv, TypeOK
<1>3. Fits(T, t, None)
  BY DetachFits
<1> HIDE DEF T
<1>4. Fits(tables', t, entry'[t].cwd)
  BY <1>1, <1>2, <1>3, FocusFits
<1>5. TypeOK'
  BY <1>1, <1>2, <1>4 DEF IInv, TypeOK, Fits
<1>6. SharesAddUp' /\ ViewsCounted' /\ TerminalsCounted'
  BY <1>1, <1>2, <1>4, BridgeStep
<1> QED BY <1>1, <1>5, <1>6 DEF IInv, ProbesCounted

LEMMA notifyFocusStep == ASSUME IInv, NEW t \in Terminal, notifyFocus(t) PROVE IInv'
<1>1. /\ UNCHANGED <<entry, waiting, probes, terminalCwds, held, navigating, subs, worker,
                     respawnTimer, respawnAttempt, crashes, watch, focusKey>> /\ UNCHANGED view
      /\ focused' = t /\ tables' = setReconcileFocus(tables, entry[t].cwd)
  BY DEF notifyFocus, view, life, inside
<1>2. entry[t].cwd \in Cwd \cup {None}
  BY DEF IInv, TypeOK
<1>3. Fits(tables', t, entry'[t].cwd)
  BY <1>1, <1>2, Stays, FocusFits
<1>4. TypeOK'
  BY <1>1, <1>3 DEF IInv, TypeOK, Fits
<1>5. SharesAddUp' /\ ViewsCounted' /\ TerminalsCounted'
  BY <1>1, <1>3, BridgeStep DEF IInv, TerminalsCounted
<1> QED BY <1>1, <1>4, <1>5 DEF IInv, ProbesCounted
-----------------------------------------------------------------------------
(* The windows.  A directory counts a window once, however often it holds it. *)

\* A step of window r: the count of a directory follows whether r subscribes it.
LEMMA WindowStep ==
  ASSUME IInv, NEW r \in Renderer, tables' \in Tables, tables'.own = tables.own, entry' = entry,
         subs' \in [Renderer -> [Cwd -> 0..MaxHold]],
         \A q \in Renderer \ {r} : subs'[q] = subs[q],
         \A c \in Cwd : tables'.ref[c] + One(subs[r][c] > 0)
                          = tables.ref[c] + One(subs'[r][c] > 0)
  PROVE  SharesAddUp' /\ TerminalsCounted'
<1>1. ASSUME NEW c \in Cwd
      PROVE  tables'.ref[c] = tables'.own[c] + Cardinality({q \in Renderer : subs'[q][c] > 0})
  <2> DEFINE A == Subscribers(c)
             B == {q \in Renderer : subs'[q][c] > 0}
  <2>1. A \in SUBSET Renderer /\ B \in SUBSET Renderer /\ A \ {r} = B \ {r}
        /\ (r \in A <=> subs[r][c] > 0) /\ (r \in B <=> subs'[r][c] > 0)
    BY DEF Subscribers
  <2>2. tables.ref[c] = tables.own[c] + Cardinality(A)
    BY DEF IInv, SharesAddUp, Subscribers
  <2> HIDE DEF A
  <2> SUFFICES tables'.ref[c] = tables'.own[c] + Cardinality(B)
    OBVIOUS
  <2> HIDE DEF B
  <2>3. IsFiniteSet(A) /\ IsFiniteSet(B)
    BY <2>1, FS_Subset, ConstantTypes
  <2>4. Cardinality(A) = Cardinality(A \ {r}) + One(r \in A) /\ Cardinality(A \ {r}) \in Nat
    BY <2>3, WithoutOne
  <2>5. Cardinality(B) = Cardinality(B \ {r}) + One(r \in B)
    BY <2>3, WithoutOne
  <2>6. Cardinality(B \ {r}) = Cardinality(A \ {r})
    BY <2>1
  <2>7. One(r \in A) = One(subs[r][c] > 0) /\ One(r \in B) = One(subs'[r][c] > 0)
    BY <2>1 DEF One
  <2>8. tables.ref[c] \in Nat /\ tables'.ref[c] \in Nat /\ tables.own[c] \in Nat
    BY CountsTyped DEF IInv, TypeOK
  <2>9. /\ tables'.ref[c] + One(subs[r][c] > 0) = tables.ref[c] + One(subs'[r][c] > 0)
        /\ tables'.own[c] = tables.own[c]
    OBVIOUS
  <2>10. tables'.ref[c] + One(r \in A) = tables.ref[c] + One(r \in B)
    BY <2>7, <2>9, Zenon
  <2>11. One(r \in A) \in Nat /\ One(r \in B) \in Nat
    BY DEF One
  <2> DEFINE x == One(r \in A)
             y == One(r \in B)
             k == Cardinality(A \ {r})
  <2>12. /\ k \in Nat /\ x \in Nat /\ y \in Nat
         /\ tables.ref[c] = tables.own[c] + (k + x) /\ Cardinality(B) = k + y
         /\ tables'.ref[c] + x = tables.ref[c] + y
    BY <2>2, <2>4, <2>5, <2>6, <2>10, <2>11
  <2> HIDE DEF x, y, k
  <2>13. tables'.own[c] = tables.own[c]
    OBVIOUS
  <2>14. tables'.ref[c] = tables.own[c] + (k + y)
    BY <2>8, <2>12
  <2> QED BY <2>12, <2>13, <2>14
<1>2. SharesAddUp'
  BY <1>1 DEF SharesAddUp
<1>3. TerminalsCounted'
  BY DEF IInv, TerminalsCounted, Terminals
<1> QED BY <1>2, <1>3

\* A window that subscribes a directory is in its count.
LEMMA SubscriberCounts ==
  ASSUME IInv, NEW r \in Renderer, NEW c \in Cwd, subs[r][c] > 0
  PROVE  tables.ref[c] > 0
<1> DEFINE A == Subscribers(c)
<1>1. r \in A
  BY DEF Subscribers
<1>2. IsFiniteSet(A)
  BY CountsAreNat
<1>3. tables.ref[c] = tables.own[c] + Cardinality(A)
  BY DEF IInv, SharesAddUp, Subscribers
<1>4. tables.own[c] \in Nat
  BY CountsTyped DEF IInv, TypeOK
<1> HIDE DEF A
<1>5. Cardinality(A) = Cardinality(A \ {r}) + One(r \in A) /\ Cardinality(A \ {r}) \in Nat
  BY <1>2, WithoutOne
<1> QED BY <1>1, <1>3, <1>4, <1>5 DEF One

LEMMA SubscribeStep == ASSUME IInv, NEW r \in Renderer, NEW c \in Cwd, Subscribe(r, c) PROVE IInv'
<1>1. /\ UNCHANGED <<navigating, entry, waiting, probes, terminalCwds, focused, worker,
                     respawnTimer, respawnAttempt, crashes, watch, focusKey>>
      /\ held' = [held EXCEPT ![r][c] = @ + 1] /\ held[r][c] < MaxHold
      /\ subs' = [subs EXCEPT ![r][c] = @ + 1] /\ subs[r][c] < MaxHold
      /\ tables' = IF subs[r][c] = 0 THEN Retain(tables, c) ELSE tables
  BY DEF Subscribe, bridge, life, inside
<1>2. /\ held \in [Renderer -> [Cwd -> 0..MaxHold]] /\ subs \in [Renderer -> [Cwd -> 0..MaxHold]]
      /\ tables \in Tables /\ MaxHold \in Nat
  BY ConstantTypes DEF IInv, TypeOK
<1>3. /\ held' \in [Renderer -> [Cwd -> 0..MaxHold]] /\ subs' \in [Renderer -> [Cwd -> 0..MaxHold]]
      /\ \A q \in Renderer \ {r} : subs'[q] = subs[q]
      /\ \A d \in Cwd : subs'[r][d] = subs[r][d] + One(d = c)
      /\ \A q \in Renderer, d \in Cwd :
           subs[q][d] >= held[q][d] => subs'[q][d] >= held'[q][d]
  BY <1>1, <1>2 DEF One
<1>4. /\ tables' \in Tables /\ tables'.own = tables.own
      /\ \A d \in Cwd : tables'.ref[d] + One(subs[r][d] > 0) = tables.ref[d] + One(subs'[r][d] > 0)
  <2>1. CASE subs[r][c] = 0
    <3>1. /\ tables' \in Tables /\ tables'.own = tables.own
          /\ tables'.ref = [tables.ref EXCEPT ![c] = @ + 1]
      BY <1>1, <1>2, <2>1, RetainTables
    <3>2. tables.ref \in [Cwd -> Nat]
      BY <1>2 DEF Tables
    <3> QED BY <1>2, <1>3, <2>1, <3>1, <3>2 DEF One
  <2>2. CASE subs[r][c] # 0
    BY <1>1, <1>2, <1>3, <2>2 DEF One, Tables
  <2> QED BY <2>1, <2>2
<1>5. SharesAddUp' /\ TerminalsCounted'
  BY <1>1, <1>3, <1>4, WindowStep
<1>6. TypeOK' /\ ViewsCounted' /\ ProbesCounted'
  BY <1>1, <1>3, <1>4 DEF IInv, TypeOK, ViewsCounted, ProbesCounted
<1> QED BY <1>5, <1>6 DEF IInv

LEMMA UnsubscribeStep ==
  ASSUME IInv, NEW r \in Renderer, NEW c \in Cwd, Unsubscribe(r, c)
  PROVE  IInv'
<1>1. /\ UNCHANGED <<navigating, entry, waiting, probes, terminalCwds, focused, worker,
                     respawnTimer, respawnAttempt, crashes, watch, focusKey>>
      /\ held' = [held EXCEPT ![r][c] = @ - 1] /\ held[r][c] > 0
      /\ subs' = [subs EXCEPT ![r][c] = IF @ > 0 THEN @ - 1 ELSE 0]
      /\ tables' = IF subs[r][c] = 1 THEN Release(tables, c) ELSE tables
  BY DEF Unsubscribe, dropSubscription, bridge, life, inside
<1>2. /\ held \in [Renderer -> [Cwd -> 0..MaxHold]] /\ subs \in [Renderer -> [Cwd -> 0..MaxHold]]
      /\ tables \in Tables /\ MaxHold \in Nat
  BY ConstantTypes DEF IInv, TypeOK
<1>3. /\ held' \in [Renderer -> [Cwd -> 0..MaxHold]] /\ subs' \in [Renderer -> [Cwd -> 0..MaxHold]]
      /\ \A q \in Renderer \ {r} : subs'[q] = subs[q]
      /\ \A d \in Cwd : subs'[r][d] = IF d = c /\ subs[r][c] > 0 THEN subs[r][c] - 1 ELSE subs[r][d]
      /\ \A q \in Renderer, d \in Cwd :
           subs[q][d] >= held[q][d] => subs'[q][d] >= held'[q][d]
  BY <1>1, <1>2
<1>4. /\ tables' \in Tables /\ tables'.own = tables.own
      /\ \A d \in Cwd : tables'.ref[d] + One(subs[r][d] > 0) = tables.ref[d] + One(subs'[r][d] > 0)
  <2>1. CASE subs[r][c] = 1
    <3>1. tables.ref[c] > 0
      BY <2>1, SubscriberCounts
    <3>2. /\ tables' \in Tables /\ tables'.own = tables.own
          /\ tables'.ref = [tables.ref EXCEPT ![c] = @ - 1]
      BY <1>1, <1>2, <2>1, <3>1, ReleaseTables
    <3> QED BY <1>2, <1>3, <2>1, <3>1, <3>2 DEF One, Tables
  <2>2. CASE subs[r][c] # 1
    BY <1>1, <1>2, <1>3, <2>2 DEF One, Tables
  <2> QED BY <2>1, <2>2
<1>5. SharesAddUp' /\ TerminalsCounted'
  BY <1>1, <1>3, <1>4, WindowStep
<1>6. TypeOK' /\ ViewsCounted' /\ ProbesCounted'
  BY <1>1, <1>3, <1>4 DEF IInv, TypeOK, ViewsCounted, ProbesCounted
<1> QED BY <1>5, <1>6 DEF IInv

LEMMA drainStep == ASSUME IInv, NEW r \in Renderer, drainRendererSubscriptions(r) PROVE IInv'
<1> DEFINE last == {c \in Cwd : subs[r][c] > 0 /\ tables.ref[c] = 1}
           f == [c \in Cwd |-> IF subs[r][c] > 0 THEN tables.ref[c] - 1 ELSE tables.ref[c]]
           q == IF worker = "none" THEN tables.inbox ELSE tables.inbox \o ToEach("detach-watch", last)
<1>1. /\ UNCHANGED <<held, entry, waiting, probes, terminalCwds, focused, worker,
                     respawnTimer, respawnAttempt, crashes, watch, focusKey>>
      /\ navigating' = [navigating EXCEPT ![r] = TRUE]
      /\ subs' = [subs EXCEPT ![r] = [c \in Cwd |-> 0]]
      /\ tables' = [tables EXCEPT !.ref = f, !.inbox = q]
  BY DEF drainRendererSubscriptions, bridge, life, inside
<1>2. tables \in Tables /\ tables.inbox \in Seq(Messages) /\ tables.ref \in [Cwd -> Nat]
  BY DEF IInv, TypeOK, Tables
<1>3. f \in [Cwd -> Nat]
  <2>1. \A c \in Cwd : subs[r][c] > 0 => tables.ref[c] > 0
    BY SubscriberCounts
  <2> QED BY <1>2, <2>1
<1>4. q \in Seq(Messages)
  <2>1. ToEach("detach-watch", last) \in Seq(Messages)
    BY ToEachTyped
  <2> HIDE DEF last
  <2> QED BY <1>2, <2>1
<1>5. /\ subs' \in [Renderer -> [Cwd -> 0..MaxHold]] /\ subs \in [Renderer -> [Cwd -> 0..MaxHold]]
      /\ \A p \in Renderer \ {r} : subs'[p] = subs[p]
      /\ \A c \in Cwd : subs'[r][c] = 0
      /\ navigating' \in [Renderer -> BOOLEAN] /\ navigating'[r]
      /\ \A p \in Renderer \ {r} : navigating'[p] = navigating[p]
  BY <1>1, ConstantTypes DEF IInv, TypeOK
<1>6. \A c \in Cwd : f[c] + One(subs[r][c] > 0) = tables.ref[c] + One(subs'[r][c] > 0)
  BY <1>2, <1>5 DEF One
<1> HIDE DEF f, q
<1>7. tables' \in Tables /\ tables'.own = tables.own /\ tables'.ref = f
  BY <1>1, <1>2, <1>3, <1>4 DEF Tables
<1>8. SharesAddUp' /\ TerminalsCounted'
  BY <1>1, <1>5, <1>6, <1>7, WindowStep
<1>9. TypeOK' /\ ViewsCounted' /\ ProbesCounted'
  BY <1>1, <1>5, <1>7 DEF IInv, TypeOK, ViewsCounted, ProbesCounted
<1> QED BY <1>8, <1>9 DEF IInv

LEMMA CommitStep == ASSUME IInv, NEW r \in Renderer, Commit(r) PROVE IInv'
<1>1. /\ UNCHANGED <<subs, tables, entry, waiting, probes, terminalCwds, focused, worker,
                     respawnTimer, respawnAttempt, crashes, watch, focusKey>>
      /\ navigating' = [navigating EXCEPT ![r] = FALSE]
      /\ held' = [held EXCEPT ![r] = [c \in Cwd |-> 0]]
  BY DEF Commit, bridge, life, inside
<1>2. TypeOK'
  BY <1>1, ConstantTypes DEF IInv, TypeOK
<1>3. ViewsCounted'
  BY <1>1, ConstantTypes DEF IInv, TypeOK, ViewsCounted
<1>4. SharesAddUp' /\ TerminalsCounted' /\ ProbesCounted'
  BY <1>1 DEF IInv, SharesAddUp, TerminalsCounted, Terminals, ProbesCounted
<1> QED BY <1>2, <1>3, <1>4 DEF IInv

-----------------------------------------------------------------------------
(* The worker leaves the counts alone *)

LEMMA SystemStep == ASSUME IInv, System PROVE IInv'
<1>1. UNCHANGED <<held, navigating, subs, entry, waiting, probes, terminalCwds, focused>>
  BY DEF System, Ready, Exit, spawnWorker, Handle, Join, view, bridge
<1>2. tables \in Tables /\ tables.inbox \in Seq(Messages)
  BY DEF IInv, TypeOK, Tables
<1>3. \E q \in Seq(Messages) : tables' = [tables EXCEPT !.inbox = q]
  <2>1. CASE Ready \/ \E c \in Cwd : Join(c)
    <3>1. tables' = tables
      BY <2>1 DEF Ready, Join
    <3> QED BY <1>2, <3>1 DEF Tables
  <2>2. CASE Exit
    <3>1. tables' = [tables EXCEPT !.inbox = <<>>] /\ <<>> \in Seq(Messages)
      BY <2>2 DEF Exit
    <3> QED BY <3>1
  <2>3. CASE spawnWorker
    <3> DEFINE C == {c \in Cwd : tables.ref[c] > 0}
    <3>1. tables' = [tables EXCEPT !.inbox = ToEach("attach-watch", C)] \/ tables' = tables
      BY <2>3 DEF spawnWorker, reattachAllAfterRespawn
    <3>2. ToEach("attach-watch", C) \in Seq(Messages)
      BY ToEachTyped
    <3>3. tables = [tables EXCEPT !.inbox = tables.inbox]
      BY <1>2 DEF Tables
    <3> QED BY <1>2, <3>1, <3>2, <3>3
  <2>4. CASE Handle
    <3>1. tables' = [tables EXCEPT !.inbox = Tail(tables.inbox)] /\ tables.inbox # <<>>
      BY <2>4 DEF Handle
    <3>2. Tail(tables.inbox) \in Seq(Messages)
      BY <1>2, <3>1
    <3> QED BY <3>1, <3>2
  <2> QED BY <2>1, <2>2, <2>3, <2>4 DEF System
<1>4. tables' \in Tables /\ tables'.ref = tables.ref /\ tables'.own = tables.own
  BY <1>2, <1>3 DEF Tables
<1>5. /\ worker' \in {"none", "booting", "up"} /\ respawnTimer' \in BOOLEAN
      /\ respawnAttempt' \in 0..MaxAttempts /\ crashes' \in 0..MaxCrashes
  <2>1. /\ worker \in {"none", "booting", "up"} /\ respawnTimer \in BOOLEAN
        /\ respawnAttempt \in 0..MaxAttempts /\ crashes \in 0..MaxCrashes
    BY DEF IInv, TypeOK
  <2>2. CASE Ready
    BY <2>1, <2>2, ConstantTypes DEF Ready
  <2>5. CASE spawnWorker
    <3>1. respawnTimer' \in BOOLEAN
      BY <2>5, Zenon DEF spawnWorker
    <3> QED BY <2>1, <2>5, <3>1 DEF spawnWorker
  <2>3. CASE Exit
    BY <2>1, <2>3, ConstantTypes DEF Exit
  <2>4. CASE Handle \/ \E c \in Cwd : Join(c)
    BY <2>1, <2>4 DEF Handle, Join, life
  <2> QED BY <2>2, <2>3, <2>4, <2>5 DEF System
<1>6. watch' \in [Cwd -> {"no", "attaching", "joined"}] /\ focusKey' \in Cwd \cup {None}
  BY DEF System, Ready, Exit, spawnWorker, Handle, Join, inside, IInv, TypeOK
<1>7. TypeOK'
  BY <1>1, <1>4, <1>5, <1>6 DEF IInv, TypeOK
<1>8. SharesAddUp' /\ ViewsCounted' /\ TerminalsCounted' /\ ProbesCounted'
  BY <1>1, <1>4
  DEF IInv, SharesAddUp, ViewsCounted, TerminalsCounted, Terminals, ProbesCounted
<1> QED BY <1>7, <1>8 DEF IInv

-----------------------------------------------------------------------------
LEMMA InitInv == Init => IInv
<1> SUFFICES ASSUME Init PROVE IInv
  OBVIOUS
<1>1. tables \in Tables /\ \A c \in Cwd : tables.ref[c] = 0 /\ tables.own[c] = 0
  BY DEF Init, Tables
<1>2. TypeOK
  <2>1. /\ held \in [Renderer -> [Cwd -> 0..MaxHold]] /\ subs \in [Renderer -> [Cwd -> 0..MaxHold]]
        /\ navigating \in [Renderer -> BOOLEAN]
    BY ConstantTypes DEF Init
  <2>2. /\ entry \in [Terminal -> [on : BOOLEAN, cwd : Cwd \cup {None}, waits : BOOLEAN]]
        /\ waiting \in [Terminal -> 0..MaxProbes] /\ probes \in 0..MaxProbes
        /\ terminalCwds \in [Terminal -> Cwd \cup {None}] /\ focused \in Terminal \cup {None}
    BY ConstantTypes DEF Init, NoEntry
  <2>3. /\ worker \in {"none", "booting", "up"}
        /\ respawnAttempt \in 0..MaxAttempts /\ crashes \in 0..MaxCrashes
        /\ watch \in [Cwd -> {"no", "attaching", "joined"}] /\ focusKey \in Cwd \cup {None}
    BY ConstantTypes DEF Init
  <2>4. respawnTimer \in BOOLEAN
    BY Zenon DEF Init
  <2> QED BY <1>1, <2>1, <2>2, <2>3, <2>4 DEF TypeOK
<1>3. SharesAddUp
  <2>1. \A c \in Cwd : Subscribers(c) = {}
    BY DEF Init, Subscribers
  <2>2. \A c \in Cwd : Cardinality(Subscribers(c)) = 0
    BY <2>1, FS_EmptySet
  <2> QED BY <1>1, <2>2 DEF SharesAddUp, Subscribers
<1>4. TerminalsCounted
  <2>1. \A c \in Cwd : Terminals(c) = {}
    BY ConstantTypes DEF Init, Terminals, NoEntry
  <2>2. \A c \in Cwd : Cardinality(Terminals(c)) = 0
    BY <2>1, FS_EmptySet
  <2>3. \A t \in Terminal : entry[t].cwd = None
    BY DEF Init, NoEntry
  <2> QED BY <1>1, <2>2, <2>3 DEF TerminalsCounted
<1>5. ViewsCounted /\ ProbesCounted
  BY DEF Init, ViewsCounted, ProbesCounted
<1> QED BY <1>2, <1>3, <1>4, <1>5 DEF IInv

LEMMA NextInv == IInv /\ [Next]_vars => IInv'
<1> SUFFICES ASSUME IInv, [Next]_vars PROVE IInv'
  OBVIOUS
<1>1. CASE User
  <2>1. ASSUME NEW r \in Renderer, drainRendererSubscriptions(r) \/ Commit(r) PROVE IInv'
    BY <2>1, drainStep, CommitStep
  <2>2. ASSUME NEW r \in Renderer, NEW c \in Cwd, Subscribe(r, c) \/ Unsubscribe(r, c) PROVE IInv'
    BY <2>2, SubscribeStep, UnsubscribeStep
  <2>3. ASSUME NEW t \in Terminal, BridgeSubscribe(t) \/ BridgeUnsubscribe(t) \/ notifyFocus(t)
        PROVE  IInv'
    BY <2>3, BridgeSubscribeStep, BridgeUnsubscribeStep, notifyFocusStep
  <2>4. ASSUME NEW t \in Terminal, NEW c \in Cwd, pushTerminalCwd(t, c) PROVE IInv'
    BY <2>4, pushTerminalCwdStep
  <2>5. ASSUME NEW t \in Terminal, NEW c \in Cwd \cup {None}, ProbeEnds(t, c) PROVE IInv'
    BY <2>5, ProbeEndsStep
  <2> QED BY <1>1, <2>1, <2>2, <2>3, <2>4, <2>5 DEF User
<1>2. CASE System
  BY <1>2, SystemStep
<1>3. CASE UNCHANGED vars
  <2>1. UNCHANGED <<held, navigating, subs, tables, entry, waiting, probes, terminalCwds, focused,
                    worker, respawnTimer, respawnAttempt, crashes, watch, focusKey>>
    BY <1>3 DEF vars, view, bridge, life, inside
  <2>2. TypeOK'
    BY <2>1 DEF IInv, TypeOK
  <2> QED BY <2>1, <2>2 DEF IInv, SharesAddUp, ViewsCounted, TerminalsCounted, Terminals,
                            ProbesCounted
<1> QED BY <1>1, <1>2, <1>3 DEF Next

LEMMA Invariance == Spec => []IInv
BY InitInv, NextInv, PTL DEF Spec

\* What is not the main process's share of a count is one for each window.
THEOREM SharesTheorem == Spec => []SharesAddUp
<1>1. IInv => SharesAddUp
  BY DEF IInv
<1> QED BY <1>1, Invariance, PTL

\* The windows that show a directory are subscribers of it, and the terminals
\* there are in the main process's share: the count covers both.
LEMMA CountCovers == IInv => NeverReleasedEarly
<1> SUFFICES ASSUME IInv, NEW c \in Cwd
             PROVE  /\ \A r \in Viewers(c) : subs[r][c] >= held[r][c]
                    /\ tables.ref[c] >= Cardinality(Viewers(c)) + Cardinality(Terminals(c))
  BY DEF NeverReleasedEarly, IInv
<1>1. \A r \in Viewers(c) : subs[r][c] >= held[r][c]
  BY DEF Viewers, IInv, ViewsCounted
<1>2. Viewers(c) \in SUBSET Subscribers(c)
  BY <1>1 DEF Viewers, Subscribers, IInv, TypeOK
<1>3. Cardinality(Viewers(c)) <= Cardinality(Subscribers(c)) /\ IsFiniteSet(Viewers(c))
  BY <1>2, CountsAreNat, FS_Subset
<1>4. Cardinality(Viewers(c)) \in Nat
  BY <1>3, FS_CardinalityType
<1>5. /\ tables.ref[c] = tables.own[c] + Cardinality(Subscribers(c))
      /\ tables.own[c] >= Cardinality(Terminals(c)) /\ tables.own[c] \in Nat
  BY CountsTyped DEF IInv, TypeOK, SharesAddUp, Subscribers, TerminalsCounted
<1> QED BY <1>1, <1>3, <1>4, <1>5, CountsAreNat

\* Nothing that a window or a terminal still shows is released.
THEOREM ReleaseTheorem == Spec => []NeverReleasedEarly
BY CountCovers, Invariance, PTL

-----------------------------------------------------------------------------
(* What the inbox will make of the worker.  The queue facts first: a message *)
(* more, a message less, and a batch of messages about different directories. *)

IsAbout(m, c) == m.kind # "reconcile-focus" /\ m.cwd = c

LEMMA AppendFacts ==
  ASSUME NEW q \in Seq(Messages), NEW m \in Messages
  PROVE  /\ Append(q, m) \in Seq(Messages) /\ Len(q) \in Nat /\ DOMAIN q = 1..Len(q)
         /\ DOMAIN Append(q, m) = 1..(Len(q) + 1) /\ Append(q, m)[Len(q) + 1] = m
         /\ \A i \in 1..Len(q) : Append(q, m)[i] = q[i]
OBVIOUS

LEMMA TailFacts ==
  ASSUME NEW q \in Seq(Messages), q # <<>>
  PROVE  /\ Tail(q) \in Seq(Messages) /\ Len(q) \in Nat /\ Len(q) > 0 /\ DOMAIN q = 1..Len(q)
         /\ DOMAIN Tail(q) = 1..(Len(q) - 1) /\ Head(q) = q[1]
         /\ \A i \in 1..(Len(q) - 1) : Tail(q)[i] = q[i + 1]
OBVIOUS

LEMMA ConcatFacts ==
  ASSUME NEW q \in Seq(Messages), NEW s \in Seq(Messages)
  PROVE  /\ q \o s \in Seq(Messages) /\ Len(q) \in Nat /\ Len(s) \in Nat
         /\ DOMAIN q = 1..Len(q) /\ DOMAIN s = 1..Len(s)
         /\ DOMAIN (q \o s) = 1..(Len(q) + Len(s))
         /\ \A i \in 1..Len(q) : (q \o s)[i] = q[i]
         /\ \A i \in 1..Len(s) : (q \o s)[Len(q) + i] = s[i]
OBVIOUS

\* The batch has one message for each of the directories and no other.
LEMMA ToEachFacts ==
  ASSUME NEW C \in SUBSET Cwd, NEW kind \in {"attach-watch", "detach-watch"}
  PROVE  LET s == ToEach(kind, C)
         IN /\ s \in Seq(Messages)
            /\ \A i \in DOMAIN s : s[i].kind = kind /\ s[i].cwd \in C
            /\ \A i, j \in DOMAIN s : s[i].cwd = s[j].cwd => i = j
            /\ \A c \in C : \E i \in DOMAIN s : s[i].cwd = c
<1> DEFINE M == {Message(kind, c) : c \in C}
           f == [c \in C |-> Message(kind, c)]
           s == SetToSeq(M)
<1>1. f \in Surjection(C, M)
  BY DEF Surjection
<1>2. IsFiniteSet(C)
  BY FS_Subset, ConstantTypes
<1>3. ToEach(kind, C) = s
  BY DEF ToEach
<1>4. \A m \in M : m.kind = kind /\ m.cwd \in C /\ m = Message(kind, m.cwd)
  BY DEF Message
<1>5. \A c \in C : Message(kind, c) \in M /\ Message(kind, c).cwd = c
  BY DEF Message
<1> HIDE DEF M, f
<1>6. IsFiniteSet(M)
  BY <1>1, <1>2, FS_Surjection
<1>7. Cardinality(M) \in Nat /\ ExistsBijection(1..Cardinality(M), M)
  BY <1>6, FS_CardinalityType
<1>8. \E g \in [1..Cardinality(M) -> M] : IsInjective(g)
  BY <1>7 DEF ExistsBijection, Bijection, Injection, IsInjective
<1>9. s \in [1..Cardinality(M) -> M] /\ IsInjective(s)
  BY <1>8 DEF SetToSeq
<1>10. Cardinality(1..Cardinality(M)) = Cardinality(M)
  BY <1>7, FS_Interval
<1>11. s \in Surjection(1..Cardinality(M), M)
  BY <1>6, <1>9, <1>10, FS_Injection DEF Injection
<1> HIDE DEF s
<1>12. DOMAIN s = 1..Cardinality(M) /\ \A i \in DOMAIN s : s[i] \in M
  BY <1>9
<1>13. \A i \in DOMAIN s : s[i].kind = kind /\ s[i].cwd \in C
  BY <1>4, <1>12
<1>14. \A i, j \in DOMAIN s : s[i].cwd = s[j].cwd => i = j
  <2> SUFFICES ASSUME NEW i \in DOMAIN s, NEW j \in DOMAIN s, s[i].cwd = s[j].cwd PROVE i = j
    OBVIOUS
  <2>1. s[i] = s[j]
    BY <1>4, <1>12
  <2> QED BY <2>1, <1>9 DEF IsInjective
<1>15. \A c \in C : \E i \in DOMAIN s : s[i].cwd = c
  BY <1>5, <1>11, <1>12 DEF Surjection
<1>16. s \in Seq(Messages)
  BY <1>3, ToEachTyped
<1> QED BY <1>3, <1>13, <1>14, <1>15, <1>16

LEMMA AppendWatched ==
  ASSUME NEW q \in Seq(Messages), NEW m \in Messages, NEW c, NEW b \in BOOLEAN
  PROVE  WatchedAfter(Append(q, m), c, b)
           <=> IF IsAbout(m, c) THEN m.kind = "attach-watch" ELSE WatchedAfter(q, c, b)
<1> DEFINE n == Len(q) + 1
           Q == Append(q, m)
<1>1. /\ DOMAIN q = 1..Len(q) /\ DOMAIN Q = 1..n /\ Q[n] = m /\ n \in Nat
      /\ n \in DOMAIN Q /\ n \notin DOMAIN q /\ DOMAIN Q = DOMAIN q \cup {n}
      /\ \A i \in DOMAIN q : Q[i] = q[i] /\ i \in Int /\ i <= n /\ ~(n <= i)
  BY AppendFacts
<1> HIDE DEF n, Q
<1>2. CASE IsAbout(m, c)
  <2>1. /\ n \in {i \in DOMAIN Q : Q[i].kind # "reconcile-focus" /\ Q[i].cwd = c}
        /\ \A j \in DOMAIN Q : j <= n /\ (n <= j => j = n)
    BY <1>1, <1>2 DEF IsAbout
  <2> QED BY <1>1, <1>2, <2>1 DEF WatchedAfter, Q
<1>3. CASE ~IsAbout(m, c)
  <2>1. {i \in DOMAIN Q : Q[i].kind # "reconcile-focus" /\ Q[i].cwd = c}
          = {i \in DOMAIN q : q[i].kind # "reconcile-focus" /\ q[i].cwd = c}
    BY <1>1, <1>3 DEF IsAbout
  <2> QED BY <1>1, <1>3, <2>1 DEF WatchedAfter, Q
<1> QED BY <1>2, <1>3

LEMMA TailWatched ==
  ASSUME NEW q \in Seq(Messages), q # <<>>, NEW c, NEW b \in BOOLEAN
  PROVE  WatchedAfter(q, c, b)
           <=> WatchedAfter(Tail(q), c,
                            IF IsAbout(Head(q), c) THEN Head(q).kind = "attach-watch" ELSE b)
<1> DEFINE P(i) == q[i].kind # "reconcile-focus" /\ q[i].cwd = c
           R == Tail(q)
           A == {i \in DOMAIN q : q[i].kind # "reconcile-focus" /\ q[i].cwd = c}
           B == {i \in DOMAIN R : R[i].kind # "reconcile-focus" /\ R[i].cwd = c}
           now == IF IsAbout(Head(q), c) THEN Head(q).kind = "attach-watch" ELSE b
<1>1. /\ Len(q) \in Nat /\ Len(q) > 0 /\ DOMAIN q = 1..Len(q) /\ DOMAIN R = 1..(Len(q) - 1)
      /\ Head(q) = q[1] /\ \A i \in 1..(Len(q) - 1) : R[i] = q[i + 1]
  BY TailFacts
<1>w. /\ WatchedAfter(q, c, b) <=> IF A = {} THEN b
                                   ELSE \E i \in A : q[i].kind = "attach-watch" /\ \A j \in A : j <= i
      /\ WatchedAfter(R, c, now) <=> IF B = {} THEN now
                                     ELSE \E i \in B : R[i].kind = "attach-watch" /\ \A j \in B : j <= i
  BY DEF WatchedAfter
<1>h. IsAbout(Head(q), c) <=> 1 \in A
  BY <1>1 DEF IsAbout
<1>2. /\ \A i \in B : i + 1 \in A /\ q[i + 1] = R[i] /\ i \in Int /\ i >= 1
      /\ \A i \in A : i \in Int /\ i >= 1 /\ (i # 1 => i - 1 \in B /\ R[i - 1] = q[i])
  BY <1>1
<1>n. now = IF 1 \in A THEN q[1].kind = "attach-watch" ELSE b
  BY <1>h, <1>1
<1> HIDE DEF R, A, B, now
<1>3. CASE B = {}
  <2>1. A \subseteq {1}
    BY <1>2, <1>3
  <2>2. CASE 1 \in A
    <3>1. A = {1}
      BY <2>1, <2>2
    <3> QED BY <3>1, <1>3, <1>w, <1>n DEF R, now
  <2>3. CASE 1 \notin A
    <3>1. A = {}
      BY <2>1, <2>3
    <3> QED BY <3>1, <1>3, <1>w, <1>n DEF R, now
  <2> QED BY <2>2, <2>3
<1>4. CASE B # {}
  <2>1. A # {}
    BY <1>2, <1>4
  <2>2. ASSUME NEW i \in B, R[i].kind = "attach-watch", \A j \in B : j <= i
        PROVE  \E k \in A : q[k].kind = "attach-watch" /\ \A j \in A : j <= k
    <3>1. i + 1 \in A /\ q[i + 1].kind = "attach-watch"
      BY <1>2, <2>2
    <3>2. \A j \in A : j <= i + 1
      BY <1>2, <2>2
    <3> QED BY <3>1, <3>2
  <2>3. ASSUME NEW i \in A, q[i].kind = "attach-watch", \A j \in A : j <= i
        PROVE  \E k \in B : R[k].kind = "attach-watch" /\ \A j \in B : j <= k
    <3>1. i # 1
      BY <1>2, <1>4, <2>3
    <3>2. i - 1 \in B /\ R[i - 1].kind = "attach-watch"
      BY <3>1, <1>2, <2>3
    <3>3. \A j \in B : j <= i - 1
      BY <1>2, <2>3
    <3> QED BY <3>2, <3>3
  <2>4. (\E i \in A : q[i].kind = "attach-watch" /\ \A j \in A : j <= i)
          <=> (\E i \in B : R[i].kind = "attach-watch" /\ \A j \in B : j <= i)
    BY <2>2, <2>3
  <2>5. WatchedAfter(q, c, b) <=> WatchedAfter(R, c, now)
    BY <1>w, <1>4, <2>1, <2>4
  <2> QED BY <2>5 DEF R, now
<1> QED BY <1>3, <1>4

LEMMA BatchWatched ==
  ASSUME NEW q \in Seq(Messages), NEW C \in SUBSET Cwd,
         NEW kind \in {"attach-watch", "detach-watch"}, NEW c, NEW b \in BOOLEAN
  PROVE  WatchedAfter(q \o ToEach(kind, C), c, b)
           <=> IF c \in C THEN kind = "attach-watch" ELSE WatchedAfter(q, c, b)
<1> DEFINE s == ToEach(kind, C)
           Q == q \o s
           A == {i \in DOMAIN q : q[i].kind # "reconcile-focus" /\ q[i].cwd = c}
           B == {i \in DOMAIN Q : Q[i].kind # "reconcile-focus" /\ Q[i].cwd = c}
<1>1. /\ s \in Seq(Messages)
      /\ \A i \in DOMAIN s : s[i].kind = kind /\ s[i].cwd \in C
      /\ \A i, j \in DOMAIN s : s[i].cwd = s[j].cwd => i = j
      /\ \A d \in C : \E i \in DOMAIN s : s[i].cwd = d
  BY ToEachFacts
<1> HIDE DEF s
<1>2. /\ Len(q) \in Nat /\ Len(s) \in Nat /\ DOMAIN q = 1..Len(q) /\ DOMAIN s = 1..Len(s)
      /\ DOMAIN Q = 1..(Len(q) + Len(s))
      /\ \A i \in 1..Len(q) : Q[i] = q[i]
      /\ \A i \in 1..Len(s) : Q[Len(q) + i] = s[i]
  BY <1>1, ConcatFacts
<1>w. /\ WatchedAfter(q, c, b) <=> IF A = {} THEN b
                                   ELSE \E i \in A : q[i].kind = "attach-watch" /\ \A j \in A : j <= i
      /\ WatchedAfter(Q, c, b) <=> IF B = {} THEN b
                                   ELSE \E i \in B : Q[i].kind = "attach-watch" /\ \A j \in B : j <= i
  BY DEF WatchedAfter
<1> HIDE DEF Q
<1>3. \A i \in DOMAIN Q : /\ i \in Int
                           /\ (i \in DOMAIN q \/ (i - Len(q) \in DOMAIN s /\ Q[i] = s[i - Len(q)]))
  <2> TAKE i \in DOMAIN Q
  <2>0. i \in Int /\ i >= 1 /\ i <= Len(q) + Len(s)
    BY <1>2
  <2>1. CASE i <= Len(q)
    <3>1. i \in DOMAIN q
      BY <1>2, <2>0, <2>1
    <3> QED BY <2>0, <3>1
  <2>2. CASE i > Len(q)
    <3>1. i - Len(q) \in 1..Len(s)
      BY <1>2, <2>2
    <3>2. Q[Len(q) + (i - Len(q))] = s[i - Len(q)]
      BY <1>2, <3>1
    <3>3. Len(q) + (i - Len(q)) = i
      BY <1>2
    <3> QED BY <1>2, <3>1, <3>2, <3>3
  <2> QED BY <1>2, <2>1, <2>2
<1>4. CASE c \in C
  <2>1. PICK k \in DOMAIN s : s[k].cwd = c
    BY <1>1, <1>4
  <2>2. Len(q) + k \in B /\ Q[Len(q) + k].kind = kind
    BY <1>1, <1>2, <2>1
  <2>3. ASSUME NEW i \in B, i \notin DOMAIN q PROVE i = Len(q) + k
    <3>0. i \in DOMAIN Q /\ Q[i].cwd = c
      BY <2>3
    <3>1. i \in Int /\ i - Len(q) \in DOMAIN s /\ Q[i] = s[i - Len(q)]
      BY <1>3, <2>3, <3>0
    <3>2. i - Len(q) = k
      BY <1>1, <2>1, <3>0, <3>1
    <3> QED BY <1>2, <3>1, <3>2
  <2>4. \A i \in B : i <= Len(q) + k
    BY <1>2, <1>3, <2>1, <2>3
  <2>5. \A i \in B : Len(q) + k <= i => i = Len(q) + k
    BY <1>2, <1>3, <2>1, <2>4
  <2> HIDE DEF B
  <2>6. (\E i \in B : Q[i].kind = "attach-watch" /\ \A j \in B : j <= i) <=> kind = "attach-watch"
    BY <2>2, <2>4, <2>5
  <2>7. B # {}
    BY <2>2
  <2>8. WatchedAfter(Q, c, b) <=> kind = "attach-watch"
    BY <1>w, <2>6, <2>7
  <2> QED BY <1>4, <2>8 DEF Q, s
<1>5. CASE c \notin C
  <2>1. A = B /\ \A i \in A : Q[i] = q[i]
    BY <1>1, <1>2, <1>3, <1>5
  <2> HIDE DEF A, B
  <2>2. WatchedAfter(Q, c, b) <=> WatchedAfter(q, c, b)
    BY <1>w, <2>1
  <2> QED BY <1>5, <2>2 DEF Q, s
<1> QED BY <1>4, <1>5


-----------------------------------------------------------------------------
(* What the functions from tables to tables do to the inbox *)

IsFocus(m) == m.kind = "reconcile-focus"

\* i is the last message of q that names a focus
FocusAt(q, i) == i \in DOMAIN q /\ IsFocus(q[i]) /\ \A j \in DOMAIN q : IsFocus(q[j]) => j <= i
NoFocus(q) == \A i \in DOMAIN q : ~IsFocus(q[i])

\* p leaves the focus where q leaves it; p leaves it at d
SameFocus(q, p) ==
  /\ NoFocus(p) => NoFocus(q)
  /\ \A i : FocusAt(p, i) => \E j : FocusAt(q, j) /\ q[j].cwd = p[i].cwd
FocusesOn(p, d) ==
  /\ ~NoFocus(p)
  /\ \A i : FocusAt(p, i) => p[i].cwd = d

\* A running worker will watch what is counted.
Follows(T) ==
  worker # "none" => \A c \in Cwd : WatchedAfter(T.inbox, c, watch[c] # "no") <=> T.ref[c] > 0

\* From T to U the worker's watches keep following the counts, and its focus stays.
Keeps(T, U) ==
  /\ U \in Tables /\ (Follows(T) => Follows(U))
  /\ SameFocus(T.inbox, U.inbox)

LEMMA SameFocusRefl == ASSUME NEW q PROVE SameFocus(q, q)
BY DEF SameFocus

LEMMA KeepsTrans ==
  ASSUME NEW T, NEW U, NEW W, Keeps(T, U), Keeps(U, W)
  PROVE  Keeps(T, W)
BY DEF Keeps, SameFocus

LEMMA AppendFocus ==
  ASSUME NEW q \in Seq(Messages), NEW m \in Messages
  PROVE  /\ ~IsFocus(m) => SameFocus(q, Append(q, m))
         /\ IsFocus(m) => FocusesOn(Append(q, m), m.cwd)
<1> DEFINE n == Len(q) + 1
           Q == Append(q, m)
<1>1. /\ Q[n] = m /\ n \in DOMAIN Q /\ DOMAIN Q = DOMAIN q \cup {n}
      /\ \A i \in DOMAIN q : Q[i] = q[i] /\ i \in Int /\ i <= n /\ ~(n <= i)
  BY AppendFacts
<1> HIDE DEF n, Q
<1>2. ~IsFocus(m) => SameFocus(q, Q)
  <2> SUFFICES ASSUME ~IsFocus(m) PROVE SameFocus(q, Q)
    OBVIOUS
  <2>1. NoFocus(Q) => NoFocus(q)
    BY <1>1 DEF NoFocus
  <2>2. ASSUME NEW i, FocusAt(Q, i) PROVE FocusAt(q, i) /\ q[i].cwd = Q[i].cwd
    <3>1. i \in DOMAIN q
      BY <1>1, <2>2 DEF FocusAt
    <3> QED BY <1>1, <2>2, <3>1 DEF FocusAt
  <2> QED BY <2>1, <2>2 DEF SameFocus
<1>3. IsFocus(m) => FocusesOn(Q, m.cwd)
  <2> SUFFICES ASSUME IsFocus(m) PROVE FocusesOn(Q, m.cwd)
    OBVIOUS
  <2>1. ~NoFocus(Q)
    BY <1>1 DEF NoFocus
  <2>2. ASSUME NEW i, FocusAt(Q, i) PROVE Q[i].cwd = m.cwd
    <3>1. i = n
      BY <1>1, <2>2 DEF FocusAt
    <3> QED BY <1>1, <3>1
  <2> QED BY <2>1, <2>2 DEF FocusesOn
<1> QED BY <1>2, <1>3 DEF Q

\* A batch of attaches or detaches says nothing of the focus.
LEMMA BatchFocus ==
  ASSUME NEW q \in Seq(Messages), NEW C \in SUBSET Cwd,
         NEW kind \in {"attach-watch", "detach-watch"}
  PROVE  SameFocus(q, q \o ToEach(kind, C)) /\ NoFocus(ToEach(kind, C))
<1> DEFINE s == ToEach(kind, C)
           Q == q \o s
<1>1. s \in Seq(Messages) /\ \A i \in DOMAIN s : s[i].kind = kind
  BY ToEachFacts
<1> HIDE DEF s
<1>2. /\ Len(q) \in Nat /\ Len(s) \in Nat /\ DOMAIN q = 1..Len(q) /\ DOMAIN s = 1..Len(s)
      /\ DOMAIN Q = 1..(Len(q) + Len(s))
      /\ \A i \in 1..Len(q) : Q[i] = q[i]
      /\ \A i \in 1..Len(s) : Q[Len(q) + i] = s[i]
  BY <1>1, ConcatFacts
<1> HIDE DEF Q
<1>3. \A i \in DOMAIN q : i \in DOMAIN Q /\ Q[i] = q[i]
  BY <1>2
<1>4. \A i \in DOMAIN Q : IsFocus(Q[i]) => i \in DOMAIN q
  <2> SUFFICES ASSUME NEW i \in DOMAIN Q, i > Len(q) PROVE ~IsFocus(Q[i])
    BY <1>2
  <2>1. i - Len(q) \in 1..Len(s) /\ Len(q) + (i - Len(q)) = i
    BY <1>2
  <2>2. Q[i] = s[i - Len(q)]
    BY <1>2, <2>1
  <2> QED BY <1>1, <1>2, <2>1, <2>2 DEF IsFocus
<1>5. NoFocus(Q) => NoFocus(q)
  BY <1>3 DEF NoFocus
<1>6. ASSUME NEW i, FocusAt(Q, i) PROVE FocusAt(q, i) /\ q[i].cwd = Q[i].cwd
  BY <1>3, <1>4, <1>6 DEF FocusAt
<1>7. SameFocus(q, Q) /\ NoFocus(s)
  BY <1>1, <1>5, <1>6 DEF SameFocus, NoFocus, IsFocus
<1> QED BY <1>7 DEF Q, s

\* A message is posted for a worker there is, and its effect is the message's.
LEMMA PostInbox ==
  ASSUME NEW T \in Tables, NEW m \in Messages
  PROVE  /\ T.inbox \in Seq(Messages)
         /\ postToWorker(T, m).inbox = IF worker = "none" THEN T.inbox ELSE Append(T.inbox, m)
BY DEF Tables, postToWorker

LEMMA CountInbox ==
  ASSUME NEW T \in Tables, NEW f \in [Cwd -> Nat]
  PROVE  WithRef(T, f).inbox = T.inbox /\ WithOwn(T, f).inbox = T.inbox
BY DEF Tables, WithRef, WithOwn

\* The counts of other directories stay, so do their watches.
LEMMA KeepsCount ==
  ASSUME NEW T \in Tables, NEW c \in Cwd, NEW f \in [Cwd -> Nat],
         \A d \in Cwd \ {c} : f[d] = T.ref[d],
         NEW kind \in {"attach-watch", "detach-watch"},
         NEW posted \in BOOLEAN,
         posted => (kind = "attach-watch" <=> f[c] > 0),
         ~posted => (T.ref[c] > 0 <=> f[c] > 0)
  PROVE  LET U == WithRef(T, f)
         IN Keeps(T, IF posted THEN postToWorker(U, Message(kind, c)) ELSE U)
<1> DEFINE U == WithRef(T, f)
           m == Message(kind, c)
           W == IF posted THEN postToWorker(U, m) ELSE U
           send == posted /\ worker # "none"
<1>1. U \in Tables /\ U.ref = f /\ U.inbox = T.inbox
  BY CountTables, CountInbox
<1>2. m \in Messages /\ m.kind = kind /\ m.cwd = c
  BY DEF Message, Messages
<1> HIDE DEF U, m
<1>3. W \in Tables /\ W.ref = f
  BY <1>1, <1>2, PostTables
<1>4. T.inbox \in Seq(Messages) /\ W.inbox = IF send THEN Append(T.inbox, m) ELSE T.inbox
  BY <1>1, <1>2, PostInbox
<1> HIDE DEF W
<1>5. ASSUME Follows(T), worker # "none", NEW d \in Cwd
      PROVE  WatchedAfter(W.inbox, d, watch[d] # "no") <=> W.ref[d] > 0
  <2> DEFINE b == watch[d] # "no"
  <2>1. b \in BOOLEAN /\ (WatchedAfter(T.inbox, d, b) <=> T.ref[d] > 0)
    BY <1>5 DEF Follows
  <2> HIDE DEF b
  <2>2. IsAbout(m, d) <=> d = c
    BY <1>2 DEF IsAbout
  <2>3. CASE posted
    <3>1. WatchedAfter(W.inbox, d, b)
            <=> IF d = c THEN kind = "attach-watch" ELSE WatchedAfter(T.inbox, d, b)
      BY <1>2, <1>4, <1>5, <2>1, <2>2, <2>3, AppendWatched
    <3>2. WatchedAfter(W.inbox, d, b) <=> W.ref[d] > 0
      BY <1>3, <2>1, <2>3, <3>1
    <3> QED BY <3>2 DEF b
  <2>4. CASE ~posted
    <3>1. W.inbox = T.inbox
      BY <1>4, <2>4
    <3>2. WatchedAfter(W.inbox, d, b) <=> W.ref[d] > 0
      BY <1>3, <2>1, <2>4, <3>1
    <3> QED BY <3>2 DEF b
  <2> QED BY <2>3, <2>4
<1>6. Follows(T) => Follows(W)
  BY <1>5 DEF Follows
<1>7. SameFocus(T.inbox, W.inbox)
  BY <1>2, <1>4, AppendFocus, SameFocusRefl DEF IsFocus
<1>8. Keeps(T, W)
  BY <1>3, <1>6, <1>7 DEF Keeps
<1> QED BY <1>8 DEF W, U, m

LEMMA RetainKeeps == ASSUME NEW T \in Tables, NEW c \in Cwd PROVE Keeps(T, Retain(T, c))
<1> DEFINE f == [T.ref EXCEPT ![c] = @ + 1]
           posted == (T.ref[c] = 0)
<1>1. f \in [Cwd -> Nat] /\ \A d \in Cwd \ {c} : f[d] = T.ref[d]
  BY DEF Tables
<1>2. posted \in BOOLEAN /\ f[c] > 0 /\ (~posted => T.ref[c] > 0)
  BY DEF Tables
<1>3. Retain(T, c) = IF posted THEN postToWorker(WithRef(T, f), Message("attach-watch", c))
                     ELSE WithRef(T, f)
  BY DEF Retain, WithRef
<1> HIDE DEF f, posted
<1> QED BY <1>1, <1>2, <1>3, KeepsCount

LEMMA ReleaseKeeps ==
  ASSUME NEW T \in Tables, NEW c \in Cwd, T.ref[c] > 0
  PROVE  Keeps(T, Release(T, c))
<1> DEFINE f == [T.ref EXCEPT ![c] = @ - 1]
           posted == (T.ref[c] = 1)
<1>1. f \in [Cwd -> Nat] /\ \A d \in Cwd \ {c} : f[d] = T.ref[d]
  BY DEF Tables
<1>2. posted \in BOOLEAN /\ (posted => ~(f[c] > 0)) /\ (~posted => f[c] > 0)
  BY DEF Tables
<1>3. Release(T, c) = IF posted THEN postToWorker(WithRef(T, f), Message("detach-watch", c))
                      ELSE WithRef(T, f)
  BY DEF Release, WithRef
<1> HIDE DEF f, posted
<1> QED BY <1>1, <1>2, <1>3, KeepsCount

\* The main process's share is not what the worker follows.
LEMMA OwnKeeps ==
  ASSUME NEW T \in Tables, NEW g \in [Cwd -> Nat]
  PROVE  Keeps(T, WithOwn(T, g)) /\ WithOwn(T, g).ref = T.ref
BY CountTables, CountInbox, SameFocusRefl DEF Keeps, Follows

LEMMA SubscribeKeeps ==
  ASSUME NEW T \in Tables, NEW c \in Cwd
  PROVE  Keeps(T, internalSubscribe(T, c))
<1> DEFINE f == [T.own EXCEPT ![c] = @ + 1]
           U == WithOwn(T, f)
<1>1. f \in [Cwd -> Nat]
  BY CountsTyped
<1>2. internalSubscribe(T, c) = Retain(U, c)
  BY DEF internalSubscribe, WithOwn
<1> HIDE DEF f
<1>3. Keeps(T, U) /\ U \in Tables
  BY <1>1, OwnKeeps, CountTables
<1> HIDE DEF U
<1> QED BY <1>2, <1>3, RetainKeeps, KeepsTrans

LEMMA UnsubscribeKeeps ==
  ASSUME NEW T \in Tables, NEW c \in Cwd, T.own[c] > 0, T.ref[c] > 0
  PROVE  Keeps(T, internalUnsubscribe(T, c))
<1> DEFINE f == [T.own EXCEPT ![c] = @ - 1]
           U == WithOwn(T, f)
<1>1. f \in [Cwd -> Nat]
  BY DEF Tables
<1>2. internalUnsubscribe(T, c) = Release(U, c)
  BY DEF internalUnsubscribe, WithOwn
<1> HIDE DEF f
<1>3. Keeps(T, U) /\ U \in Tables /\ U.ref[c] > 0
  BY <1>1, OwnKeeps, CountTables
<1> HIDE DEF U
<1> QED BY <1>2, <1>3, ReleaseKeeps, KeepsTrans

LEMMA SubscribeTimesKeeps ==
  ASSUME NEW T \in Tables, NEW c \in Cwd, NEW n \in Nat
  PROVE  Keeps(T, internalSubscribeTimes(T, c, n))
<1>1. CASE n = 0
  BY <1>1, SameFocusRefl DEF internalSubscribeTimes, Keeps
<1>2. CASE n > 0
  <2> DEFINE U == internalSubscribe(T, c)
             f == [U.ref EXCEPT ![c] = @ + (n - 1)]
             g == [U.own EXCEPT ![c] = @ + (n - 1)]
             W == WithRef(U, f)
  <2>1. Keeps(T, U) /\ Rises(T, U, c, 1)
    BY SubscribeKeeps, SubscribeTables
  <2>2. internalSubscribeTimes(T, c, n) = WithOwn(W, g)
    <3>1. internalSubscribeTimes(T, c, n) = [U EXCEPT !.ref = f, !.own = g]
      BY <1>2 DEF internalSubscribeTimes
    <3> QED BY <3>1 DEF WithRef, WithOwn
  <2> HIDE DEF U
  <2>3. U \in Tables /\ U.ref \in [Cwd -> Nat] /\ U.own \in [Cwd -> Nat] /\ U.ref[c] > 0
    BY <2>1, CountsTyped DEF Rises, Tables
  <2>4. /\ f \in [Cwd -> Nat] /\ g \in [Cwd -> Nat] /\ f[c] > 0
        /\ \A d \in Cwd \ {c} : f[d] = U.ref[d]
    BY <1>2, <2>3
  <2> HIDE DEF f, g
  <2>5. Keeps(U, W)
    <3>1. (~FALSE) => (U.ref[c] > 0 <=> f[c] > 0)
      BY <2>3, <2>4
    <3>2. Keeps(U, IF FALSE THEN postToWorker(W, Message("attach-watch", c)) ELSE W)
      BY <2>3, <2>4, <3>1, KeepsCount
    <3> QED BY <3>2
  <2>6. W \in Tables
    BY <2>5 DEF Keeps
  <2> HIDE DEF W
  <2> QED BY <2>1, <2>2, <2>4, <2>5, <2>6, OwnKeeps, KeepsTrans
<1> QED BY <1>1, <1>2

\* A focus message leaves the watches, and sets the focus of a worker there is.
LEMMA FocusKeeps ==
  ASSUME NEW T \in Tables, NEW d \in Cwd \cup {None}
  PROVE  LET U == setReconcileFocus(T, d)
         IN /\ U \in Tables /\ (Follows(T) => Follows(U))
            /\ worker # "none" => FocusesOn(U.inbox, d)
<1> DEFINE m == Message("reconcile-focus", d)
           U == setReconcileFocus(T, d)
<1>1. m \in Messages /\ m.kind = "reconcile-focus" /\ m.cwd = d
  BY DEF Message, Messages
<1>2. U = postToWorker(T, m)
  BY DEF setReconcileFocus
<1> HIDE DEF m, U
<1>3. U \in Tables /\ U.ref = T.ref /\ T.inbox \in Seq(Messages)
      /\ U.inbox = IF worker = "none" THEN T.inbox ELSE Append(T.inbox, m)
  BY <1>1, <1>2, PostTables, PostInbox
<1>4. ASSUME worker # "none", NEW c \in Cwd
      PROVE  WatchedAfter(U.inbox, c, watch[c] # "no") <=> WatchedAfter(T.inbox, c, watch[c] # "no")
  <2> DEFINE b == watch[c] # "no"
  <2>1. b \in BOOLEAN /\ U.inbox = Append(T.inbox, m) /\ ~IsAbout(m, c)
    BY <1>1, <1>3, <1>4 DEF IsAbout
  <2> HIDE DEF b
  <2>2. WatchedAfter(U.inbox, c, b) <=> WatchedAfter(T.inbox, c, b)
    BY <1>1, <1>3, <2>1, AppendWatched
  <2> QED BY <2>2 DEF b
<1>5. Follows(T) => Follows(U)
  BY <1>3, <1>4 DEF Follows
<1>6. worker # "none" => FocusesOn(U.inbox, d)
  BY <1>1, <1>3, AppendFocus DEF IsFocus
<1> QED BY <1>3, <1>5, <1>6 DEF U


-----------------------------------------------------------------------------
(* The worker follows: each step, from the counts' invariant above *)

\* no focus, or the one of the user
Here(k) == k = None \/ (focused # None /\ entry[focused].cwd = k)

\* Where the worker's focus will be once it has handled its inbox.
FocusHere ==
  worker # "none" =>
    /\ NoFocus(tables.inbox) => Here(focusKey)
    /\ \A i : FocusAt(tables.inbox, i) => Here(tables.inbox[i].cwd)

\* A worker that is gone has left nothing; only then one is waited for.
Gone ==
  /\ respawnTimer => worker = "none"
  /\ worker = "none" => focusKey = None /\ \A c \in Cwd : watch[c] = "no"

FollowInv == Follows(tables) /\ FocusHere /\ Gone

LEMMA LifeStays ==
  ASSUME UNCHANGED <<life, inside>>
  PROVE  /\ UNCHANGED <<worker, respawnTimer, respawnAttempt, crashes, watch, focusKey>>
         /\ Gone => Gone'
         /\ Follows(tables') => Follows(tables)'
BY DEF life, inside, Gone, Follows

\* A step that leaves the worker and moves no focus away from the user.
LEMMA CarriesOn ==
  ASSUME FollowInv, UNCHANGED <<life, inside>>, Keeps(tables, tables'),
         \A k \in Cwd : Here(k) => (focused' # None /\ entry'[focused'].cwd = k),
         TypeOK
  PROVE  FollowInv'
<1>1. UNCHANGED <<worker, focusKey>> /\ Gone' /\ Follows(tables)'
  BY LifeStays DEF FollowInv, Keeps
<1>2. \A k \in Cwd \cup {None} : Here(k) => k = None \/ (focused' # None /\ entry'[focused'].cwd = k)
  OBVIOUS
<1>3. SameFocus(tables.inbox, tables'.inbox) /\ tables.inbox \in Seq(Messages) /\ focusKey \in Cwd \cup {None}
  BY DEF Keeps, TypeOK, Tables
<1>4. \A i : FocusAt(tables.inbox, i) => tables.inbox[i].cwd \in Cwd \cup {None}
  <2> SUFFICES ASSUME NEW i, FocusAt(tables.inbox, i) PROVE tables.inbox[i].cwd \in Cwd \cup {None}
    OBVIOUS
  <2>1. tables.inbox[i] \in Messages
    BY <1>3 DEF FocusAt
  <2> QED BY <2>1 DEF Messages
<1>5. FocusHere'
  <2> SUFFICES ASSUME worker' # "none"
               PROVE  /\ NoFocus(tables'.inbox) => Here(focusKey)'
                      /\ \A i : FocusAt(tables'.inbox, i) => Here(tables.inbox[i].cwd)'
    BY DEF FocusHere, NoFocus, FocusAt, IsFocus
  <2>1. /\ NoFocus(tables.inbox) => Here(focusKey)
        /\ \A i : FocusAt(tables.inbox, i) => Here(tables.inbox[i].cwd)
    BY <1>1 DEF FollowInv, FocusHere
  <2>2. NoFocus(tables'.inbox) => Here(focusKey)'
    <3>1. NoFocus(tables'.inbox) => Here(focusKey)
      BY <1>3, <2>1 DEF SameFocus
    <3> QED BY <1>1, <1>2, <1>3, <3>1 DEF Here
  <2>3. ASSUME NEW i, FocusAt(tables'.inbox, i) PROVE Here(tables.inbox[i].cwd)'
    <3>1. PICK j : FocusAt(tables.inbox, j) /\ tables.inbox[j].cwd = tables'.inbox[i].cwd
      BY <1>3, <2>3 DEF SameFocus
    <3>2. Here(tables'.inbox[i].cwd) /\ tables'.inbox[i].cwd \in Cwd \cup {None}
      BY <2>1, <1>4, <3>1
    <3> QED BY <1>2, <3>2 DEF Here
  <2> QED BY <2>2, <2>3
<1> QED BY <1>1, <1>5 DEF FollowInv

\* A step that leaves the worker and tells it where the user is.
LEMMA Refocuses ==
  ASSUME FollowInv, UNCHANGED <<life, inside>>, Follows(tables'), NEW d,
         worker # "none" => FocusesOn(tables'.inbox, d),
         d = None \/ (focused' # None /\ entry'[focused'].cwd = d)
  PROVE  FollowInv'
<1>1. UNCHANGED worker /\ Gone' /\ Follows(tables)'
  BY LifeStays DEF FollowInv
<1>2. ASSUME worker' # "none"
      PROVE  /\ ~NoFocus(tables'.inbox)
             /\ \A i : FocusAt(tables'.inbox, i) => Here(tables.inbox[i].cwd)'
  <2>1. FocusesOn(tables'.inbox, d)
    BY <1>1, <1>2
  <2> QED BY <2>1 DEF FocusesOn, Here
<1>3. FocusHere'
  BY <1>2 DEF FocusHere, NoFocus, FocusAt, IsFocus
<1> QED BY <1>1, <1>3 DEF FollowInv

LEMMA KeepsSelf == ASSUME NEW T \in Tables PROVE Keeps(T, T)
BY SameFocusRefl DEF Keeps

\* What a terminal gives up is counted.
LEMMA DetachKeeps ==
  ASSUME IInv, NEW t \in Terminal
  PROVE  Keeps(tables, detachMirror(tables, t))
<1> DEFINE d == entry[t].cwd
<1>1. d \in Cwd \cup {None} /\ tables \in Tables /\ Fits(tables, t, d)
  BY Stays DEF IInv, TypeOK
<1>2. CASE d = None
  BY <1>1, <1>2, KeepsSelf DEF detachMirror
<1>3. CASE d # None
  <2>1. d \in Cwd
    BY <1>1, <1>3
  <2>2. /\ Cardinality(Others(t, d)) \in Nat /\ Cardinality(Subscribers(d)) \in Nat
        /\ tables.own[d] \in Nat /\ tables.ref[d] \in Nat
    BY <1>1, <2>1, OthersCounted, CountsAreNat DEF Tables
  <2>3. tables.own[d] > 0 /\ tables.ref[d] > 0
    BY <1>1, <2>1, <2>2 DEF Fits, One
  <2> QED BY <1>1, <1>3, <2>1, <2>3, UnsubscribeKeeps DEF detachMirror
<1> QED BY <1>2, <1>3

\* A move carries the subscription, and the focus when the terminal has it.
LEMMA MovedKeeps ==
  ASSUME IInv, NEW t \in Terminal, NEW c \in Cwd
  PROVE  LET M == Moved(tables, t, c)
         IN /\ M \in Tables /\ (Follows(tables) => Follows(M))
            /\ \/ Keeps(tables, M) /\ (t = focused /\ entry[t].on => entry[t].cwd = c)
               \/ t = focused /\ (worker # "none" => FocusesOn(M.inbox, c)) /\ entry[t].on
<1> DEFINE D == detachMirror(tables, t)
           A == attachMirror(D, c)
           M == Moved(tables, t, c)
<1>1. M = IF ~entry[t].on \/ entry[t].cwd = c THEN tables
          ELSE IF t = focused THEN setReconcileFocus(A, c) ELSE A
  BY DEF Moved
<1>2. Keeps(tables, D)
  BY DetachKeeps
<1> HIDE DEF D
<1>3. Keeps(D, A)
  BY <1>2, SubscribeKeeps DEF Keeps, attachMirror
<1> HIDE DEF A, M
<1>4. Keeps(tables, A) /\ A \in Tables
  BY <1>2, <1>3, KeepsTrans DEF Keeps
<1>5. CASE ~entry[t].on \/ entry[t].cwd = c
  <2>1. M = tables /\ Keeps(tables, M)
    BY <1>1, <1>5, KeepsSelf DEF IInv, TypeOK
  <2> QED BY <1>5, <2>1 DEF Keeps, M
<1>6. CASE ~(~entry[t].on \/ entry[t].cwd = c) /\ t = focused
  <2>1. M = setReconcileFocus(A, c)
    BY <1>1, <1>6
  <2>2. /\ M \in Tables /\ (Follows(A) => Follows(M)) /\ (worker # "none" => FocusesOn(M.inbox, c))
    BY <1>4, <2>1, FocusKeeps
  <2> QED BY <1>4, <1>6, <2>2 DEF Keeps, M
<1>7. CASE ~(~entry[t].on \/ entry[t].cwd = c) /\ t # focused
  <2>1. M = A
    BY <1>1, <1>7
  <2> QED BY <1>4, <1>7, <2>1 DEF Keeps, M
<1> QED BY <1>5, <1>6, <1>7

LEMMA pushFollows ==
  ASSUME IInv, FollowInv, NEW t \in Terminal, NEW c \in Cwd, pushTerminalCwd(t, c)
  PROVE  FollowInv'
<1>1. /\ UNCHANGED <<life, inside>> /\ focused' = focused /\ tables' = Moved(tables, t, c)
      /\ \A u \in Terminal \ {t} : entry'[u] = entry[u]
      /\ entry'[t].cwd = IF entry[t].on THEN c ELSE entry[t].cwd
  BY DEF pushTerminalCwd, IInv, TypeOK
<1>2. focused \in Terminal \cup {None} /\ TypeOK
  BY DEF IInv, TypeOK
<1>3. CASE Keeps(tables, tables') /\ (t = focused /\ entry[t].on => entry[t].cwd = c)
  <2>1. \A k \in Cwd : Here(k) => (focused' # None /\ entry'[focused'].cwd = k)
    BY <1>1, <1>2, <1>3, ConstantTypes DEF Here
  <2> QED BY <1>1, <1>2, <1>3, <2>1, CarriesOn
<1>4. CASE t = focused /\ (worker # "none" => FocusesOn(tables'.inbox, c)) /\ entry[t].on
  <2>1. focused' # None /\ entry'[focused'].cwd = c
    BY <1>1, <1>4, NoneIsNoTerminal
  <2>2. Follows(tables')
    BY <1>1, MovedKeeps DEF FollowInv
  <2> QED BY <1>1, <1>4, <2>1, <2>2, Refocuses
<1> QED BY <1>1, <1>3, <1>4, MovedKeeps

LEMMA ProbeEndsFollows ==
  ASSUME IInv, FollowInv, NEW t \in Terminal, NEW c \in Cwd \cup {None}, ProbeEnds(t, c)
  PROVE  FollowInv'
<1> DEFINE again == IF entry[t].on THEN waiting[t] ELSE 0
           M == Moved(tables, t, c)
<1>1. /\ UNCHANGED <<life, inside>> /\ focused' = focused
      /\ tables' = IF c = None THEN tables ELSE internalSubscribeTimes(M, c, again)
      /\ \A u \in Terminal \ {t} : entry'[u] = entry[u]
      /\ entry'[t].cwd = IF entry[t].on /\ c # None THEN c ELSE entry[t].cwd
  BY DEF ProbeEnds, IInv, TypeOK
<1>2. /\ focused \in Terminal \cup {None} /\ TypeOK /\ tables \in Tables /\ again \in Nat
  BY ConstantTypes DEF IInv, TypeOK
<1> HIDE DEF again
<1>3. CASE c = None
  <2>1. Keeps(tables, tables')
    BY <1>1, <1>2, <1>3, KeepsSelf
  <2>2. \A k \in Cwd : Here(k) => (focused' # None /\ entry'[focused'].cwd = k)
    BY <1>1, <1>2, <1>3, ConstantTypes DEF Here
  <2> QED BY <1>1, <1>2, <2>1, <2>2, CarriesOn
<1>4. CASE c # None
  <2>c. c \in Cwd
    BY <1>4
  <2>1. /\ M \in Tables /\ (Follows(tables) => Follows(M))
        /\ \/ Keeps(tables, M) /\ (t = focused /\ entry[t].on => entry[t].cwd = c)
           \/ t = focused /\ (worker # "none" => FocusesOn(M.inbox, c)) /\ entry[t].on
    BY <2>c, MovedKeeps
  <2> HIDE DEF M
  <2>2. Keeps(M, tables')
    BY <1>1, <1>2, <1>4, <2>c, <2>1, SubscribeTimesKeeps
  <2>3. CASE Keeps(tables, M) /\ (t = focused /\ entry[t].on => entry[t].cwd = c)
    <3>1. Keeps(tables, tables')
      BY <2>2, <2>3, KeepsTrans
    <3>2. \A k \in Cwd : Here(k) => (focused' # None /\ entry'[focused'].cwd = k)
      BY <1>1, <1>2, <1>4, <2>3, ConstantTypes DEF Here
    <3> QED BY <1>1, <1>2, <3>1, <3>2, CarriesOn
  <2>4. CASE t = focused /\ (worker # "none" => FocusesOn(M.inbox, c)) /\ entry[t].on
    <3>1. focused' # None /\ entry'[focused'].cwd = c
      BY <1>1, <1>4, <2>4, NoneIsNoTerminal
    <3>2. Follows(tables')
      BY <2>1, <2>2 DEF FollowInv, Keeps
    <3>3. worker # "none" => FocusesOn(tables'.inbox, c)
      BY <2>2, <2>4 DEF Keeps, SameFocus, FocusesOn
    <3> QED BY <1>1, <3>1, <3>2, <3>3, Refocuses
  <2> QED BY <2>1, <2>3, <2>4
<1> QED BY <1>3, <1>4

LEMMA BridgeSubscribeFollows ==
  ASSUME IInv, FollowInv, NEW t \in Terminal, BridgeSubscribe(t)
  PROVE  FollowInv'
<1> DEFINE c == terminalCwds[t]
<1>1. /\ UNCHANGED <<life, inside>> /\ focused' = focused /\ entry[t].cwd = None
      /\ tables' = IF c = None THEN tables ELSE attachMirror(tables, c)
      /\ \A u \in Terminal \ {t} : entry'[u] = entry[u]
  BY DEF BridgeSubscribe, IInv, TypeOK, TerminalsCounted
<1>2. focused \in Terminal \cup {None} /\ TypeOK /\ tables \in Tables /\ c \in Cwd \cup {None}
  BY DEF IInv, TypeOK
<1> HIDE DEF c
<1>3. Keeps(tables, tables')
  BY <1>1, <1>2, KeepsSelf, SubscribeKeeps DEF attachMirror
<1>4. \A k \in Cwd : Here(k) => (focused' # None /\ entry'[focused'].cwd = k)
  BY <1>1, <1>2, ConstantTypes DEF Here
<1> QED BY <1>1, <1>2, <1>3, <1>4, CarriesOn

LEMMA BridgeUnsubscribeFollows ==
  ASSUME IInv, FollowInv, NEW t \in Terminal, BridgeUnsubscribe(t)
  PROVE  FollowInv'
<1> DEFINE D == detachMirror(tables, t)
<1>1. /\ UNCHANGED <<life, inside>> /\ focused' = IF t = focused THEN None ELSE focused
      /\ tables' = IF t = focused THEN setReconcileFocus(D, None) ELSE D
      /\ \A u \in Terminal \ {t} : entry'[u] = entry[u]
  BY DEF BridgeUnsubscribe, IInv, TypeOK
<1>2. focused \in Terminal \cup {None} /\ TypeOK /\ Keeps(tables, D)
  BY DetachKeeps DEF IInv, TypeOK
<1> HIDE DEF D
<1>3. CASE t = focused
  <2>1. Follows(D) /\ D \in Tables
    BY <1>2 DEF FollowInv, Keeps
  <2>2. Follows(tables') /\ (worker # "none" => FocusesOn(tables'.inbox, None))
    BY <1>1, <1>3, <2>1, FocusKeeps
  <2> QED BY <1>1, <2>2, Refocuses
<1>4. CASE t # focused
  <2>1. \A k \in Cwd : Here(k) => (focused' # None /\ entry'[focused'].cwd = k)
    BY <1>1, <1>2, <1>4, ConstantTypes DEF Here
  <2> QED BY <1>1, <1>2, <1>4, <2>1, CarriesOn
<1> QED BY <1>3, <1>4

LEMMA notifyFocusFollows ==
  ASSUME IInv, FollowInv, NEW t \in Terminal, notifyFocus(t)
  PROVE  FollowInv'
<1> DEFINE d == entry[t].cwd
<1>1. /\ UNCHANGED <<life, inside>> /\ focused' = t /\ entry' = entry
      /\ tables' = setReconcileFocus(tables, d)
  BY DEF notifyFocus
<1>2. d \in Cwd \cup {None} /\ tables \in Tables
  BY DEF IInv, TypeOK
<1>3. focused' # None /\ entry'[focused'].cwd = d
  BY <1>1, NoneIsNoTerminal
<1> HIDE DEF d
<1>4. Follows(tables') /\ (worker # "none" => FocusesOn(tables'.inbox, d))
  BY <1>1, <1>2, FocusKeeps DEF FollowInv
<1> QED BY <1>1, <1>3, <1>4, Refocuses


\* The windows: none of their steps is about the focus.
LEMMA WindowFollows ==
  ASSUME IInv, FollowInv, UNCHANGED <<bridge, life, inside>>, Keeps(tables, tables')
  PROVE  FollowInv'
<1>1. entry' = entry /\ focused' = focused
  BY DEF bridge
<1>2. \A k \in Cwd : Here(k) => (focused' # None /\ entry'[focused'].cwd = k)
  BY <1>1, ConstantTypes DEF Here
<1>3. TypeOK
  BY DEF IInv
<1> QED BY <1>2, <1>3, CarriesOn

LEMMA drainFollows ==
  ASSUME IInv, FollowInv, NEW r \in Renderer, drainRendererSubscriptions(r)
  PROVE  FollowInv'
<1> DEFINE last == {c \in Cwd : subs[r][c] > 0 /\ tables.ref[c] = 1}
           f == [c \in Cwd |-> IF subs[r][c] > 0 THEN tables.ref[c] - 1 ELSE tables.ref[c]]
           s == ToEach("detach-watch", last)
           q == IF worker = "none" THEN tables.inbox ELSE tables.inbox \o s
<1>1. UNCHANGED <<bridge, life, inside>> /\ tables' = [tables EXCEPT !.ref = f, !.inbox = q]
  BY DEF drainRendererSubscriptions
<1>2. tables \in Tables /\ tables.inbox \in Seq(Messages) /\ tables.ref \in [Cwd -> Nat]
  BY DEF IInv, TypeOK, Tables
<1>3. /\ f \in [Cwd -> Nat]
      /\ \A c \in Cwd : f[c] > 0 <=> tables.ref[c] > 0 /\ c \notin last
  <2>1. \A c \in Cwd : subs[r][c] > 0 => tables.ref[c] > 0
    BY SubscriberCounts
  <2> QED BY <1>2, <2>1
<1>4. last \in SUBSET Cwd
  OBVIOUS
<1> HIDE DEF last, f
<1>5. /\ q \in Seq(Messages) /\ SameFocus(tables.inbox, q)
      /\ worker # "none" => \A c \in Cwd, b \in BOOLEAN :
           WatchedAfter(q, c, b) <=> (c \notin last /\ WatchedAfter(tables.inbox, c, b))
  <2>1. s \in Seq(Messages) /\ SameFocus(tables.inbox, tables.inbox \o s)
    BY <1>2, <1>4, ToEachTyped, BatchFocus
  <2>2. \A c \in Cwd, b \in BOOLEAN :
          WatchedAfter(tables.inbox \o s, c, b)
            <=> IF c \in last THEN "detach-watch" = "attach-watch" ELSE WatchedAfter(tables.inbox, c, b)
    BY <1>2, <1>4, BatchWatched
  <2> HIDE DEF s
  <2>3. tables.inbox \o s \in Seq(Messages)
    BY <1>2, <2>1
  <2> QED BY <1>2, <2>1, <2>2, <2>3, SameFocusRefl
<1> HIDE DEF q
<1>6. tables' \in Tables /\ tables'.ref = f /\ tables'.inbox = q
  BY <1>1, <1>2, <1>3, <1>5 DEF Tables
<1>7. Follows(tables) => Follows(tables')
  <2> SUFFICES ASSUME Follows(tables), worker # "none", NEW c \in Cwd
               PROVE  WatchedAfter(q, c, watch[c] # "no") <=> f[c] > 0
    BY <1>6 DEF Follows
  <2>1. WatchedAfter(tables.inbox, c, watch[c] # "no") <=> tables.ref[c] > 0
    BY DEF Follows
  <2>2. (watch[c] # "no") \in BOOLEAN
    OBVIOUS
  <2>3. WatchedAfter(q, c, watch[c] # "no")
          <=> (c \notin last /\ WatchedAfter(tables.inbox, c, watch[c] # "no"))
    BY <1>5, <2>2
  <2> QED BY <1>3, <2>1, <2>3
<1>8. Keeps(tables, tables')
  BY <1>5, <1>6, <1>7 DEF Keeps
<1> QED BY <1>1, <1>8, WindowFollows

LEMMA WindowsFollow ==
  ASSUME IInv, FollowInv, NEW r \in Renderer,
         Commit(r) \/ \E c \in Cwd : Subscribe(r, c) \/ Unsubscribe(r, c)
  PROVE  FollowInv'
<1>t. tables \in Tables
  BY DEF IInv, TypeOK
<1>1. CASE Commit(r)
  <2>1. tables' = tables /\ UNCHANGED <<bridge, life, inside>>
    BY <1>1 DEF Commit
  <2> QED BY <1>t, <2>1, KeepsSelf, WindowFollows
<1>2. ASSUME NEW c \in Cwd, Subscribe(r, c) PROVE FollowInv'
  <2>1. /\ tables' = IF subs[r][c] = 0 THEN Retain(tables, c) ELSE tables
        /\ UNCHANGED <<bridge, life, inside>>
    BY <1>2 DEF Subscribe
  <2>2. Keeps(tables, tables')
    BY <1>t, <2>1, KeepsSelf, RetainKeeps
  <2> QED BY <2>1, <2>2, WindowFollows
<1>3. ASSUME NEW c \in Cwd, Unsubscribe(r, c) PROVE FollowInv'
  <2>1. /\ tables' = IF subs[r][c] = 1 THEN Release(tables, c) ELSE tables
        /\ UNCHANGED <<bridge, life, inside>>
    BY <1>3 DEF Unsubscribe, dropSubscription
  <2>2. subs[r][c] = 1 => tables.ref[c] > 0
    BY SubscriberCounts
  <2>3. Keeps(tables, tables')
    BY <1>t, <2>1, <2>2, KeepsSelf, ReleaseKeeps
  <2> QED BY <2>1, <2>3, WindowFollows
<1> QED BY <1>1, <1>2, <1>3

\* The worker takes a message: what it made the worker do, it no longer promises.
LEMMA HandleFollows == ASSUME IInv, FollowInv, Handle PROVE FollowInv'
<1> DEFINE q == tables.inbox
           m == Head(q)
           R == Tail(q)
<1>1. /\ UNCHANGED <<worker, respawnTimer, entry, focused>> /\ worker = "up" /\ q # <<>>
      /\ watch' = IF m.kind = "reconcile-focus" THEN watch
                  ELSE [watch EXCEPT ![m.cwd] =
                          IF m.kind = "detach-watch" THEN "no"
                          ELSE IF @ = "no" THEN "attaching" ELSE @]
      /\ focusKey' \in IF m.kind # "reconcile-focus" THEN {focusKey} ELSE {m.cwd, None}
      /\ tables' = [tables EXCEPT !.inbox = R]
  BY DEF Handle, life, bridge
<1>2. /\ q \in Seq(Messages) /\ tables \in Tables
      /\ watch \in [Cwd -> {"no", "attaching", "joined"}]
  BY DEF IInv, TypeOK, Tables
<1>3. tables'.inbox = R /\ tables'.ref = tables.ref
  BY <1>1, <1>2 DEF Tables
<1>4. /\ Len(q) \in Nat /\ Len(q) > 0 /\ DOMAIN q = 1..Len(q) /\ DOMAIN R = 1..(Len(q) - 1)
      /\ m = q[1] /\ \A i \in 1..(Len(q) - 1) : R[i] = q[i + 1]
  BY <1>1, <1>2, TailFacts
<1>5. m \in Messages
  <2>1. q[1] \in Messages
    BY <1>2, <1>4
  <2> QED BY <1>4, <2>1
<1>6. \A c \in Cwd : (watch'[c] # "no")
                       <=> IF IsAbout(m, c) THEN m.kind = "attach-watch" ELSE watch[c] # "no"
  <2>1. m.kind # "reconcile-focus" => m.kind \in {"attach-watch", "detach-watch"} /\ m.cwd \in Cwd
    BY <1>5 DEF Messages
  <2> HIDE DEF m
  <2> QED BY <1>1, <1>2, <2>1 DEF IsAbout
<1>7. Follows(tables)'
  <2> SUFFICES ASSUME NEW c \in Cwd
               PROVE  WatchedAfter(R, c, watch'[c] # "no") <=> tables.ref[c] > 0
    BY <1>3 DEF Follows, WatchedAfter
  <2> DEFINE b == watch[c] # "no"
             n == IF IsAbout(m, c) THEN m.kind = "attach-watch" ELSE b
  <2>1. WatchedAfter(q, c, b) <=> tables.ref[c] > 0
    BY <1>1 DEF FollowInv, Follows
  <2>2. b \in BOOLEAN
    OBVIOUS
  <2>3. (watch'[c] # "no") = n
    BY <1>6
  <2>4. WatchedAfter(q, c, b) <=> WatchedAfter(R, c, n)
    <3> HIDE DEF b
    <3> QED BY <1>1, <1>2, <2>2, TailWatched
  <2> HIDE DEF n, b, R, q, m
  <2> QED BY <2>1, <2>3, <2>4
<1>8. FocusHere'
  <2>h. /\ NoFocus(q) => Here(focusKey)
        /\ \A i : FocusAt(q, i) => Here(q[i].cwd)
    BY <1>1 DEF FollowInv, FocusHere
  <2> SUFFICES /\ NoFocus(R) => Here(focusKey')
               /\ \A i : FocusAt(R, i) => Here(R[i].cwd)
    BY <1>1, <1>3 DEF FocusHere, Here, NoFocus, FocusAt, IsFocus
  <2> HIDE DEF R, m, q
  <2>1. \A i \in DOMAIN q : i = 1 \/ (i - 1 \in DOMAIN R /\ R[i - 1] = q[i])
    <3> TAKE i \in DOMAIN q
    <3>1. CASE i # 1
      <4>1. i - 1 \in 1..(Len(q) - 1) /\ (i - 1) + 1 = i
        BY <1>4, <3>1
      <4> QED BY <1>4, <4>1
    <3> QED BY <3>1
  <2>2. CASE NoFocus(R)
    <3>1. CASE IsFocus(m)
      <4>1. \A j \in DOMAIN q : IsFocus(q[j]) => j <= 1
        BY <1>4, <2>1, <2>2 DEF NoFocus
      <4>2. FocusAt(q, 1)
        BY <1>4, <3>1, <4>1 DEF FocusAt
      <4>3. Here(m.cwd)
        BY <1>4, <2>h, <4>2
      <4>4. focusKey' \in {m.cwd, None}
        BY <1>1, <3>1 DEF IsFocus
      <4>5. Here(focusKey')
        BY <4>3, <4>4 DEF Here
      <4> QED BY <2>2, <4>5 DEF NoFocus, FocusAt
    <3>2. CASE ~IsFocus(m)
      <4>1. NoFocus(q)
        BY <1>4, <2>1, <2>2, <3>2 DEF NoFocus
      <4>2. focusKey' = focusKey
        BY <1>1, <3>2 DEF IsFocus
      <4> QED BY <2>h, <2>2, <4>1, <4>2 DEF NoFocus, FocusAt
    <3> QED BY <3>1, <3>2
  <2>3. CASE ~NoFocus(R)
    <3> SUFFICES ASSUME NEW i, FocusAt(R, i) PROVE Here(R[i].cwd)
      BY <2>3
    <3>1. i \in 1..(Len(q) - 1) /\ R[i] = q[i + 1] /\ IsFocus(R[i])
      BY <1>4 DEF FocusAt
    <3>2. i + 1 \in DOMAIN q
      BY <1>4, <3>1
    <3>3. \A j \in DOMAIN q : IsFocus(q[j]) => j <= i + 1
      <4> SUFFICES ASSUME NEW j \in DOMAIN q, IsFocus(q[j]), j # 1 PROVE j <= i + 1
        BY <1>4, <3>1
      <4>1. j - 1 \in DOMAIN R /\ R[j - 1] = q[j]
        BY <2>1
      <4>2. j - 1 <= i
        BY <4>1 DEF FocusAt
      <4> QED BY <1>4, <3>1, <4>2
    <3>4. FocusAt(q, i + 1)
      BY <3>1, <3>2, <3>3 DEF FocusAt
    <3> QED BY <2>h, <3>1, <3>4
  <2> QED BY <2>2, <2>3
<1>9. Gone'
  BY <1>1 DEF FollowInv, Gone
<1> QED BY <1>7, <1>8, <1>9 DEF FollowInv

\* A new worker is told of every directory that is counted, and it has none.
LEMMA spawnFollows == ASSUME IInv, FollowInv, spawnWorker, tables' # tables \/ worker' # worker
                    PROVE  FollowInv'
<1> DEFINE C == {c \in Cwd : tables.ref[c] > 0}
           s == ToEach("attach-watch", C)
<1>1. /\ respawnTimer /\ ~respawnTimer' /\ worker' = "booting"
      /\ UNCHANGED <<entry, focused, watch, focusKey>>
      /\ tables' = [tables EXCEPT !.inbox = s]
  BY DEF spawnWorker, reattachAllAfterRespawn, bridge, inside
<1>2. focusKey = None /\ \A c \in Cwd : watch[c] = "no"
  BY <1>1 DEF FollowInv, Gone
<1>3. tables'.inbox = s /\ tables'.ref = tables.ref
  BY <1>1 DEF IInv, TypeOK, Tables
<1>4. C \in SUBSET Cwd
  OBVIOUS
<1>5. s \in Seq(Messages) /\ NoFocus(s)
  <2>1. s \in Seq(Messages) /\ \A i \in DOMAIN s : s[i].kind = "attach-watch"
    BY <1>4, ToEachFacts
  <2> QED BY <2>1 DEF NoFocus, IsFocus
<1>6. \A c \in Cwd : WatchedAfter(s, c, FALSE) <=> c \in C
  <2>1. <<>> \in Seq(Messages) /\ <<>> \o s = s
    BY <1>5
  <2>2. \A c \in Cwd : WatchedAfter(<<>> \o s, c, FALSE)
                         <=> IF c \in C THEN "attach-watch" = "attach-watch"
                             ELSE WatchedAfter(<<>>, c, FALSE)
    BY <1>4, <2>1, BatchWatched
  <2>3. \A c \in Cwd : ~WatchedAfter(<<>>, c, FALSE)
    BY DEF WatchedAfter
  <2> QED BY <2>1, <2>2, <2>3
<1> HIDE DEF s
<1>7. Follows(tables)'
  <2> SUFFICES ASSUME NEW c \in Cwd
               PROVE  WatchedAfter(s, c, watch'[c] # "no") <=> tables.ref[c] > 0
    BY <1>3 DEF Follows, WatchedAfter
  <2>1. (watch'[c] # "no") = FALSE
    BY <1>1, <1>2
  <2> QED BY <1>6, <2>1
<1>8. FocusHere'
  BY <1>1, <1>2, <1>3, <1>5 DEF FocusHere, Here, NoFocus, FocusAt, IsFocus
<1>9. Gone'
  BY <1>1 DEF Gone
<1> QED BY <1>7, <1>8, <1>9 DEF FollowInv

LEMMA SystemFollows == ASSUME IInv, FollowInv, System PROVE FollowInv'
<1>1. CASE Ready
  <2>1. UNCHANGED <<tables, entry, focused, watch, focusKey, respawnTimer>>
        /\ worker = "booting" /\ worker' = "up"
    BY <1>1 DEF Ready, bridge, inside
  <2>2. Follows(tables)'
    BY <2>1 DEF FollowInv, Follows, WatchedAfter
  <2>3. FocusHere'
    BY <2>1 DEF FollowInv, FocusHere, Here, NoFocus, FocusAt
  <2>4. Gone'
    BY <2>1 DEF FollowInv, Gone
  <2> QED BY <2>2, <2>3, <2>4 DEF FollowInv
<1>2. CASE Exit
  BY <1>2 DEF Exit, FollowInv, Follows, FocusHere, Gone
<1>3. CASE spawnWorker
  <2>1. CASE UNCHANGED <<tables, worker>>
    <3>1. UNCHANGED <<entry, focused, watch, focusKey>> /\ ~respawnTimer'
      BY <1>3 DEF spawnWorker, bridge, inside
    <3>2. Follows(tables)'
      BY <2>1, <3>1 DEF FollowInv, Follows, WatchedAfter
    <3>3. FocusHere'
      BY <2>1, <3>1 DEF FollowInv, FocusHere, Here, NoFocus, FocusAt
    <3>4. Gone'
      BY <2>1, <3>1 DEF FollowInv, Gone
    <3> QED BY <3>2, <3>3, <3>4 DEF FollowInv
  <2> QED BY <1>3, <2>1, spawnFollows
<1>4. CASE Handle
  BY <1>4, HandleFollows
<1>5. ASSUME NEW c \in Cwd, Join(c) PROVE FollowInv'
  <2>1. UNCHANGED <<tables, entry, focused, focusKey, worker, respawnTimer>>
        /\ watch[c] = "attaching" /\ watch' = [watch EXCEPT ![c] = "joined"]
    BY <1>5 DEF Join, bridge, life
  <2>2. \A d \in Cwd : (watch'[d] # "no") = (watch[d] # "no")
    BY <2>1 DEF IInv, TypeOK
  <2>3. Follows(tables)'
    <3> SUFFICES ASSUME worker # "none", NEW d \in Cwd
                 PROVE  WatchedAfter(tables.inbox, d, watch'[d] # "no") <=> tables.ref[d] > 0
      BY <2>1 DEF Follows, WatchedAfter
    <3> QED BY <2>2 DEF FollowInv, Follows
  <2>4. FocusHere'
    BY <2>1 DEF FollowInv, FocusHere, Here, NoFocus, FocusAt
  <2>5. Gone'
    BY <2>1, <2>2 DEF FollowInv, Gone
  <2> QED BY <2>3, <2>4, <2>5 DEF FollowInv
<1> QED BY <1>1, <1>2, <1>3, <1>4, <1>5 DEF System

LEMMA InitFollows == Init => FollowInv
<1> SUFFICES ASSUME Init PROVE FollowInv
  OBVIOUS
<1>1. /\ tables.inbox = <<>> /\ ~respawnTimer /\ focusKey = None
      /\ \A c \in Cwd : watch[c] = "no" /\ tables.ref[c] = 0
  BY DEF Init
<1>2. Follows(tables)
  <2> SUFFICES ASSUME NEW c \in Cwd PROVE ~WatchedAfter(<<>>, c, watch[c] # "no")
    BY <1>1 DEF Follows
  <2> QED BY <1>1 DEF WatchedAfter
<1>3. FocusHere /\ Gone
  BY <1>1 DEF FocusHere, Here, NoFocus, FocusAt, Gone
<1> QED BY <1>2, <1>3 DEF FollowInv

LEMMA NextFollows == IInv /\ FollowInv /\ [Next]_vars => FollowInv'
<1> SUFFICES ASSUME IInv, FollowInv, [Next]_vars PROVE FollowInv'
  OBVIOUS
<1>1. CASE User
  <2>1. ASSUME NEW r \in Renderer, drainRendererSubscriptions(r) PROVE FollowInv'
    BY <2>1, drainFollows
  <2>2. ASSUME NEW r \in Renderer, Commit(r) \/ \E c \in Cwd : Subscribe(r, c) \/ Unsubscribe(r, c)
        PROVE  FollowInv'
    BY <2>2, WindowsFollow
  <2>3. ASSUME NEW t \in Terminal, BridgeSubscribe(t) \/ BridgeUnsubscribe(t) \/ notifyFocus(t)
        PROVE  FollowInv'
    BY <2>3, BridgeSubscribeFollows, BridgeUnsubscribeFollows, notifyFocusFollows
  <2>4. ASSUME NEW t \in Terminal, NEW c \in Cwd, pushTerminalCwd(t, c) PROVE FollowInv'
    BY <2>4, pushFollows
  <2>5. ASSUME NEW t \in Terminal, NEW c \in Cwd \cup {None}, ProbeEnds(t, c) PROVE FollowInv'
    BY <2>5, ProbeEndsFollows
  <2> QED BY <1>1, <2>1, <2>2, <2>3, <2>4, <2>5 DEF User
<1>2. CASE System
  BY <1>2, SystemFollows
<1>3. CASE UNCHANGED vars
  <2>1. UNCHANGED <<bridge, life, inside>> /\ tables' = tables /\ tables \in Tables
    BY <1>3 DEF vars, IInv, TypeOK
  <2> QED BY <2>1, KeepsSelf, WindowFollows
<1> QED BY <1>1, <1>2, <1>3 DEF Next

LEMMA FollowsAlways == Spec => []FollowInv
BY InitFollows, NextFollows, Invariance, PTL DEF Spec

\* A worker that runs ends up with exactly the directories that are counted,
\* whatever crashed between an attach and a detach (retain, release,
\* drainRendererSubscriptions, reattachAllAfterRespawn).
THEOREM WatchesTheorem == Spec => []WatchesFollow
<1>1. FollowInv => WatchesFollow
  BY DEF FollowInv, Follows, WatchesFollow, WillWatch
<1> QED BY <1>1, FollowsAlways, PTL

\* A worker that has caught up favours the focused terminal's directory or none
\* (setReconcileFocus and its callers in the terminal bridge).
THEOREM FocusTheorem == Spec => []FocusNotElsewhere
<1>1. FollowInv => FocusNotElsewhere
  <2> SUFFICES ASSUME FollowInv, Settled, focusKey # None
               PROVE  focused # None /\ entry[focused].cwd = focusKey
    BY DEF FocusNotElsewhere
  <2>1. NoFocus(tables.inbox) /\ worker # "none"
    BY DEF Settled, NoFocus
  <2> QED BY <2>1 DEF FollowInv, FocusHere, Here
<1> QED BY <1>1, FollowsAlways, PTL
=============================================================================
