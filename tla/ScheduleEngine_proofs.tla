------------------------ MODULE ScheduleEngine_proofs ------------------------
(***************************************************************************)
(* Proofs about the scheduled prompts, for any prompts, intervals, clock   *)
(* and number of overlapping ticks, and for any interleaving with the      *)
(* user, the renders, the saves and the restarts.                          *)
(*                                                                         *)
(* What a property says of the schedules must hold of every copy of them:  *)
(* the rendered ones, those a tick or a retry holds over its await, and    *)
(* those on the disk, since each of these is written back whole (IInv).    *)
(***************************************************************************)
EXTENDS ScheduleEngine, WellFoundedInduction, TLAPS

\* a recurring schedule is on its grid, and no period ahead of t
Good(p, s, t) ==
  p \in Recurring =>
    /\ (s.next - StartAt[p]) % Every = 0
    /\ s.next >= StartAt[p]
    /\ s.next <= Max({StartAt[p], t + Every})

\* a well-typed list of good schedules
Held(S, t) == S \in Lists /\ \A p \in Prompt : S[p] # None => Good(p, S[p], t)

\* the copies of the catch-up sends
RetryHeld(R, t) == R = [k \in Click |-> R[k]] /\ \A k \in Click : Held(R[k], t)

\* a tick under way with its copies
TickHeld(x, t) ==
  /\ IsTick(x)
  /\ \A p \in DOMAIN x.due : Good(p, x.due[p], t)

CopiesInv ==
  /\ Held(sched, now) /\ Held(seen, now) /\ RetryHeld(retry, now)
  /\ (saved \in Disks /\ Held(saved.sched, now)) \/ (saved = None /\ boots >= MaxBoots)

TicksInv ==
  /\ tick = [k \in Slot |-> tick[k]] /\ turn \in Slot \cup {None}
  /\ \A k \in Slot : tick[k] # None => TickHeld(tick[k], now)
  /\ \A k \in Slot : tick[k] # None => (tick[k].sending = None <=> turn = k)
  /\ turn # None => tick[turn] # None

WorldInv ==
  /\ prompts \subseteq Prompt /\ notice \subseteq Prompt /\ place \in Places
  /\ dirty \in BOOLEAN /\ timer \in Nat \cup {None}
  /\ now \in Nat /\ acts \in Nat /\ boots \in Nat
  /\ sent \in [Prompt -> 0..SendCap]

\* the timer is armed for what was rendered
InTime(S, tm, t) == \A p \in Active(S) : tm # None /\ tm <= Max({S[p].next, t})
WakesInv == ~dirty /\ (\A k \in Slot : tick[k] = None) => InTime(seen, timer, now)

IInv == CopiesInv /\ TicksInv /\ WorldInv /\ WakesInv

-----------------------------------------------------------------------------
(* Numbers *)

LEMMA ConstantTypes ==
  /\ Recurring \subseteq Prompt /\ StartAt \in [Prompt -> Nat]
  /\ Every \in Nat /\ Every > 0 /\ Poll \in Nat /\ Poll > 0 /\ Late \in Nat
  /\ Slot \subseteq Nat /\ SendCap \in Nat /\ MaxTime \in Nat /\ MaxActs \in Nat /\ MaxBoots \in Nat
  /\ None \notin Prompt /\ None \notin Nat /\ None \notin Slot /\ None \notin Schedules /\ ~IsTick(None)
<1>1. None \notin Prompt /\ None \notin Nat /\ None \notin Schedules /\ ~IsTick(None)
  BY NoneAssumption
<1>2. /\ Recurring \subseteq Prompt /\ StartAt \in [Prompt -> Nat]
      /\ Every \in Nat /\ Every > 0 /\ Poll \in Nat /\ Poll > 0 /\ Late \in Nat
      /\ Slot \subseteq Nat
  BY ScheduleAssumption
<1>3. SendCap \in Nat /\ MaxTime \in Nat /\ MaxActs \in Nat /\ MaxBoots \in Nat
  BY ScheduleAssumption
<1> QED
  BY <1>1, <1>2, <1>3

LEMMA Pairs ==
  ASSUME NEW a \in Int, NEW b \in Int
  PROVE  /\ Max({a, b}) = IF a >= b THEN a ELSE b
         /\ Min({a, b}) = IF a <= b THEN a ELSE b
<1> DEFINE m == IF a >= b THEN a ELSE b
           l == IF a <= b THEN a ELSE b
<1>1. m \in {a, b} /\ \A y \in {a, b} : m >= y
  OBVIOUS
<1>2. \A x \in {a, b} : (\A y \in {a, b} : x >= y) => x = m
  OBVIOUS
<1>3. l \in {a, b} /\ \A y \in {a, b} : l <= y
  OBVIOUS
<1>4. \A x \in {a, b} : (\A y \in {a, b} : x <= y) => x = l
  OBVIOUS
<1> HIDE DEF m, l
<1>5. Max({a, b}) = m
  BY <1>1, <1>2 DEF Max
<1>6. Min({a, b}) = l
  BY <1>3, <1>4 DEF Min
<1> QED
  BY <1>5, <1>6 DEF m, l

\* A set of times has a least one.
LEMMA LeastTime ==
  ASSUME NEW T, T \subseteq Nat, T # {}
  PROVE  Min(T) \in T /\ \A y \in T : Min(T) <= y
<1> DEFINE R == OpToRel(<, Nat)
<1>1. IsWellFoundedOn(R, Nat)
  BY NatLessThanWellFounded
<1>2. \A x, y \in Nat : <<x, y>> \in R <=> x < y
  BY DEF OpToRel
<1> HIDE DEF R
<1>3. \E x \in T : \A y \in T : ~(<<y, x>> \in R)
  BY <1>1, WFMin
<1>4. \A x, y \in Nat : ~(y < x) => x <= y
  OBVIOUS
<1>5. \E x \in T : \A y \in T : x <= y
  BY <1>2, <1>3, <1>4
<1> QED
  BY <1>5 DEF Min

LEMMA Multiples == ASSUME NEW q \in Nat, NEW e \in Nat \ {0} PROVE ((q * e) % e) = 0
OBVIOUS

\* The grid points the divisions find: the first not before n.
LEMMA RoundedUp ==
  ASSUME NEW n \in Nat, NEW e \in Nat \ {0}
  PROVE  /\ ((n + e - 1) \div e) \in Nat
         /\ (((n + e - 1) \div e) * e) \in Nat
         /\ (((n + e - 1) \div e) * e) <= n + e - 1
OBVIOUS

LEMMA NextGood ==
  ASSUME NEW p \in Recurring, NEW from \in Nat
  PROVE  /\ NextExecution(p, from) \in Nat
         /\ (NextExecution(p, from) - StartAt[p]) % Every = 0
         /\ NextExecution(p, from) >= StartAt[p]
         /\ NextExecution(p, from) <= StartAt[p] \/ NextExecution(p, from) <= from + Every - 1
<1> DEFINE st == StartAt[p]
           x == NextExecution(p, from)
<1>1. st \in Nat /\ Every \in Nat \ {0}
  BY ConstantTypes
<1>2. CASE st > from
  <2>1. x = st
    BY <1>2 DEF NextExecution
  <2>2. (x - st) = 0 * Every
    BY <1>1, <2>1
  <2>3. ((0 * Every) % Every) = 0
    BY <1>1, Multiples
  <2> HIDE DEF x, st
  <2>4. (x - st) % Every = 0
    BY <2>2, <2>3
  <2>5. x \in Nat /\ x >= st /\ x <= st
    BY <1>1, <2>1
  <2> QED
    BY <2>4, <2>5 DEF x, st
<1>3. CASE ~(st > from)
  <2> DEFINE n == from - st
             q == (n + Every - 1) \div Every
  <2>0. x = IF StartAt[p] > from THEN StartAt[p]
            ELSE StartAt[p] + ((from - StartAt[p] + Every - 1) \div Every) * Every
    BY DEF NextExecution
  <2>1. n \in Nat /\ x = st + (q * Every)
    BY <1>1, <1>3, <2>0
  <2> HIDE DEF n, x
  <2>2. q \in Nat /\ (q * Every) \in Nat /\ (q * Every) <= n + Every - 1
    BY <1>1, <2>1, RoundedUp
  <2>3. ((q * Every) % Every) = 0
    BY <1>1, <2>2, Multiples
  <2> DEFINE r == q * Every
  <2>4. r \in Nat /\ r <= n + Every - 1 /\ (r % Every) = 0 /\ x = st + r
    BY <2>1, <2>2, <2>3
  <2> HIDE DEF r, q, st
  <2>5. x - st = r
    BY <1>1, <2>4
  <2>6. (x - st) % Every = 0
    BY <2>4, <2>5
  <2>7. x \in Nat /\ x >= st /\ x <= from + Every - 1
    BY <1>1, <2>4 DEF n
  <2> QED
    BY <2>6, <2>7 DEF x, st
<1> QED
  BY <1>2, <1>3

\* A schedule's next time computed at t, or a tick later.
LEMMA NextIsGood ==
  ASSUME NEW p \in Recurring, NEW t \in Nat, NEW from \in {t, t + 1}, NEW s,
         s.next = NextExecution(p, from)
  PROVE  Good(p, s, t)
<1>1. /\ StartAt[p] \in Nat /\ Every \in Nat /\ from \in Nat /\ t + Every \in Int
      /\ StartAt[p] \in Int
  BY ConstantTypes
<1>2. /\ s.next \in Nat /\ (s.next - StartAt[p]) % Every = 0 /\ s.next >= StartAt[p]
      /\ s.next <= StartAt[p] \/ s.next <= from + Every - 1
  BY <1>1, NextGood
<1>3. Max({StartAt[p], t + Every}) = IF StartAt[p] >= t + Every THEN StartAt[p] ELSE t + Every
  BY <1>1, Pairs
<1>4. s.next <= Max({StartAt[p], t + Every})
  BY <1>1, <1>2, <1>3
<1> QED
  BY <1>2, <1>4 DEF Good

\* Time does not make a schedule bad.
LEMMA GoodLater ==
  ASSUME NEW p \in Prompt, NEW s \in Schedules, NEW t \in Nat, NEW u \in Nat, t <= u, Good(p, s, t)
  PROVE  Good(p, s, u)
<1>1. StartAt[p] \in Int /\ t + Every \in Int /\ u + Every \in Int /\ s.next \in Int /\ Every \in Nat
  BY ConstantTypes DEF Schedules
<1>2. /\ Max({StartAt[p], t + Every}) = IF StartAt[p] >= t + Every THEN StartAt[p] ELSE t + Every
      /\ Max({StartAt[p], u + Every}) = IF StartAt[p] >= u + Every THEN StartAt[p] ELSE u + Every
  BY <1>1, Pairs
<1>3. Max({StartAt[p], t + Every}) <= Max({StartAt[p], u + Every})
      /\ Max({StartAt[p], t + Every}) \in Int /\ Max({StartAt[p], u + Every}) \in Int
  BY <1>1, <1>2
<1> QED
  BY <1>1, <1>3 DEF Good

LEMMA HeldLater ==
  ASSUME NEW S, NEW t \in Nat, NEW u \in Nat, t <= u, Held(S, t)
  PROVE  Held(S, u)
<1> SUFFICES ASSUME NEW p \in Prompt, S[p] # None PROVE Good(p, S[p], u)
  BY DEF Held
<1>1. S[p] \in Schedules /\ Good(p, S[p], t)
  BY DEF Held, Lists
<1> QED
  BY <1>1, GoodLater

LEMMA TickLater ==
  ASSUME NEW x, NEW t \in Nat, NEW u \in Nat, t <= u, TickHeld(x, t)
  PROVE  TickHeld(x, u)
<1>1. PICK D \in SUBSET Prompt : x \in [due : [D -> Schedules], sending : D \cup {None}]
  BY DEF TickHeld, IsTick
<1>2. \A p \in DOMAIN x.due : p \in Prompt /\ x.due[p] \in Schedules /\ Good(p, x.due[p], t)
  BY <1>1 DEF TickHeld
<1> QED
  BY <1>2, GoodLater DEF TickHeld

-----------------------------------------------------------------------------
(* The functions of the engine *)

\* The timer is in time for every active schedule it was armed for; the poll is
\* a bound from above only.
LEMMA ArmedInTime ==
  ASSUME NEW S \in Lists, NEW t \in Nat
  PROVE  Armed(S, t) \in Nat \cup {None} /\ InTime(S, Armed(S, t), t)
<1>1. CASE Active(S) = {}
  BY <1>1 DEF Armed, InTime
<1>2. CASE Active(S) # {}
  <2> DEFINE T == {S[p].next : p \in Active(S)}
             m == Min(T)
             w == Max({0, Min({m - t, Poll})})
  <2>1. \A p \in Active(S) : S[p] \in Schedules /\ S[p].next \in Nat
    BY DEF Active, Lists, Schedules
  <2>2. T \subseteq Nat /\ T # {}
    BY <1>2, <2>1
  <2>3. Armed(S, t) = t + w
    BY <1>2 DEF Armed
  <2>4. \A p \in Active(S) : S[p].next \in T
    OBVIOUS
  <2> HIDE DEF T
  <2>5. m \in T /\ (\A y \in T : m <= y) /\ m \in Nat
    BY <2>2, LeastTime
  <2> HIDE DEF m
  <2>6. m - t \in Int /\ Poll \in Nat /\ Poll > 0
    BY <2>5, ConstantTypes
  <2>7. Min({m - t, Poll}) = IF m - t <= Poll THEN m - t ELSE Poll
    <3> DEFINE d == m - t
    <3>1. d \in Int /\ Poll \in Int
      BY <2>6
    <3> HIDE DEF d
    <3>2. Min({d, Poll}) = IF d <= Poll THEN d ELSE Poll
      BY <3>1, Pairs
    <3> QED
      BY <3>2 DEF d
  <2> DEFINE v == Min({m - t, Poll})
  <2>8. v \in Int /\ v <= m - t
    BY <2>6, <2>7
  <2>9. w = IF 0 >= v THEN 0 ELSE v
    <3> HIDE DEF v
    <3>1. Max({0, v}) = IF 0 >= v THEN 0 ELSE v
      BY <2>8, Pairs
    <3> QED
      BY <3>1 DEF v
  <2> HIDE DEF v, w
  <2>10. t + w \in Nat /\ (t + w <= t \/ t + w <= m)
    BY <2>5, <2>8, <2>9
  <2>11. ASSUME NEW p \in Active(S)
         PROVE  Armed(S, t) # None /\ Armed(S, t) <= Max({S[p].next, t})
    <3>1. S[p].next \in Nat /\ m <= S[p].next
      BY <2>1, <2>4, <2>5
    <3>2. Max({S[p].next, t}) = IF S[p].next >= t THEN S[p].next ELSE t
      BY <3>1, Pairs
    <3> QED
      BY <2>3, <2>5, <2>10, <3>1, <3>2, ConstantTypes
  <2> QED
    BY <2>3, <2>10, <2>11 DEF InTime
<1> QED
  BY <1>1, <1>2

\* The timer that was in time stays so.
LEMMA InTimeLater ==
  ASSUME NEW S \in Lists, NEW tm \in Nat \cup {None}, NEW t \in Nat, NEW u \in Nat, t <= u,
         InTime(S, tm, t)
  PROVE  InTime(S, tm, u)
<1> SUFFICES ASSUME NEW p \in Active(S) PROVE tm # None /\ tm <= Max({S[p].next, u})
  BY DEF InTime
<1>1. S[p].next \in Nat
  BY DEF Active, Lists, Schedules
<1>2. /\ Max({S[p].next, t}) = IF S[p].next >= t THEN S[p].next ELSE t
      /\ Max({S[p].next, u}) = IF S[p].next >= u THEN S[p].next ELSE u
  BY <1>1, Pairs
<1>3. tm # None /\ tm <= Max({S[p].next, t})
  BY DEF InTime
<1> QED
  BY <1>1, <1>2, <1>3

\* What may be written back for p.
Fit(p, s) == s \in Schedules /\ Good(p, s, now)

LEMMA CountedTyped == ASSUME NEW p, NEW n \in Nat PROVE Counted(p, n) \in Nat
BY DEF Counted

LEMMA FitAs ==
  ASSUME NEW p \in Prompt, NEW s, Fit(p, s), NEW st \in {"active", "paused", "completed", "failed"},
         NEW n \in Nat
  PROVE  Fit(p, [s EXCEPT !.status = st]) /\ Fit(p, [s EXCEPT !.count = n, !.status = st])
<1>1. \A x \in {[s EXCEPT !.status = st], [s EXCEPT !.count = n, !.status = st]} :
        x \in Schedules /\ x.next = s.next
  BY DEF Fit, Schedules
<1> QED
  BY <1>1 DEF Fit, Good

LEMMA FitNext ==
  ASSUME NEW p \in Recurring, NEW s \in Schedules, now \in Nat, NEW from \in {now, now + 1},
         NEW n \in Nat, NEW st \in {"active", "paused", "completed", "failed"}
  PROVE  /\ Fit(p, [s EXCEPT !.next = NextExecution(p, from)])
         /\ Fit(p, [s EXCEPT !.count = n, !.next = NextExecution(p, from)])
         /\ Fit(p, [s EXCEPT !.next = NextExecution(p, from), !.status = st])
         /\ Fit(p, [status |-> st, next |-> NextExecution(p, from), count |-> n])
<1> DEFINE x == NextExecution(p, from)
<1>1. x \in Nat
  <2>1. from \in Nat
    OBVIOUS
  <2> QED
    BY <2>1, NextGood
<1> HIDE DEF x
<1> DEFINE a == [s EXCEPT !.next = x]
           b == [s EXCEPT !.count = n, !.next = x]
           c == [s EXCEPT !.next = x, !.status = st]
           d == [status |-> st, next |-> x, count |-> n]
<1>2. a \in Schedules /\ a.next = x
  BY <1>1 DEF Schedules
<1>3. b \in Schedules /\ b.next = x
  BY <1>1 DEF Schedules
<1>4. c \in Schedules /\ c.next = x
  BY <1>1 DEF Schedules
<1>5. d \in Schedules /\ d.next = x
  BY <1>1 DEF Schedules
<1>6. \A y : y.next = x => Good(p, y, now)
  BY NextIsGood DEF x
<1> HIDE DEF a, b, c, d
<1>7. Fit(p, a) /\ Fit(p, b) /\ Fit(p, c) /\ Fit(p, d)
  BY <1>2, <1>3, <1>4, <1>5, <1>6 DEF Fit
<1> QED
  BY <1>7 DEF a, b, c, d, x

\* A schedule that does not recur is on no grid.
LEMMA FitOnce ==
  ASSUME NEW p \in Prompt \ Recurring, NEW s \in Schedules
  PROVE  Fit(p, s)
BY DEF Fit, Good

LEMMA NotSentFit ==
  ASSUME now \in Nat, NEW p \in Prompt, NEW s, Fit(p, s)
  PROVE  Fit(p, NotSent(p, s))
<1>1. CASE p \in Recurring
  <2>1. NotSent(p, s) = [s EXCEPT !.next = NextExecution(p, now + 1)]
    BY <1>1 DEF NotSent
  <2> QED
    BY <1>1, <2>1, FitNext DEF Fit
<1>2. CASE p \notin Recurring
  BY <1>2, FitAs DEF NotSent
<1> QED
  BY <1>1, <1>2

LEMMA DeliveredFit ==
  ASSUME now \in Nat, NEW p \in Prompt, NEW s, Fit(p, s)
  PROVE  Fit(p, Delivered(p, s))
<1> DEFINE n == Counted(p, s.count)
<1>1. n \in Nat
  BY CountedTyped DEF Fit, Schedules
<1>2. Delivered(p, s) = IF p \notin Recurring \/ ReachedMax(p, n)
                        THEN [s EXCEPT !.count = n, !.status = "completed"]
                        ELSE [s EXCEPT !.count = n, !.next = NextExecution(p, now + 1)]
  BY DEF Delivered
<1> HIDE DEF n
<1>3. CASE p \notin Recurring \/ ReachedMax(p, n)
  <2>1. Delivered(p, s) = [s EXCEPT !.count = n, !.status = "completed"]
    BY <1>2, <1>3
  <2>2. Fit(p, [s EXCEPT !.count = n, !.status = "completed"])
    BY <1>1, FitAs
  <2> QED
    BY <2>1, <2>2
<1>4. CASE ~(p \notin Recurring \/ ReachedMax(p, n))
  <2>1. Delivered(p, s) = [s EXCEPT !.count = n, !.next = NextExecution(p, now + 1)] /\ p \in Recurring
    BY <1>2, <1>4
  <2>2. s \in Schedules /\ now + 1 \in {now, now + 1}
    BY DEF Fit
  <2>3. Fit(p, [s EXCEPT !.count = n, !.next = NextExecution(p, now + 1)])
    BY <1>1, <2>1, <2>2, FitNext
  <2> QED
    BY <2>1, <2>3
<1> QED
  BY <1>3, <1>4

\* A list that changes at p only.
LEMMA HeldExcept ==
  ASSUME NEW S, Held(S, now), NEW p \in Prompt, NEW s, s = None \/ Fit(p, s)
  PROVE  Held([S EXCEPT ![p] = s], now)
BY DEF Held, Lists, Fit

\* A catch-up send whose copy of p's schedule changes.
LEMMA RetryExcept ==
  ASSUME NEW R, RetryHeld(R, now), NEW k \in Click, NEW p \in Prompt, NEW s,
         s = None \/ Fit(p, s)
  PROVE  RetryHeld([R EXCEPT ![k][p] = s], now)
<1> DEFINE Q == [R EXCEPT ![k] = [R[k] EXCEPT ![p] = s]]
<1>1. Held([R[k] EXCEPT ![p] = s], now)
  BY HeldExcept DEF RetryHeld
<1>2. \A j \in Click : Q[j] = IF j = k THEN [R[k] EXCEPT ![p] = s] ELSE R[j]
  BY DEF RetryHeld
<1>3. Q = [j \in Click |-> Q[j]]
  BY DEF RetryHeld
<1>4. \A j \in Click : Held(Q[j], now)
  BY <1>1, <1>2 DEF RetryHeld
<1> HIDE DEF Q
<1>5. RetryHeld(Q, now)
  BY <1>3, <1>4 DEF RetryHeld
<1> QED
  BY <1>5 DEF Q

LEMMA UpdateHolds ==
  ASSUME Held(sched, now), dirty \in BOOLEAN, NEW p \in Prompt, NEW s, Fit(p, s), Update(p, s)
  PROVE  Held(sched', now) /\ dirty' \in BOOLEAN /\ (dirty => dirty')
<1>1. sched' = [sched EXCEPT ![p] = IF sched[p] = None THEN None ELSE s]
  BY DEF Update
<1>2. Held(sched', now)
  BY <1>1, HeldExcept
<1>3. dirty' = (dirty \/ sched[p] # None)
  BY DEF Update
<1>4. dirty' \in BOOLEAN /\ (dirty => dirty')
  BY <1>3, Zenon
<1> QED
  BY <1>2, <1>4

-----------------------------------------------------------------------------
(* Frames *)

\* The ticks are left alone, so is the render, and the timer.
LEMMA Aside ==
  ASSUME IInv, UNCHANGED <<seen, timer, tick, turn, now>>, CopiesInv', WorldInv', dirty => dirty'
  PROVE  IInv'
<1>1. TicksInv'
  BY DEF IInv, TicksInv
<1>2. WakesInv'
  BY DEF IInv, WakesInv
<1> QED
  BY <1>1, <1>2 DEF IInv

\* A button or a dialog that changes the schedules only.
LEMMA AsideSched ==
  ASSUME IInv, UNCHANGED <<seen, saved, retry, timer, tick, turn, now, boots>>,
         Held(sched', now), dirty' \in BOOLEAN, dirty => dirty',
         prompts' \subseteq Prompt, notice' \subseteq Prompt, place' \in Places, acts' \in Nat,
         sent' \in [Prompt -> 0..SendCap]
  PROVE  IInv'
<1>1. CopiesInv'
  BY DEF IInv, CopiesInv
<1>2. WorldInv'
  BY DEF IInv, WorldInv
<1> QED
  BY <1>1, <1>2, Aside

\* Tick k changes; whether it runs without yielding is turn.
LEMMA TickChanges ==
  ASSUME TicksInv, now' = now, NEW k \in Slot, turn \in {None, k}, NEW x,
         tick' = [tick EXCEPT ![k] = x], turn' \in {None, k},
         x # None => TickHeld(x, now) /\ (x.sending = None <=> turn' = k),
         x = None => turn' = None
  PROVE  TicksInv'
<1>1. /\ tick' = [j \in Slot |-> tick'[j]] /\ tick'[k] = x
      /\ \A j \in Slot \ {k} : tick'[j] = tick[j]
  BY DEF TicksInv
<1>2. \A j \in Slot : tick'[j] # None => TickHeld(tick'[j], now')
  BY <1>1 DEF TicksInv
<1>3. \A j \in Slot : tick'[j] # None => (tick'[j].sending = None <=> turn' = j)
  BY <1>1, ConstantTypes DEF TicksInv
<1>4. (turn' # None => tick'[turn'] # None) /\ turn' \in Slot \cup {None}
  BY <1>1
<1> QED
  BY <1>1, <1>2, <1>3, <1>4 DEF TicksInv

\* The shape of a tick under way.
LEMMA TickShape ==
  ASSUME TicksInv, NEW k \in Slot, tick[k] # None
  PROVE  \E D \in SUBSET Prompt :
           /\ tick[k] \in [due : [D -> Schedules], sending : D \cup {None}]
           /\ \A p \in D : Fit(p, tick[k].due[p])
<1>1. TickHeld(tick[k], now)
  BY DEF TicksInv
<1>2. PICK D \in SUBSET Prompt : tick[k] \in [due : [D -> Schedules], sending : D \cup {None}]
  BY <1>1 DEF TickHeld, IsTick
<1>3. DOMAIN tick[k].due = D /\ \A p \in D : tick[k].due[p] \in Schedules
  BY <1>2
<1> QED
  BY <1>1, <1>2, <1>3 DEF TickHeld, Fit

\* A tick made of good copies.
LEMMA MakesTick ==
  ASSUME NEW D \in SUBSET Prompt, NEW f, f = [p \in D |-> f[p]], \A p \in D : Fit(p, f[p]),
         NEW q \in D \cup {None}
  PROVE  TickHeld([due |-> f, sending |-> q], now) /\ [due |-> f, sending |-> q] # None
<1> DEFINE x == [due |-> f, sending |-> q]
<1>1. f \in [D -> Schedules]
  BY DEF Fit
<1>2. x \in [due : [D -> Schedules], sending : D \cup {None}]
  BY <1>1
<1>3. IsTick(x)
  BY <1>2 DEF IsTick
<1>4. x.due = f /\ DOMAIN f = D
  BY <1>1
<1>5. TickHeld(x, now)
  BY <1>3, <1>4 DEF TickHeld, Fit
<1> HIDE DEF x
<1>6. x # None
  BY <1>3, ConstantTypes
<1> QED
  BY <1>5, <1>6 DEF x

-----------------------------------------------------------------------------
(* The engine *)

LEMMA InitIInv == Init => IInv
<1> SUFFICES ASSUME Init PROVE IInv
  OBVIOUS
<1>1. PICK paused \in SUBSET Recurring :
        sched = [p \in Prompt |->
                   [status |-> IF p \in paused THEN "paused" ELSE "active",
                    next |-> StartAt[p], count |-> 0]]
  BY DEF Init
<1>2. now = 0 /\ now \in Nat
  BY DEF Init
<1>3. ASSUME NEW p \in Prompt PROVE Fit(p, sched[p])
  <2>1. /\ sched[p] \in Schedules /\ sched[p].next = StartAt[p] /\ StartAt[p] \in Nat
        /\ Every \in Nat \ {0}
    BY <1>1, ConstantTypes DEF Schedules
  <2>2. (sched[p].next - StartAt[p]) % Every = 0
    <3>1. sched[p].next - StartAt[p] = 0 * Every
      BY <2>1
    <3> QED
      BY <2>1, <3>1, Multiples
  <2>3. /\ StartAt[p] \in Int /\ now + Every \in Int
        /\ Max({StartAt[p], now + Every}) = IF StartAt[p] >= now + Every THEN StartAt[p] ELSE now + Every
    <3>1. StartAt[p] \in Int /\ now + Every \in Int
      BY <1>2, <2>1
    <3> QED
      BY <3>1, Pairs
  <2>4. sched[p].next <= Max({StartAt[p], now + Every})
    BY <2>1, <2>3
  <2> QED
    BY <2>1, <2>2, <2>4 DEF Fit, Good
<1>4. sched \in Lists /\ Held(sched, now)
  <2>1. DOMAIN sched = Prompt /\ sched = [p \in Prompt |-> sched[p]]
    BY <1>1
  <2>2. sched \in Lists
    BY <1>3, <2>1 DEF Fit, Lists
  <2> QED
    BY <1>3, <2>2 DEF Fit, Held
<1>5. RetryHeld(retry, now)
  BY DEF Init, Held, RetryHeld, Lists
<1>6. place \in Places /\ prompts = Prompt
  BY DEF Init, Places
<1>7. CopiesInv
  <2>1. seen = sched /\ saved = [sched |-> sched, prompts |-> prompts, place |-> place]
    BY DEF Init, OnDisk
  <2>2. saved \in Disks /\ saved.sched = sched
    BY <1>4, <1>6, <2>1 DEF Disks
  <2> QED
    BY <1>4, <1>5, <2>1, <2>2 DEF CopiesInv
<1>8. Armed(sched, 0) \in Nat \cup {None} /\ InTime(sched, Armed(sched, 0), 0)
  BY <1>4, ArmedInTime
<1>9. TicksInv /\ WakesInv
  BY <1>2, <1>8 DEF Init, TicksInv, WakesInv
<1>10. WorldInv
  <2>1. prompts \subseteq Prompt /\ notice \subseteq Prompt /\ place \in Places
    BY <1>6 DEF Init
  <2>2. timer \in Nat \cup {None}
    BY <1>8 DEF Init
  <2>3. dirty \in BOOLEAN
    BY Zenon DEF Init
  <2>4. now \in Nat /\ acts \in Nat /\ boots \in Nat
    BY DEF Init
  <2>5. sent \in [Prompt -> 0..SendCap]
    <3>1. SendCap \in Nat /\ sent = [p \in Prompt |-> 0]
      BY ConstantTypes DEF Init
    <3> QED
      BY <3>1
  <2> QED
    BY <2>1, <2>2, <2>3, <2>4, <2>5 DEF WorldInv
<1> QED
  BY <1>7, <1>9, <1>10 DEF IInv

LEMMA RenderStep == ASSUME IInv, Render PROVE IInv'
<1>1. /\ UNCHANGED <<sched, prompts, place, saved, tick, turn, now, acts, boots, retry, notice, sent>>
      /\ seen' = sched /\ dirty' = FALSE /\ timer' = Armed(sched, now)
  BY DEF Render, App, Ui
<1>2. Held(sched, now) /\ sched \in Lists /\ now \in Nat
  BY DEF IInv, CopiesInv, Held, WorldInv
<1>3. timer' \in Nat \cup {None} /\ InTime(sched, timer', now)
  BY <1>1, <1>2, ArmedInTime
<1>4. CopiesInv'
  BY <1>1, <1>2 DEF IInv, CopiesInv
<1>5. TicksInv'
  BY <1>1 DEF IInv, TicksInv
<1>6. WorldInv'
  BY <1>1, <1>3 DEF IInv, WorldInv
<1>7. WakesInv'
  BY <1>1, <1>3 DEF WakesInv, InTime
<1> QED
  BY <1>4, <1>5, <1>6, <1>7 DEF IInv

LEMMA TimerFiresStep == ASSUME IInv, NEW k \in Slot, TimerFires(k) PROVE IInv'
<1> DEFINE D == DueIn(seen, now)
           f == [p \in D |-> seen[p]]
           x == [due |-> f, sending |-> None]
<1>1. /\ UNCHANGED <<sched, prompts, place, seen, dirty, saved, now, acts, boots, retry, notice, sent>>
      /\ timer' = None /\ turn' = k /\ turn = None /\ tick' = [tick EXCEPT ![k] = x]
  BY DEF TimerFires, App, Ui, Unlocked
<1>2. D \in SUBSET Prompt /\ f = [p \in D |-> f[p]] /\ \A p \in D : Fit(p, f[p])
  BY DEF DueIn, Active, Fit, IInv, CopiesInv, Held, Lists
<1> HIDE DEF D, f
<1>3. TickHeld(x, now) /\ x # None /\ x.sending = None
  BY <1>2, MakesTick
<1> HIDE DEF x
<1>4. TicksInv'
  BY <1>1, <1>3, TickChanges DEF IInv
<1>5. CopiesInv'
  BY <1>1 DEF IInv, CopiesInv
<1>6. WorldInv'
  BY <1>1 DEF IInv, WorldInv
<1>7. WakesInv'
  BY <1>1, <1>3 DEF WakesInv, IInv, TicksInv
<1> QED
  BY <1>4, <1>5, <1>6, <1>7 DEF IInv

\* A tick under way: the timer owes nothing.
LEMMA Underway ==
  ASSUME TicksInv', NEW k \in Slot, tick'[k] # None
  PROVE  WakesInv'
BY DEF WakesInv

LEMMA SendStep == ASSUME IInv, NEW k \in Slot, NEW p \in Prompt, Send(k, p) PROVE IInv'
<1> DEFINE x == [tick[k] EXCEPT !.sending = p]
<1>1. /\ UNCHANGED <<sched, prompts, place, seen, dirty, saved, timer, now, acts, boots, retry, notice>>
      /\ turn = k /\ turn' = None /\ tick' = [tick EXCEPT ![k] = x] /\ p \in DOMAIN tick[k].due
      /\ sent' = [sent EXCEPT ![p] = Min({@ + 1, SendCap})]
  BY DEF Send, App, Ui
<1>2. tick[k] # None /\ TicksInv
  BY <1>1, ConstantTypes DEF IInv, TicksInv
<1>3. PICK D \in SUBSET Prompt :
        /\ tick[k] \in [due : [D -> Schedules], sending : D \cup {None}]
        /\ \A q \in D : Fit(q, tick[k].due[q])
  BY <1>2, TickShape
<1>4. /\ x = [due |-> tick[k].due, sending |-> p] /\ x.sending = p
      /\ p \in D /\ tick[k].due = [q \in D |-> tick[k].due[q]]
  BY <1>1, <1>3
<1> HIDE DEF x
<1>5. TickHeld(x, now) /\ x # None
  BY <1>3, <1>4, MakesTick
<1>6. TicksInv'
  BY <1>1, <1>2, <1>4, <1>5, TickChanges, ConstantTypes
<1>7. tick'[k] # None
  BY <1>1, <1>2, <1>5 DEF TicksInv
<1>8. WakesInv'
  BY <1>6, <1>7, Underway
<1>9. CopiesInv'
  BY <1>1 DEF IInv, CopiesInv
<1>10. sent' \in [Prompt -> 0..SendCap]
  <2>1. sent[p] \in 0..SendCap /\ SendCap \in Nat /\ sent \in [Prompt -> 0..SendCap]
    BY ConstantTypes DEF IInv, WorldInv
  <2> DEFINE a == sent[p] + 1
             m == Min({a, SendCap})
  <2>2. a \in Int /\ a >= 0 /\ SendCap \in Int
    BY <2>1
  <2> HIDE DEF a
  <2>3. m = IF a <= SendCap THEN a ELSE SendCap
    BY <2>2, Pairs
  <2>4. m \in 0..SendCap
    BY <2>1, <2>2, <2>3
  <2>5. sent' = [sent EXCEPT ![p] = m]
    BY <1>1 DEF a
  <2> HIDE DEF m
  <2> QED
    BY <2>1, <2>4, <2>5
<1>11. WorldInv'
  BY <1>1, <1>10 DEF IInv, WorldInv
<1> QED
  BY <1>6, <1>8, <1>9, <1>11 DEF IInv

\* What is left of a tick when p has been dealt with.
LEMMA RestHeld ==
  ASSUME TicksInv, NEW k \in Slot, tick[k] # None, NEW p
  PROVE  LET x == [due |-> Rest(k, p), sending |-> None] IN TickHeld(x, now) /\ x # None
<1>1. PICK D \in SUBSET Prompt :
        /\ tick[k] \in [due : [D -> Schedules], sending : D \cup {None}]
        /\ \A q \in D : Fit(q, tick[k].due[q])
  BY TickShape
<1> DEFINE E == D \ {p}
           f == Rest(k, p)
<1>2. f = [q \in E |-> tick[k].due[q]]
  BY <1>1 DEF Rest
<1>3. E \in SUBSET Prompt /\ f = [q \in E |-> f[q]] /\ \A q \in E : Fit(q, f[q])
  BY <1>1, <1>2
<1> HIDE DEF E, f
<1>4. TickHeld([due |-> f, sending |-> None], now) /\ [due |-> f, sending |-> None] # None
  BY <1>3, MakesTick
<1> QED
  BY <1>4 DEF f

\* The tick writes p's copy back and goes on with the rest.
LEMMA GoesOn ==
  ASSUME IInv, NEW k \in Slot, tick[k] # None, turn \in {None, k}, turn' = k,
         NEW p \in Prompt, NEW s, Fit(p, s), Update(p, s),
         tick' = [tick EXCEPT ![k] = [due |-> Rest(k, p), sending |-> None]],
         UNCHANGED <<prompts, place, seen, saved, timer, now, acts, boots, retry, notice, sent>>
  PROVE  IInv'
<1> DEFINE x == [due |-> Rest(k, p), sending |-> None]
<1>1. TickHeld(x, now) /\ x # None /\ x.sending = None
  BY RestHeld DEF IInv
<1>2. tick' = [tick EXCEPT ![k] = x] /\ TicksInv
  BY DEF IInv
<1> HIDE DEF x
<1>3. TicksInv'
  BY <1>1, <1>2, TickChanges
<1>4. tick'[k] # None
  BY <1>1, <1>2 DEF TicksInv
<1>5. WakesInv'
  BY <1>3, <1>4, Underway
<1>6. Held(sched', now) /\ dirty' \in BOOLEAN
  BY UpdateHolds DEF IInv, CopiesInv, WorldInv
<1>7. CopiesInv'
  BY <1>6 DEF IInv, CopiesInv
<1>8. WorldInv'
  BY <1>6 DEF IInv, WorldInv
<1> QED
  BY <1>3, <1>5, <1>7, <1>8 DEF IInv

LEMMA SkipStep == ASSUME IInv, NEW k \in Slot, NEW p \in Prompt, Skip(k, p) PROVE IInv'
<1> DEFINE s == tick[k].due[p]
<1>1. /\ turn = k /\ p \in DOMAIN tick[k].due
      /\ tick' = [tick EXCEPT ![k].due = Rest(k, p)]
      /\ UNCHANGED <<prompts, place, seen, saved, timer, turn, now, acts, boots, retry, notice, sent>>
  BY DEF Skip, App, Ui
<1>2. tick[k] # None /\ TicksInv /\ tick[k].sending = None /\ now \in Nat
  BY <1>1, ConstantTypes DEF IInv, TicksInv, WorldInv
<1>3. PICK D \in SUBSET Prompt :
        /\ tick[k] \in [due : [D -> Schedules], sending : D \cup {None}]
        /\ \A q \in D : Fit(q, tick[k].due[q])
  BY <1>2, TickShape
<1>4. Fit(p, s)
  BY <1>1, <1>3
<1>5. [tick[k] EXCEPT !.due = Rest(k, p)] = [due |-> Rest(k, p), sending |-> None]
  BY <1>2, <1>3
<1>6. tick' = [tick EXCEPT ![k] = [due |-> Rest(k, p), sending |-> None]]
  BY <1>1, <1>5
<1>7. Update(p, [s EXCEPT !.status = "failed"]) \/ Update(p, NotSent(p, s))
  BY DEF Skip
<1>8. Fit(p, [s EXCEPT !.status = "failed"])
  BY <1>4, FitAs
<1>9. Fit(p, NotSent(p, s))
  BY <1>2, <1>4, NotSentFit
<1> HIDE DEF s
<1>10. CASE Update(p, [s EXCEPT !.status = "failed"])
  BY <1>1, <1>2, <1>6, <1>8, <1>10, GoesOn
<1>11. CASE Update(p, NotSent(p, s))
  BY <1>1, <1>2, <1>6, <1>9, <1>11, GoesOn
<1> QED
  BY <1>7, <1>10, <1>11

LEMMA SettlesStep ==
  ASSUME IInv, NEW k \in Slot, NEW delivered \in BOOLEAN, Settles(k, delivered) PROVE IInv'
<1> DEFINE p == tick[k].sending
           s == tick[k].due[p]
           w == IF delivered THEN Delivered(p, s) ELSE NotSent(p, s)
<1>1. /\ turn = None /\ turn' = k /\ tick[k] # None
      /\ Update(p, w)
      /\ tick' = [tick EXCEPT ![k] = [due |-> Rest(k, p), sending |-> None]]
      /\ UNCHANGED <<prompts, place, seen, saved, timer, now, acts, boots, retry, notice, sent>>
  BY DEF Settles, Unlocked, App, Ui
<1>2. TicksInv /\ tick[k].sending # None /\ now \in Nat
  BY <1>1, ConstantTypes DEF IInv, TicksInv, WorldInv
<1>3. PICK D \in SUBSET Prompt :
        /\ tick[k] \in [due : [D -> Schedules], sending : D \cup {None}]
        /\ \A q \in D : Fit(q, tick[k].due[q])
  BY <1>1, <1>2, TickShape
<1>4. p \in Prompt /\ Fit(p, s)
  BY <1>2, <1>3
<1> HIDE DEF p, s
<1>5. Fit(p, w)
  BY <1>2, <1>4, DeliveredFit, NotSentFit
<1> HIDE DEF w
<1> QED
  BY <1>1, <1>4, <1>5, GoesOn

LEMMA TickEndsStep == ASSUME IInv, NEW k \in Slot, TickEnds(k) PROVE IInv'
<1>1. /\ turn = k /\ tick' = [tick EXCEPT ![k] = None] /\ turn' = None /\ timer' = Armed(seen, now)
      /\ UNCHANGED <<sched, prompts, place, seen, dirty, saved, now, acts, boots, retry, notice, sent>>
  BY DEF TickEnds, App, Ui
<1>2. TicksInv'
  BY <1>1, TickChanges DEF IInv
<1>3. seen \in Lists /\ now \in Nat
  BY DEF IInv, CopiesInv, Held, WorldInv
<1>4. timer' \in Nat \cup {None} /\ InTime(seen, timer', now)
  BY <1>1, <1>3, ArmedInTime
<1>5. CopiesInv'
  BY <1>1 DEF IInv, CopiesInv
<1>6. WorldInv'
  BY <1>1, <1>4 DEF IInv, WorldInv
<1>7. WakesInv'
  BY <1>1, <1>4 DEF WakesInv, InTime
<1> QED
  BY <1>2, <1>5, <1>6, <1>7 DEF IInv

-----------------------------------------------------------------------------
(* The user *)

LEMMA Typed ==
  ASSUME IInv
  PROVE  /\ Held(sched, now) /\ Held(seen, now) /\ RetryHeld(retry, now)
         /\ now \in Nat /\ acts \in Nat /\ boots \in Nat /\ dirty \in BOOLEAN
         /\ prompts \subseteq Prompt /\ notice \subseteq Prompt /\ place \in Places
         /\ sent \in [Prompt -> 0..SendCap]
BY DEF IInv, CopiesInv, WorldInv

LEMMA HeldFit ==
  ASSUME NEW S, Held(S, now), NEW p \in Prompt, S[p] # None
  PROVE  Fit(p, S[p])
BY DEF Held, Lists, Fit

\* A user's action: the count of actions grows, the restarts are as they were.
LEMMA SetStatusStep ==
  ASSUME IInv, NEW p \in Prompt, NEW from, NEW to \in {"active", "paused"}, SetStatus(p, from, to)
  PROVE  IInv'
<1> DEFINE s == [seen[p] EXCEPT !.status = to]
<1>1. /\ seen[p] # None /\ Update(p, s) /\ acts' = acts + 1
      /\ UNCHANGED <<prompts, place, seen, saved, timer, tick, turn, now, boots, retry, notice, sent>>
  BY DEF SetStatus, Act, Ui
<1>2. Fit(p, s)
  BY <1>1, Typed, HeldFit, FitAs
<1> HIDE DEF s
<1>3. Held(sched', now) /\ dirty' \in BOOLEAN /\ (dirty => dirty')
  BY <1>1, <1>2, Typed, UpdateHolds
<1>4. /\ prompts' \subseteq Prompt /\ notice' \subseteq Prompt /\ place' \in Places /\ acts' \in Nat
      /\ sent' \in [Prompt -> 0..SendCap]
  BY <1>1, Typed
<1> QED
  BY <1>1, <1>3, <1>4, AsideSched

LEMMA ConfirmStep == ASSUME IInv, NEW p \in Prompt, NEW at \in Nat, Confirm(p, at) PROVE IInv'
<1> DEFINE e == [seen[p] EXCEPT !.next = at, !.status = IF @ = "paused" THEN @ ELSE "active"]
           a == [status |-> "active", next |-> at, count |-> 0]
<1>1. /\ IF p \in Recurring THEN at = NextExecution(p, now) ELSE at > now
      /\ IF seen[p] # None THEN Update(p, e)
         ELSE sched' = [sched EXCEPT ![p] = a] /\ dirty' = TRUE
      /\ place' = [place EXCEPT ![p] = "open"] /\ sent' = [sent EXCEPT ![p] = 0]
      /\ acts' = acts + 1
      /\ UNCHANGED <<prompts, seen, saved, timer, tick, turn, now, boots, retry, notice>>
  BY DEF Confirm, Act, Ui
<1>2. Fit(p, a) /\ (seen[p] # None => Fit(p, e))
  <2>1. a \in Schedules /\ (seen[p] # None => seen[p] \in Schedules)
    BY Typed, HeldFit DEF Schedules, Fit
  <2> DEFINE st == IF seen[p].status = "paused" THEN seen[p].status ELSE "active"
  <2>2. e = [seen[p] EXCEPT !.next = at, !.status = st]
    OBVIOUS
  <2>3. st \in {"active", "paused", "completed", "failed"}
    OBVIOUS
  <2> HIDE DEF st, e
  <2>4. CASE p \in Recurring
    <3>1. at = NextExecution(p, now) /\ now \in Nat /\ now \in {now, now + 1} /\ 0 \in Nat
      BY <1>1, <2>4, Typed
    <3>2. Fit(p, a)
      BY <2>1, <2>4, <3>1, FitNext
    <3>3. ASSUME seen[p] # None PROVE Fit(p, e)
      <4>1. seen[p] \in Schedules
        BY <2>1, <3>3
      <4>2. Fit(p, [seen[p] EXCEPT !.next = NextExecution(p, now), !.status = st])
        BY <2>3, <2>4, <3>1, <4>1, FitNext
      <4> QED
        BY <2>2, <3>1, <4>2
    <3> QED
      BY <3>2, <3>3
  <2>5. CASE p \notin Recurring
    <3>1. seen[p] # None => e \in Schedules
      BY <2>1, <2>2, <2>3 DEF Schedules
    <3> QED
      BY <2>1, <2>5, <3>1, FitOnce
  <2> QED
    BY <2>4, <2>5
<1> HIDE DEF a, e
<1>3. Held(sched', now) /\ dirty' \in BOOLEAN /\ (dirty => dirty')
  <2>1. CASE seen[p] # None
    BY <1>1, <1>2, <2>1, Typed, UpdateHolds
  <2>2. CASE seen[p] = None
    <3>1. sched' = [sched EXCEPT ![p] = a] /\ dirty' = TRUE
      BY <1>1, <2>2
    <3>2. Held(sched', now)
      BY <1>2, <3>1, Typed, HeldExcept
    <3> QED
      BY <3>1, <3>2
  <2> QED
    BY <2>1, <2>2
<1>4. place' \in Places
  BY <1>1, Typed DEF Places
<1>5. sent' \in [Prompt -> 0..SendCap]
  <2>1. 0 \in 0..SendCap /\ sent \in [Prompt -> 0..SendCap]
    BY ConstantTypes, Typed
  <2> QED
    BY <1>1, <2>1
<1>6. prompts' \subseteq Prompt /\ notice' \subseteq Prompt /\ acts' \in Nat
  BY <1>1, Typed
<1> QED
  BY <1>1, <1>3, <1>4, <1>5, <1>6, AsideSched

LEMMA DeleteStep == ASSUME IInv, NEW p \in Prompt, NEW b \in BOOLEAN, Delete(p, b) PROVE IInv'
<1>1. /\ sched' = [sched EXCEPT ![p] = None] /\ dirty' = TRUE /\ acts' = acts + 1
      /\ prompts' = IF b THEN prompts \ {p} ELSE prompts
      /\ UNCHANGED <<place, seen, saved, timer, tick, turn, now, boots, retry, notice, sent>>
  BY DEF Delete, Act, Ui
<1>2. Held(sched', now)
  BY <1>1, Typed, HeldExcept
<1>3. /\ prompts' \subseteq Prompt /\ notice' \subseteq Prompt /\ place' \in Places /\ acts' \in Nat
      /\ sent' \in [Prompt -> 0..SendCap]
  BY <1>1, Typed
<1> QED
  BY <1>1, <1>2, <1>3, AsideSched

LEMMA CloseTabStep == ASSUME IInv, NEW p \in Prompt, NEW b \in BOOLEAN, CloseTab(p, b) PROVE IInv'
<1>1. /\ place' = [place EXCEPT ![p] = "closed"] /\ dirty' = TRUE /\ acts' = acts + 1
      /\ prompts' = IF b THEN prompts \ {p} ELSE prompts
      /\ sched' = IF p \in Active(sched) THEN [sched EXCEPT ![p].status = "failed"] ELSE sched
      /\ UNCHANGED <<seen, saved, timer, tick, turn, now, boots, retry, notice, sent>>
  BY DEF CloseTab, Act, Ui
<1>2. Held(sched', now)
  <2>1. CASE p \in Active(sched)
    <3> DEFINE s == [sched[p] EXCEPT !.status = "failed"]
    <3>1. sched[p] # None
      BY <2>1 DEF Active
    <3>2. Fit(p, s)
      BY <3>1, Typed, HeldFit, FitAs
    <3>3. sched' = [sched EXCEPT ![p] = s]
      BY <1>1, <2>1
    <3> HIDE DEF s
    <3> QED
      BY <3>2, <3>3, Typed, HeldExcept
  <2>2. CASE p \notin Active(sched)
    BY <1>1, <2>2, Typed
  <2> QED
    BY <2>1, <2>2
<1>3. /\ prompts' \subseteq Prompt /\ notice' \subseteq Prompt /\ acts' \in Nat
      /\ sent' \in [Prompt -> 0..SendCap]
  BY <1>1, Typed
<1>4. place' \in Places
  BY <1>1, Typed DEF Places
<1> QED
  BY <1>1, <1>2, <1>3, <1>4, AsideSched

LEMMA CloseTerminalsStep == ASSUME IInv, NEW p \in Prompt, CloseTerminals(p) PROVE IInv'
<1>1. /\ place' = [place EXCEPT ![p] = "empty"] /\ acts' = acts + 1
      /\ UNCHANGED <<sched, prompts, seen, dirty, saved, timer, tick, turn, now, boots, retry, notice, sent>>
  BY DEF CloseTerminals, Act, Ui
<1>2. /\ prompts' \subseteq Prompt /\ notice' \subseteq Prompt /\ acts' \in Nat
      /\ sent' \in [Prompt -> 0..SendCap] /\ Held(sched', now) /\ dirty' \in BOOLEAN
  BY <1>1, Typed
<1>3. place' \in Places
  BY <1>1, Typed DEF Places
<1> QED
  BY <1>1, <1>2, <1>3, AsideSched

LEMMA RetryStep == ASSUME IInv, NEW k \in Click, NEW p \in Prompt, Retry(k, p) PROVE IInv'
<1>1. /\ seen[p] # None /\ retry' = [retry EXCEPT ![k][p] = seen[p]] /\ acts' \in {acts, acts + 1}
      /\ UNCHANGED <<sched, prompts, place, seen, dirty, saved, timer, tick, turn, notice, now, boots, sent>>
  BY DEF Retry, Act
<1>2. RetryHeld(retry', now)
  BY <1>1, Typed, HeldFit, RetryExcept
<1>3. CopiesInv'
  BY <1>1, <1>2 DEF IInv, CopiesInv
<1>4. WorldInv'
  BY <1>1, Typed DEF IInv, WorldInv
<1> QED
  BY <1>1, <1>3, <1>4, Aside

LEMMA RetrySettlesStep ==
  ASSUME IInv, NEW k \in Click, NEW p \in Prompt, NEW delivered \in BOOLEAN,
         RetrySettles(k, p, delivered)
  PROVE  IInv'
<1> DEFINE s == retry[k][p]
           n == Counted(p, s.count)
           w == IF ~delivered THEN s
                ELSE IF p \notin Recurring THEN [status |-> "completed", next |-> now, count |-> n]
                ELSE IF ReachedMax(p, n) THEN [s EXCEPT !.count = n, !.status = "completed"]
                ELSE [s EXCEPT !.count = n, !.next = NextExecution(p, now + 1)]
<1>1. /\ s # None /\ Update(p, w)
      /\ retry' = [retry EXCEPT ![k][p] = None] /\ notice' = notice \ {p}
      /\ UNCHANGED <<prompts, place, seen, saved, timer, tick, turn, now, acts, boots, sent>>
  BY DEF RetrySettles, App
<1>2. Fit(p, s) /\ now \in Nat
  <2>1. Held(retry[k], now) /\ now \in Nat
    BY Typed DEF RetryHeld
  <2> QED
    BY <1>1, <2>1, HeldFit
<1>3. Fit(p, w)
  <2> HIDE DEF s
  <2>1. s \in Schedules /\ n \in Nat
    BY <1>2, CountedTyped DEF Fit, Schedules
  <2> HIDE DEF n
  <2>2. Fit(p, [s EXCEPT !.count = n, !.status = "completed"])
    BY <1>2, <2>1, FitAs
  <2>3. ASSUME p \in Recurring PROVE Fit(p, [s EXCEPT !.count = n, !.next = NextExecution(p, now + 1)])
    <3>1. now + 1 \in {now, now + 1}
      OBVIOUS
    <3> QED
      BY <1>2, <2>1, <2>3, <3>1, FitNext
  <2>4. ASSUME p \notin Recurring PROVE Fit(p, [status |-> "completed", next |-> now, count |-> n])
    <3>1. [status |-> "completed", next |-> now, count |-> n] \in Schedules
      BY <1>2, <2>1 DEF Schedules
    <3> QED
      BY <2>4, <3>1, FitOnce
  <2> QED
    BY <1>2, <2>2, <2>3, <2>4
<1> HIDE DEF w
<1>4. Held(sched', now) /\ dirty' \in BOOLEAN /\ (dirty => dirty')
  BY <1>1, <1>3, Typed, UpdateHolds
<1>5. RetryHeld(retry', now)
  BY <1>1, Typed, RetryExcept
<1>6. CopiesInv'
  BY <1>1, <1>4, <1>5 DEF IInv, CopiesInv
<1>7. WorldInv'
  BY <1>1, <1>4 DEF IInv, WorldInv
<1> QED
  BY <1>1, <1>4, <1>6, <1>7, Aside

-----------------------------------------------------------------------------
(* The disk and the clock *)

LEMMA SaveStep == ASSUME IInv, Save PROVE IInv'
<1>1. /\ saved' = [sched |-> sched, prompts |-> prompts, place |-> place]
      /\ UNCHANGED <<sched, prompts, place, seen, dirty, timer, tick, turn, now, acts, boots, retry, notice, sent>>
  BY DEF Save, OnDisk, App, Ui
<1>2. saved' \in Disks /\ saved'.sched = sched
  BY <1>1, Typed DEF Disks, Held
<1>3. CopiesInv'
  BY <1>1, <1>2 DEF IInv, CopiesInv
<1>4. WorldInv'
  BY <1>1 DEF IInv, WorldInv
<1> QED
  BY <1>1, <1>3, <1>4, Aside

LEMMA RelaunchStep == ASSUME IInv, NEW t \in Nat, now <= t, Relaunch(t) PROVE IInv'
<1> DEFINE S == saved.sched
           missed == {p \in Active(S) : S[p].next < t - Late /\ p \in saved.prompts}
<1>1. /\ boots < MaxBoots /\ boots' = boots + 1 /\ now' = t
      /\ sched' = S /\ seen' = S /\ notice' = missed /\ dirty' = (missed # {})
      /\ timer' = Armed(S, t)
      /\ prompts' = saved.prompts /\ place' = saved.place
      /\ tick' = [k \in Slot |-> None] /\ turn' = None
      /\ retry' = [k \in Click |-> [p \in Prompt |-> None]]
      /\ saved' = IF boots' < MaxBoots THEN saved ELSE None
      /\ UNCHANGED <<acts, sent>>
  BY DEF Relaunch
<1>2. now \in Nat /\ boots \in Nat /\ boots' \in Nat /\ MaxBoots \in Nat
  BY <1>1, Typed, ConstantTypes
<1>3. saved \in Disks /\ Held(S, now)
  BY <1>1, <1>2 DEF IInv, CopiesInv
<1>4. Held(S, t) /\ S \in Lists
  BY <1>2, <1>3, HeldLater DEF Held
<1>5. timer' \in Nat \cup {None} /\ InTime(S, timer', t)
  BY <1>1, <1>4, ArmedInTime
<1>6. missed \subseteq Prompt
  BY DEF Active
<1>7. saved.prompts \subseteq Prompt /\ saved.place \in Places
  BY <1>3 DEF Disks
<1>8. RetryHeld(retry', t)
  BY <1>1 DEF Held, RetryHeld, Lists
<1>9. dirty' \in BOOLEAN
  BY <1>1, Zenon
<1> HIDE DEF S, missed
<1>10. (saved' \in Disks /\ Held(saved'.sched, t)) \/ (saved' = None /\ boots' >= MaxBoots)
  <2>1. CASE boots' < MaxBoots
    BY <1>1, <1>3, <1>4, <2>1 DEF S
  <2>2. CASE ~(boots' < MaxBoots)
    BY <1>1, <1>2, <2>2
  <2> QED
    BY <2>1, <2>2
<1>11. CopiesInv'
  BY <1>1, <1>4, <1>8, <1>10 DEF CopiesInv
<1>12. TicksInv'
  BY <1>1 DEF TicksInv
<1>13. WorldInv'
  BY <1>1, <1>2, <1>5, <1>6, <1>7, <1>9, Typed DEF WorldInv
<1>14. WakesInv'
  BY <1>1, <1>5 DEF WakesInv
<1> QED
  BY <1>11, <1>12, <1>13, <1>14 DEF IInv

LEMMA PassesStep == ASSUME IInv, Passes PROVE IInv'
<1>1. /\ now' = now + 1
      /\ UNCHANGED <<sched, prompts, place, seen, dirty, saved, timer, tick, turn, acts, boots, retry, notice, sent>>
  BY DEF Passes, App, Ui
<1>2. now \in Nat /\ now' \in Nat /\ now <= now'
  BY <1>1, Typed
<1>3. CopiesInv'
  <2>1. CopiesInv /\ now \in Nat /\ now' \in Nat /\ now <= now'
    BY <1>1, <1>2, Typed DEF IInv
  <2>2. Held(sched, now') /\ Held(seen, now')
    BY <2>1, HeldLater DEF CopiesInv
  <2>3. \A k \in Click : Held(retry[k], now')
    BY <2>1, HeldLater DEF CopiesInv, RetryHeld
  <2>4. RetryHeld(retry, now')
    BY <2>1, <2>3 DEF CopiesInv, RetryHeld
  <2>5. saved \in Disks => (Held(saved.sched, now) => Held(saved.sched, now'))
    BY <2>1, HeldLater
  <2> QED
    BY <1>1, <2>1, <2>2, <2>4, <2>5 DEF CopiesInv
<1>4. TicksInv'
  <2>1. \A k \in Slot : tick[k] # None => TickHeld(tick[k], now')
    BY <1>2, TickLater DEF IInv, TicksInv
  <2> QED
    BY <1>1, <2>1 DEF IInv, TicksInv
<1>5. WorldInv'
  BY <1>1, <1>2 DEF IInv, WorldInv
<1>6. seen \in Lists /\ timer \in Nat \cup {None}
  BY DEF IInv, CopiesInv, Held, WorldInv
<1>7. InTime(seen, timer, now) => InTime(seen, timer, now')
  BY <1>2, <1>6, InTimeLater
<1>8. WakesInv'
  BY <1>1, <1>7 DEF IInv, WakesInv
<1> QED
  BY <1>3, <1>4, <1>5, <1>8 DEF IInv

LEMMA StutterStep == ASSUME IInv, UNCHANGED vars PROVE IInv'
<1>1. UNCHANGED <<seen, timer, tick, turn, now, dirty>>
  BY DEF vars
<1>2. CopiesInv'
  BY DEF vars, IInv, CopiesInv
<1>3. WorldInv'
  BY DEF vars, IInv, WorldInv
<1> QED
  BY <1>1, <1>2, <1>3, Aside

LEMMA NextIInv == IInv /\ [Next]_vars => IInv'
<1> SUFFICES ASSUME IInv, [Next]_vars PROVE IInv'
  OBVIOUS
<1>1. ASSUME NEW k \in Slot, TickStep(k) PROVE IInv'
  BY <1>1, TimerFiresStep, SendStep, SkipStep, SettlesStep, TickEndsStep DEF TickStep
<1>2. ASSUME NEW p \in Prompt, User(p) PROVE IInv'
  <2>1. ASSUME Pause(p) \/ Resume(p) PROVE IInv'
    BY <2>1, SetStatusStep DEF Pause, Resume
  <2>2. ASSUME NEW at \in 0..MaxTime, Confirm(p, at) PROVE IInv'
    <3>1. at \in Nat
      BY ConstantTypes
    <3> QED
      BY <2>2, <3>1, ConfirmStep
  <2>3. ASSUME NEW b \in BOOLEAN, Delete(p, b) \/ CloseTab(p, b) PROVE IInv'
    BY <2>3, DeleteStep, CloseTabStep
  <2> QED
    BY <1>2, <2>1, <2>2, <2>3, CloseTerminalsStep, RetryStep DEF User
<1>3. ASSUME NEW t \in now..MaxTime, Relaunch(t) PROVE IInv'
  <2>1. t \in Nat /\ now <= t
    BY Typed, ConstantTypes
  <2> QED
    BY <1>3, <2>1, RelaunchStep
<1>4. CASE UNCHANGED vars
  BY <1>4, StutterStep
<1> QED
  BY <1>1, <1>2, <1>3, <1>4, RenderStep, RetrySettlesStep, SaveStep, PassesStep DEF Next

-----------------------------------------------------------------------------
(* Theorems *)

\* Every copy of a schedule that can be written back is on its grid, and the
\* timer is armed for the rendered list.
THEOREM Invariant == Spec => []IInv
<1> QED
  BY InitIInv, NextIInv, PTL DEF Spec

\* While no tick is under way and no render is due, the one timeout fires no
\* later than the earliest due time, or at once if that has passed
\* (scheduleNextTick).
THEOREM WakesTheorem == Spec => []WakesInTime
<1>1. ASSUME IInv PROVE TypeOK
  <2>1. {sched, seen} \subseteq Lists /\ retry \in [Click -> Lists]
    BY <1>1, Typed DEF Held, RetryHeld
  <2>2. saved \in Disks \/ (saved = None /\ boots >= MaxBoots)
    BY <1>1 DEF IInv, CopiesInv
  <2>3. /\ tick = [k \in Slot |-> tick[k]] /\ turn \in Slot \cup {None}
        /\ \A k \in Slot : tick[k] # None =>
             IsTick(tick[k]) /\ (tick[k].sending = None <=> turn = k)
        /\ turn # None => tick[turn] # None
    BY <1>1 DEF IInv, TicksInv, TickHeld
  <2>4. /\ prompts \subseteq Prompt /\ notice \subseteq Prompt /\ place \in Places
        /\ dirty \in BOOLEAN /\ timer \in Nat \cup {None}
        /\ now \in Nat /\ acts \in Nat /\ boots \in Nat
        /\ sent \in [Prompt -> 0..SendCap]
    BY <1>1 DEF IInv, WorldInv
  <2> QED
    BY <2>1, <2>2, <2>3, <2>4 DEF TypeOK
<1>2. IInv => WakesInTime
  BY <1>1 DEF IInv, WakesInv, InTime, WakesInTime
<1> QED
  BY <1>2, Invariant, PTL

\* A recurring schedule stays on the grid of its startTime, whatever copies are
\* written back (computeNextExecution).
THEOREM GridTheorem == Spec => []OnGrid
<1>1. IInv => OnGrid
  BY ConstantTypes DEF IInv, CopiesInv, Held, Good, OnGrid
<1> QED
  BY <1>1, Invariant, PTL

\* A deleted schedule comes back only by the dialog or a restart, although the
\* tick, the retry and the buttons write whole copies back (updateSchedule).
THEOREM DeleteTheorem == Spec => DeleteHolds
<1> DEFINE Keeps(p) == sched[p] = None /\ sched'[p] # None =>
                         (boots' # boots \/ (acts' # acts /\ seen[p] = None))
<1>1. ASSUME IInv, NEW q \in Prompt, NEW s, Update(q, s), NEW p \in Prompt PROVE Keeps(p)
  <2>1. sched' = [sched EXCEPT ![q] = IF sched[q] = None THEN None ELSE s] /\ DOMAIN sched = Prompt
    BY <1>1, Typed DEF Update, Held, Lists
  <2> QED
    BY <2>1
<1>2. ASSUME UNCHANGED sched, NEW p \in Prompt PROVE Keeps(p)
  BY <1>2
<1>3. ASSUME IInv, NEW k \in Slot, TickStep(k), NEW p \in Prompt PROVE Keeps(p)
  <2>1. CASE UNCHANGED sched
    BY <1>2, <2>1
  <2>2. ASSUME NEW q \in Prompt, Skip(k, q) PROVE Keeps(p)
    BY <1>1, <1>3, <2>2 DEF Skip
  <2>3. ASSUME NEW delivered \in BOOLEAN, Settles(k, delivered) PROVE Keeps(p)
    <3> DEFINE q == tick[k].sending
               s == tick[k].due[q]
    <3>1. Update(q, IF delivered THEN Delivered(q, s) ELSE NotSent(q, s))
      BY <2>3 DEF Settles
    <3>2. q \in Prompt
      <4>1. tick[k] # None /\ turn = None /\ TicksInv
        BY <1>3, <2>3 DEF Settles, Unlocked, IInv
      <4>2. q # None
        BY <4>1, ConstantTypes DEF TicksInv
      <4> QED
        BY <4>1, <4>2, TickShape
    <3> HIDE DEF q, s
    <3> QED
      BY <1>1, <1>3, <3>1, <3>2
  <2> QED
    BY <1>3, <2>1, <2>2, <2>3 DEF TickStep, TimerFires, Send, TickEnds
<1>4. ASSUME IInv, NEW q \in Prompt, User(q), NEW p \in Prompt PROVE Keeps(p)
  <2>1. CASE UNCHANGED sched
    BY <1>2, <2>1
  <2>2. CASE Pause(q) \/ Resume(q)
    BY <1>1, <1>4, <2>2 DEF Pause, Resume, SetStatus
  <2>3. ASSUME NEW at \in 0..MaxTime, Confirm(q, at) PROVE Keeps(p)
    <3>1. acts' # acts
      BY <1>4, <2>3, Typed DEF Confirm, Act
    <3>2. CASE seen[q] # None
      BY <1>1, <1>4, <2>3, <3>2 DEF Confirm
    <3>3. CASE seen[q] = None
      <4>1. sched' = [sched EXCEPT ![q] = [status |-> "active", next |-> at, count |-> 0]]
        BY <2>3, <3>3 DEF Confirm
      <4>2. p # q => sched'[p] = sched[p]
        BY <4>1
      <4> QED
        BY <3>1, <3>3, <4>2
    <3> QED
      BY <3>2, <3>3
  <2>4. ASSUME NEW b \in BOOLEAN, Delete(q, b) \/ CloseTab(q, b) PROVE Keeps(p)
    <3>1. DOMAIN sched = Prompt
      BY <1>4, Typed DEF Held, Lists
    <3>2. CASE Delete(q, b)
      BY <3>1, <3>2 DEF Delete
    <3>3. CASE CloseTab(q, b)
      <4>1. sched' = IF q \in Active(sched) THEN [sched EXCEPT ![q].status = "failed"] ELSE sched
        BY <3>3 DEF CloseTab
      <4>2. p # q => sched'[p] = sched[p]
        BY <4>1
      <4>3. (p = q /\ sched[p] = None) => sched'[p] = sched[p]
        BY <4>1 DEF Active
      <4> QED
        BY <4>2, <4>3
    <3> QED
      BY <2>4, <3>2, <3>3
  <2> QED
    BY <1>4, <2>1, <2>2, <2>3, <2>4 DEF User, CloseTerminals, Retry
<1>5. ASSUME IInv, NEW k \in Click, NEW q \in Prompt, NEW delivered \in BOOLEAN,
             RetrySettles(k, q, delivered), NEW p \in Prompt
      PROVE Keeps(p)
  BY <1>1, <1>5 DEF RetrySettles
<1>6. ASSUME IInv, NEW t, Relaunch(t), NEW p \in Prompt PROVE Keeps(p)
  BY <1>6, Typed DEF Relaunch
<1>7. ASSUME IInv, [Next]_vars, NEW p \in Prompt PROVE Keeps(p)
  <2>1. CASE UNCHANGED sched
    BY <1>2, <2>1
  <2> QED
    BY <1>3, <1>4, <1>5, <1>6, <1>7, <2>1 DEF Next, Render, Save, Passes, vars
<1>8. IInv /\ [Next]_vars => [\A p \in Prompt : Keeps(p)]_vars
  BY <1>7
<1> QED
  BY <1>8, Invariant, PTL DEF Spec, DeleteHolds
=============================================================================
