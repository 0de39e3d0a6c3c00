------------------------------ MODULE WorkPool ------------------------------
(***************************************************************************)
(* What a work queue of Onward's main process promises its callers,        *)
(* without saying how.  The main work scheduler (main-work-scheduler.ts)   *)
(* implements it.                                                          *)
(*                                                                         *)
(* A submission is waiting, then active, then gone; at most Capacity are   *)
(* active together, and two submissions with one dedupe key are never      *)
(* waiting or active together.                                             *)
(***************************************************************************)
EXTENDS Naturals, FiniteSets

CONSTANTS
  Task,       \* the submissions (one per call of enqueue)
  NoKey,      \* the key of a submission that has none
  DedupeKey,  \* [Task -> keys \cup {NoKey}]
  Capacity    \* how many submissions may be active together

VARIABLES
  waiting,    \* the submissions accepted and not started
  active,     \* the submissions whose slot is taken
  gone        \* the submissions that ended, were cancelled or were joined

poolVars == <<waiting, active, gone>>

\* Two submissions that must never be alive together.
SameKey(t, u) == DedupeKey[t] # NoKey /\ DedupeKey[t] = DedupeKey[u]

PoolInit ==
  /\ waiting = {}
  /\ active = {}
  /\ gone = {}

\* A fresh submission is accepted: nothing alive carries its key.
Accept(t) ==
  /\ t \notin waiting \cup active \cup gone
  /\ \A u \in waiting \cup active : ~SameKey(t, u)
  /\ waiting' = waiting \cup {t}
  /\ UNCHANGED <<active, gone>>

\* A fresh submission is answered with the work of a live one of its key.
Join(t) ==
  /\ t \notin waiting \cup active \cup gone
  /\ \E u \in waiting \cup active : SameKey(t, u)
  /\ gone' = gone \cup {t}
  /\ UNCHANGED <<waiting, active>>

\* A waiting submission takes a free slot.
Begin(t) ==
  /\ t \in waiting
  /\ Cardinality(active) < Capacity
  /\ waiting' = waiting \ {t}
  /\ active' = active \cup {t}
  /\ UNCHANGED gone

\* An active submission gives its slot back.
Finish(t) ==
  /\ t \in active
  /\ active' = active \ {t}
  /\ gone' = gone \cup {t}
  /\ UNCHANGED waiting

\* Waiting submissions are withdrawn; an active one never is.
Withdraw(S) ==
  /\ S # {} /\ S \subseteq waiting
  /\ waiting' = waiting \ S
  /\ gone' = gone \cup S
  /\ UNCHANGED active

PoolNext ==
  \/ \E t \in Task : Accept(t) \/ Join(t) \/ Begin(t) \/ Finish(t)
  \/ \E S \in SUBSET Task : Withdraw(S)

PoolSpec == PoolInit /\ [][PoolNext]_poolVars
=============================================================================
