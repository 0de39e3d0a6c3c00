--------------------------- MODULE ScheduleEngine ---------------------------
(***************************************************************************)
(* Scheduled prompts: useScheduleEngine.ts, schedule.ts and what App.tsx,  *)
(* AppStateContext.tsx and PromptNotebook.tsx do to the schedules.         *)
(*                                                                         *)
(* The schedules are React state: every write is queued on the latest      *)
(* state (sched) and reaches the engine's refs and the user's buttons only *)
(* with the next render (seen).  A tick copies the due schedules, sends    *)
(* their prompts one after the other, each send awaited, and writes the    *)
(* whole copy back with the outcome.  Ticks overlap: the effect re-arms    *)
(* the timer on every change of the schedules, sends under way or not.     *)
(*                                                                         *)
(* A schedule is its status, its next time and its count; the log, the     *)
(* last error and the number of missed runs are left out, and so is the    *)
(* order of the list, which only chooses among the prompts of one tick.    *)
(* The terminals and prompts of a tick are looked up as they are, not as   *)
(* last rendered: a send to a terminal just gone fails all the same.       *)
(***************************************************************************)
EXTENDS Integers, FiniteSets, FiniteSetsExt, TLC

CONSTANTS
  Prompt,        \* the prompts that can have a schedule
  Recurring,     \* those whose schedule recurs; the others' fire once
  StartAt,       \* [Prompt -> Nat]: recurrence.startTime, or the first time
  Every,         \* recurrence.intervalMs
  MaxExecutions, \* [Prompt -> Nat \cup {Unlimited}]
  Unlimited,
  Poll,          \* MAX_POLL_INTERVAL
  Late,          \* the five minutes of the scan for missed runs
  Slot,          \* bound: ticks that may overlap
  Click,         \* bound: catch-up sends of one prompt that may overlap
  MaxTime,       \* bound: the clock
  MaxActs,       \* bound: what the user does
  MaxBoots,      \* bound: restarts
  SendCap,       \* bound: where the ghost sent stops counting
  RenderFirst,   \* TRUE: a pending render never loses to a timer that is due
  None

ASSUME ScheduleAssumption ==
  /\ Recurring \subseteq Prompt
  /\ StartAt \in [Prompt -> Nat]
  /\ Every \in Nat \ {0} /\ Poll \in Nat \ {0} /\ Late \in Nat
  /\ \A p \in Prompt : MaxExecutions[p] \in (Nat \ {0}) \cup {Unlimited}
  /\ \A p \in Prompt \ Recurring : MaxExecutions[p] = 1
  /\ Slot \subseteq Nat /\ {SendCap, MaxTime, MaxActs, MaxBoots} \subseteq Nat
  /\ RenderFirst \in BOOLEAN

VARIABLES
  sched,    \* state.promptSchedules, every queued update applied
  prompts,  \* the prompts that exist
  place,    \* [Prompt -> its target terminals: "open", all gone, or gone with the tab]
  seen,     \* the schedules of the last render: schedulesRef, scheduleMap
  dirty,    \* a change of the schedules waits for its render
  saved,    \* what the disk holds; None after the last launch, which nobody reads
  timer,    \* when the engine's timeout fires, or None
  tick,     \* [Slot -> a tick under way, or None]
  turn,     \* the slot whose tick runs without yielding, or None
  retry,    \* [Click -> the schedules handleRetrySchedule holds over its sends]
  notice,   \* the missed-execution notices on screen
  now, acts, boots,
  sent      \* sends the engine began since the user last confirmed (ghost)

vars == <<sched, prompts, place, seen, dirty, saved, timer, tick, turn, retry,
          notice, now, acts, boots, sent>>

Schedules ==
  [status : {"active", "paused", "completed", "failed"}, next : Nat, count : Nat]
Lists == [Prompt -> Schedules \cup {None}]
Places == [Prompt -> {"open", "empty", "closed"}]
Disks == [sched : Lists, prompts : SUBSET Prompt, place : Places]
IsTick(x) == \E D \in SUBSET Prompt : x \in [due : [D -> Schedules], sending : D \cup {None}]
OnDisk == [sched |-> sched, prompts |-> prompts, place |-> place]

ASSUME NoneAssumption ==
  None \notin Prompt \cup Nat /\ None \notin Schedules /\ ~IsTick(None)

\* The schedules, the timer and the ticks have the shape the code gives them, a
\* tick that does not yield is not awaiting a send, and a disk that will be read
\* holds something.
TypeOK ==
  /\ {sched, seen} \subseteq Lists /\ retry \in [Click -> Lists]
  /\ prompts \subseteq Prompt /\ notice \subseteq Prompt /\ place \in Places
  /\ saved \in Disks \/ (saved = None /\ boots >= MaxBoots)
  /\ dirty \in BOOLEAN /\ timer \in Nat \cup {None}
  /\ tick = [k \in Slot |-> tick[k]] /\ turn \in Slot \cup {None}
  /\ \A k \in Slot : tick[k] # None =>
       IsTick(tick[k]) /\ (tick[k].sending = None <=> turn = k)
  /\ turn # None => tick[turn] # None
  /\ now \in Nat /\ acts \in Nat /\ boots \in Nat
  /\ sent \in [Prompt -> 0..SendCap]

-----------------------------------------------------------------------------
Active(S) == {p \in Prompt : S[p] # None /\ S[p].status = "active"}
DueIn(S, t) == {p \in Active(S) : S[p].next <= t}

\* Mutation: the interval counts from the run, not from startTime.
NextExecution_Drifts(p, from) == from + Every

\* computeNextExecution of a recurring schedule: the first grid point not
\* before from.
NextExecution(p, from) ==
  IF StartAt[p] > from THEN StartAt[p]
  ELSE StartAt[p] + ((from - StartAt[p] + Every - 1) \div Every) * Every

\* scheduleNextTick: when the timer fires, given the schedules the ref holds.
Armed(S, t) ==
  IF Active(S) = {} THEN None
  ELSE LET next == Min({S[p].next : p \in Active(S)})
       IN  t + Max({0, Min({next - t, Poll})})

\* Mutation: the update inserts what it does not find.
Update_Upsert(p, s) ==
  /\ sched' = [sched EXCEPT ![p] = s]
  /\ dirty' = TRUE

\* updateSchedule: the record is replaced whole; a deleted one stays deleted.
Update(p, s) ==
  /\ sched' = [sched EXCEPT ![p] = IF @ = None THEN None ELSE s]
  /\ dirty' = (dirty \/ sched[p] # None)

-----------------------------------------------------------------------------
\* Mutation: a run that failed leaves a recurring schedule due.
NotSent_StaysDue(p, s) ==
  IF p \in Recurring THEN s ELSE [s EXCEPT !.status = "failed"]

\* The copy s of p's schedule after a run that could not send, or failed.
NotSent(p, s) ==
  IF p \in Recurring THEN [s EXCEPT !.next = NextExecution(p, now + 1)]
                     ELSE [s EXCEPT !.status = "failed"]

\* executedCount, kept only where a maximum reads it.
Counted(p, n) == IF MaxExecutions[p] = Unlimited THEN 0 ELSE n + 1
ReachedMax(p, n) == MaxExecutions[p] # Unlimited /\ n >= MaxExecutions[p]

\* ... and after a run that was delivered.
Delivered(p, s) ==
  LET n == Counted(p, s.count)
  IN  IF p \notin Recurring \/ ReachedMax(p, n)
      THEN [s EXCEPT !.count = n, !.status = "completed"]
      ELSE [s EXCEPT !.count = n, !.next = NextExecution(p, now + 1)]

-----------------------------------------------------------------------------
Unlocked == turn = None
App == <<acts, boots>>
Ui == <<retry, notice>>

\* A launch with one schedule per prompt, rendered and armed; the user may have
\* paused those that recur.
Init ==
  /\ \E paused \in SUBSET Recurring :
       sched = [p \in Prompt |->
         [status |-> IF p \in paused THEN "paused" ELSE "active",
          next |-> StartAt[p], count |-> 0]]
  /\ prompts = Prompt
  /\ place = [p \in Prompt |-> "open"]
  /\ seen = sched /\ dirty = FALSE /\ saved = OnDisk
  /\ now = 0 /\ timer = Armed(sched, 0)
  /\ tick = [k \in Slot |-> None] /\ turn = None
  /\ retry = [k \in Click |-> [p \in Prompt |-> None]] /\ notice = {}
  /\ acts = 0 /\ boots = 0
  /\ sent = [p \in Prompt |-> 0]

\* React renders what was queued, and the effect on [schedules] re-arms.
Render ==
  /\ Unlocked /\ dirty
  /\ seen' = sched /\ dirty' = FALSE
  /\ timer' = Armed(sched, now)
  /\ UNCHANGED <<sched, prompts, place, saved, tick, turn, now, App, Ui, sent>>

\* The timeout: tick takes its copy of the due schedules.
TimerFires(k) ==
  /\ Unlocked /\ timer # None /\ timer <= now
  /\ RenderFirst => ~dirty
  /\ \E j \in Slot : tick[j] = None
  /\ k = Min({j \in Slot : tick[j] = None})
  /\ tick' = [tick EXCEPT ![k] =
       [due |-> [p \in DueIn(seen, now) |-> seen[p]], sending |-> None]]
  /\ timer' = None /\ turn' = k
  /\ UNCHANGED <<sched, prompts, place, seen, dirty, saved, now, App, Ui, sent>>

\* executeSchedule up to its await: the send begins.
Send(k, p) ==
  /\ turn = k /\ p \in DOMAIN tick[k].due
  /\ p \in prompts /\ place[p] = "open"
  /\ tick' = [tick EXCEPT ![k].sending = p]
  /\ sent' = [sent EXCEPT ![p] = Min({@ + 1, SendCap})]
  /\ turn' = None
  /\ UNCHANGED <<sched, prompts, place, seen, dirty, saved, timer, now, App, Ui>>

\* The copies left when p's has been dealt with.
Rest(k, p) == [q \in DOMAIN tick[k].due \ {p} |-> tick[k].due[q]]

\* executeSchedule finds no prompt, or none of the terminals.
Skip(k, p) ==
  /\ turn = k /\ p \in DOMAIN tick[k].due
  /\ LET s == tick[k].due[p]
     IN  \/ p \notin prompts /\ Update(p, [s EXCEPT !.status = "failed"])
         \/ p \in prompts /\ place[p] # "open" /\ Update(p, NotSent(p, s))
  /\ tick' = [tick EXCEPT ![k].due = Rest(k, p)]
  /\ UNCHANGED <<prompts, place, seen, saved, timer, turn, now, App, Ui, sent>>

\* The send settles, delivered or not (sent-only and thrown included), and the
\* copy taken before it is written back.
Settles(k, delivered) ==
  /\ Unlocked /\ tick[k] # None
  /\ LET p == tick[k].sending
         s == tick[k].due[p]
     IN  /\ Update(p, IF delivered THEN Delivered(p, s) ELSE NotSent(p, s))
         /\ tick' = [tick EXCEPT ![k] = [due |-> Rest(k, p), sending |-> None]]
  /\ turn' = k
  /\ UNCHANGED <<prompts, place, seen, saved, timer, now, App, Ui, sent>>

\* Mutation: the callback leaves the re-arming to the effect.
TickEnds_NoRearm(k) ==
  /\ turn = k /\ DOMAIN tick[k].due = {}
  /\ tick' = [tick EXCEPT ![k] = None]
  /\ turn' = None
  /\ UNCHANGED <<sched, prompts, place, seen, dirty, saved, timer, now, App, Ui, sent>>

\* tick returns and the timeout's callback arms the next one from the ref.
TickEnds(k) ==
  /\ turn = k /\ DOMAIN tick[k].due = {}
  /\ tick' = [tick EXCEPT ![k] = None]
  /\ turn' = None
  /\ timer' = Armed(seen, now)
  /\ UNCHANGED <<sched, prompts, place, seen, dirty, saved, now, App, Ui, sent>>

-----------------------------------------------------------------------------
\* What the user does.  A button writes back the schedule of the last render.
Act == Unlocked /\ acts < MaxActs /\ acts' = acts + 1

SetStatus(p, from, to) ==
  /\ Act /\ seen[p] # None /\ seen[p].status = from
  /\ Update(p, [seen[p] EXCEPT !.status = to])
  /\ UNCHANGED <<prompts, place, seen, saved, timer, tick, turn, now, boots, Ui, sent>>

Pause(p) == SetStatus(p, "active", "paused")
Resume(p) == SetStatus(p, "paused", "active")

\* The dialog: an edit keeps the count and a pause, else addSchedule.
Confirm(p, at) ==
  /\ Act /\ p \in prompts
  /\ IF p \in Recurring THEN at = NextExecution(p, now) ELSE at > now
  /\ IF seen[p] # None
     THEN Update(p, [seen[p] EXCEPT !.next = at,
                                    !.status = IF @ = "paused" THEN @ ELSE "active"])
     ELSE /\ sched' = [sched EXCEPT ![p] = [status |-> "active", next |-> at, count |-> 0]]
          /\ dirty' = TRUE
  /\ place' = [place EXCEPT ![p] = "open"]
  /\ sent' = [sent EXCEPT ![p] = 0]
  /\ UNCHANGED <<prompts, seen, saved, timer, tick, turn, now, boots, Ui>>

\* deleteScheduleByPromptId, and deletePrompt which takes the schedule along.
Delete(p, promptToo) ==
  /\ Act /\ p \in prompts
  /\ sched[p] # None
  /\ sched' = [sched EXCEPT ![p] = None] /\ dirty' = TRUE
  /\ prompts' = IF promptToo THEN prompts \ {p} ELSE prompts
  /\ UNCHANGED <<place, seen, saved, timer, tick, turn, now, boots, Ui, sent>>

\* The tab goes, with its local prompts: its active schedules have failed.
CloseTab(p, local) ==
  /\ Act /\ place[p] # "closed"
  /\ place' = [place EXCEPT ![p] = "closed"]
  /\ prompts' = IF local THEN prompts \ {p} ELSE prompts
  /\ sched' = IF p \in Active(sched) THEN [sched EXCEPT ![p].status = "failed"] ELSE sched
  /\ dirty' = TRUE
  /\ UNCHANGED <<seen, saved, timer, tick, turn, now, boots, Ui, sent>>

CloseTerminals(p) ==
  /\ Act /\ place[p] = "open"
  /\ place' = [place EXCEPT ![p] = "empty"]
  /\ UNCHANGED <<sched, prompts, seen, dirty, saved, timer, tick, turn, now, boots, Ui, sent>>

\* handleRetrySchedule on a missed run, up to its await.  With the terminals
\* gone and the tab open it sends to nobody, which no terminal fails.  Nothing
\* stops a second click before the first send has settled.
Retry(k, p) ==
  /\ IF \A j \in Click : retry[j][p] = None THEN Act ELSE Unlocked /\ UNCHANGED acts
  /\ p \in notice /\ p \in prompts /\ seen[p] # None /\ place[p] # "closed"
  /\ retry[k][p] = None
  /\ retry' = [retry EXCEPT ![k][p] = seen[p]]
  /\ UNCHANGED <<sched, prompts, place, seen, dirty, saved, timer, tick, turn, notice, now, boots, sent>>

\* ... and from there: the copy is written back, counted if delivered.
RetrySettles(k, p, delivered) ==
  /\ Unlocked /\ retry[k][p] # None
  /\ LET s == retry[k][p]
         n == Counted(p, s.count)
     IN  Update(p, IF ~delivered THEN s
                   ELSE IF p \notin Recurring
                   THEN [status |-> "completed", next |-> now, count |-> n]
                   ELSE IF ReachedMax(p, n)
                   THEN [s EXCEPT !.count = n, !.status = "completed"]
                   ELSE [s EXCEPT !.count = n, !.next = NextExecution(p, now + 1)])
  /\ retry' = [retry EXCEPT ![k][p] = None] /\ notice' = notice \ {p}
  /\ UNCHANGED <<prompts, place, seen, saved, timer, tick, turn, now, App, sent>>

-----------------------------------------------------------------------------
\* The debounced save (and the flush at quit) of what was rendered, while a
\* launch may still read it.
Save ==
  /\ Unlocked /\ ~dirty /\ saved # OnDisk /\ boots < MaxBoots
  /\ saved' = OnDisk
  /\ UNCHANGED <<sched, prompts, place, seen, dirty, timer, tick, turn, now, App, Ui, sent>>

\* The program ends (what a tick had not yet done is lost with it) and is
\* launched again: what was saved is
\* rendered and armed, then scanned for runs missed while it was closed.
Relaunch(t) ==
  /\ Unlocked /\ boots < MaxBoots /\ boots' = boots + 1
  /\ now' = t
  /\ LET S == saved.sched
         missed == {p \in Active(S) : S[p].next < t - Late /\ p \in saved.prompts}
     IN  /\ sched' = S /\ seen' = S
         /\ notice' = missed /\ dirty' = (missed # {})
         /\ timer' = Armed(S, t)
  /\ prompts' = saved.prompts /\ place' = saved.place
  /\ tick' = [k \in Slot |-> None] /\ turn' = None
  /\ retry' = [k \in Click |-> [p \in Prompt |-> None]]
  /\ saved' = IF boots' < MaxBoots THEN saved ELSE None
  /\ UNCHANGED <<acts, sent>>

Passes ==
  /\ Unlocked /\ now < MaxTime
  /\ now' = now + 1
  /\ UNCHANGED <<sched, prompts, place, seen, dirty, saved, timer, tick, turn, App, Ui, sent>>

TickStep(k) ==
  \/ TimerFires(k)
  \/ \E p \in Prompt : Send(k, p) \/ Skip(k, p)
  \/ \E delivered \in BOOLEAN : Settles(k, delivered)
  \/ TickEnds(k)

User(p) ==
  \/ Pause(p) \/ Resume(p)
  \/ \E at \in 0..MaxTime : Confirm(p, at)
  \/ \E b \in BOOLEAN : Delete(p, b) \/ CloseTab(p, b)
  \/ CloseTerminals(p) \/ \E k \in Click : Retry(k, p)

Next ==
  \/ \E k \in Slot : TickStep(k)
  \/ Render
  \/ \E p \in Prompt : User(p)
  \/ \E k \in Click, p \in Prompt, delivered \in BOOLEAN : RetrySettles(k, p, delivered)
  \/ Save
  \/ \E t \in now..MaxTime : Relaunch(t)
  \/ Passes

\* The event loop serves every queue: React renders, a timer that is due fires
\* and a send settles, since the main process writes the input and answers
\* without waiting for the terminal.  Strong fairness, as each of these waits
\* its turn behind the microtasks of others.
Fairness ==
  /\ SF_vars(Render)
  /\ SF_vars(\E k \in Slot : TimerFires(k))
  /\ \A k \in Slot : SF_vars(TickStep(k))

Spec == Init /\ [][Next]_vars
FairSpec == Spec /\ Fairness

-----------------------------------------------------------------------------
\* The one timeout: while no tick is under way to re-arm it and no render is
\* due, it fires no later than the earliest due time, or at once if that has
\* passed; the poll never replaces it (scheduleNextTick and its two callers).
\* The state is well typed.
WakesInTime ==
  /\ TypeOK
  /\ Unlocked /\ ~dirty /\ (\A k \in Slot : tick[k] = None) =>
       \A p \in Active(seen) : timer # None /\ timer <= Max({seen[p].next, now})

\* No schedule stays due for ever, whatever copies are written back over it,
\* whoever fails, and across restarts.
EveryDueRuns ==
  \A p \in Prompt : (p \in DueIn(sched, now)) ~> (p \notin DueIn(sched, now))

\* A recurring schedule stays on the grid of its startTime and is never more
\* than an interval ahead: no drift, no period lost to a slow send, a pause, a
\* retry or a stale copy (schedule.ts: 'Always anchor startTime').
OnGrid ==
  \A p \in Recurring : sched[p] # None =>
    /\ (sched[p].next - StartAt[p]) % Every = 0
    /\ sched[p].next >= StartAt[p]
    /\ sched[p].next <= Max({StartAt[p], now + Every})

\* What the user deleted stays deleted until he schedules it again, although
\* the tick, the retry and the buttons hold copies of it over their awaits.
DeleteHolds ==
  [][\A p \in Prompt : sched[p] = None /\ sched'[p] # None =>
       boots' # boots \/ (acts' # acts /\ seen[p] = None)]_vars

\* tab.d.ts:56, 'Maximum number of executions'; the dialog sets it to 1 for a
\* schedule that does not recur.  The sends of the engine since the user last
\* confirmed the schedule, without a restart.
MaxRespected ==
  \A p \in Prompt \ Recurring : boots = 0 => sent[p] <= MaxExecutions[p]
=============================================================================
