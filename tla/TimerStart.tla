----------------------------- MODULE TimerStart -----------------------------
(***************************************************************************)
(* One cycle Timer Start schedule: its database row, the entry the         *)
(* Scheduler holds for it (Timers.Scheduler, ETS tables that die with the  *)
(* process), the calls of Timers.StartEventManager that arm and disarm it, *)
(* the Scheduler's callback worker that persists each advance, and the     *)
(* TimerStartListener that starts a process instance for a fire.           *)
(*                                                                         *)
(* Calls run in the caller's process, under a lock per schedule. A section *)
(* under the lock still reads and writes two stores, the row and the       *)
(* Scheduler, one access at a time, and the Scheduler fires, crashes and   *)
(* restarts whoever holds the lock. Each access is therefore one step.     *)
(* Schedules share nothing but the Scheduler, so one schedule is modelled; *)
(* time is a natural number and the interval a constant.                   *)
(***************************************************************************)
EXTENDS Naturals, Sequences, FiniteSets

CONSTANTS
    \* the calls that may happen, each at most once
    Registers,     \* register_timer_starts, on deploy
    Enables, Disables, Unregisters,
    Restores,      \* reload_start_schedules, run by a restarted Scheduler
    Boots,         \* reload_start_schedules, run when the engine boots
    Deployment,    \* the entry of an initially armed schedule
    Deployed,      \* whether the schedule is initially registered
    StartAt,       \* explicit start of the cycle, or NoTime
    Repetitions,   \* R<n>, or Infinite
    Interval,
    RestoreAttempts,
    MaxTime, MaxFaults,  \* bounds on time and on failing database accesses
    NoTime, NoRef, Infinite, Free

Reloads == Restores \cup Boots
Armings == Registers \cup Enables \cup Reloads
Calls   == Armings \cup Disables \cup Unregisters
Refs    == Calls \cup {Deployment}   \* an entry is named by the call that scheduled it

ASSUME KindsDisjoint ==
    /\ \A c, d \in Registers : c = d
    /\ Registers \cap (Enables \cup Disables \cup Unregisters \cup Reloads) = {}
    /\ Enables \cap (Disables \cup Unregisters \cup Reloads) = {}
    /\ Disables \cap (Unregisters \cup Reloads) = {}
    /\ Unregisters \cap Reloads = {} /\ Restores \cap Boots = {}
    /\ Deployment \notin Calls
ASSUME DeployedAssumption == Deployed \in BOOLEAN /\ (Deployed => Registers = {})
ASSUME NullsAssumption ==
    NoTime \notin Nat /\ Infinite \notin Nat /\ NoRef \notin Refs /\ Free \notin Calls
ASSUME CycleAssumption ==
    /\ Interval \in Nat \ {0}
    /\ Repetitions \in (Nat \ {0}) \cup {Infinite}
    /\ StartAt \in Nat \cup {NoTime}
ASSUME BoundsAssumption ==
    RestoreAttempts \in Nat \ {0} /\ MaxTime \in Nat /\ MaxFaults \in Nat

VARIABLES
    now,
    row,        \* the database row
    lock,       \* :global lock of the schedule
    up,         \* whether the Scheduler runs
    entries,    \* its armed entries
    advances,   \* queue of its callback worker
    mailbox,    \* fires the listener has not looked at
    checked,    \* the listener has found the schedule enabled
    step,       \* of each call
    asked,      \* the time a call read when it began
    seen,       \* the scheduler_ref a call read under the lock
    target,     \* the occurrence a call is arming
    tries,      \* attempts of a restore
    faults,
    fired,      \* occurrences fired, in order
    started     \* process instances started

callVars == <<step, asked, seen, target, tries>>
vars == <<now, row, lock, up, entries, advances, mailbox, checked, callVars,
          faults, fired, started>>

-----------------------------------------------------------------------------
(* Occurrences of the cycle: the next fire time, and how many fires are    *)
(* left counting it.                                                       *)

Counts      == Nat \cup {Infinite}
Occurrences == [at : Nat \cup {NoTime}, left : Counts]
Exhausted   == [at |-> NoTime, left |-> 0]

\* Mutated forms of operators below, each a plausible bug.
AfterUncounted(o, n) == [at |-> o.at + n * Interval, left |-> o.left]
AfterUnchecked(o, n) == [at |-> o.at + n * Interval, left |-> o.left - n]
AdvanceAppliesToAny(a) == row.present /\ row.enabled
EntriesKept(ref) == entries
ReloadableIfReferenced(r) == r.enabled /\ r.pending.at # NoTime /\ r.ref # NoRef

\* repetitions_after and shift_occurrence: n occurrences further.
After(o, n) ==
    IF o.left = Infinite THEN [at |-> o.at + n * Interval, left |-> Infinite]
    ELSE IF o.left > n THEN [at |-> o.at + n * Interval, left |-> o.left - n]
    ELSE Exhausted

\* Mutated form of SkipMissed: an occurrence due right now is not missed.
SkipMissedBefore(o, time) ==
    IF o.at >= time THEN o ELSE After(o, (time - o.at) \div Interval + 1)

\* skip_missed_occurrences: each due occurrence uses up one repetition.
SkipMissed(o, time) ==
    IF o.at > time THEN o ELSE After(o, (time - o.at) \div Interval + 1)

NextFutureFire(o, time) ==
    LET next == After(o, 1) IN IF next = Exhausted THEN next ELSE SkipMissed(next, time)

FirstFireAt(time) == IF StartAt = NoTime THEN time + Interval ELSE StartAt

FirstFuture(time) == SkipMissed([at |-> FirstFireAt(time), left |-> Repetitions], time)

\* A start-anchored cycle continues from its persisted occurrence, another one
\* is anchored again at the enable.
EnabledOccurrence(r, time) ==
    LET continues == StartAt # NoTime /\ r.pending.at # NoTime
    IN  SkipMissed([at |-> IF continues THEN r.pending.at ELSE FirstFireAt(time),
                    left |-> r.pending.left], time)

Rows == [present : BOOLEAN, enabled : BOOLEAN, pending : Occurrences, ref : Refs \cup {NoRef}]
NoRow == [present |-> FALSE, enabled |-> FALSE, pending |-> Exhausted, ref |-> NoRef]
Entries == [ref : Refs, pending : Occurrences]

Steps == {"idle", "begin", "create", "list", "relist", "lock", "mark", "persist",
          "cancel", "schedule", "clear", "store", "undo", "delete", "done"}

\* Every reachable state is well typed, and only a known call holds the lock.
TypeOK ==
    /\ now \in 0 .. MaxTime
    /\ row \in Rows
    /\ lock \in Calls \cup {Free}
    /\ up \in BOOLEAN
    /\ entries \subseteq Entries
    /\ advances \in Seq(Entries)
    /\ mailbox \in Seq(Nat)
    /\ checked \in BOOLEAN
    /\ step \in [Calls -> Steps]
    /\ asked \in [Calls -> Nat]
    /\ seen \in [Calls -> Refs \cup {NoRef}]
    /\ target \in [Calls -> Occurrences]
    /\ tries \in [Calls -> 0 .. RestoreAttempts]
    /\ faults \in 0 .. MaxFaults
    /\ fired \in Seq(Nat)
    /\ started \in Nat

InitialRow ==
    IF Deployed
    THEN [present |-> TRUE, enabled |-> TRUE, pending |-> FirstFuture(0), ref |-> Deployment]
    ELSE NoRow

Init ==
    /\ now = 0
    /\ row = IF InitialRow.pending = Exhausted THEN [InitialRow EXCEPT !.ref = NoRef] ELSE InitialRow
    /\ lock = Free
    /\ up = TRUE
    /\ entries = IF row.ref = NoRef THEN {} ELSE {[ref |-> row.ref, pending |-> row.pending]}
    /\ advances = <<>>
    /\ mailbox = <<>> /\ checked = FALSE
    /\ step = [c \in Calls |-> "idle"]
    /\ asked = [c \in Calls |-> 0]
    /\ seen = [c \in Calls |-> NoRef]
    /\ target = [c \in Calls |-> Exhausted]
    /\ tries = [c \in Calls |-> 0]
    /\ faults = 0
    /\ fired = <<>> /\ started = 0

-----------------------------------------------------------------------------
(* StartEventManager: one step per access to the row or to the Scheduler.  *)

Goto(c, s) == step' = [step EXCEPT ![c] = s]

\* The call returns; with_schedule_lock releases the lock it holds.
Leave(c) ==
    /\ Goto(c, "done")
    /\ lock' = IF lock = c THEN Free ELSE lock
    /\ asked' = [asked EXCEPT ![c] = 0]
    /\ seen' = [seen EXCEPT ![c] = NoRef]
    /\ target' = [target EXCEPT ![c] = Exhausted]
    /\ UNCHANGED tries

Continue(c, s) == Goto(c, s) /\ UNCHANGED <<lock, asked, seen, target, tries>>

FirstStep(c) ==
    IF c \in Registers THEN "create"
    ELSE IF c \in Enables \cup Disables THEN "lock" ELSE "list"

\* An arming call reads the clock before it lists or takes the lock.
Begin(c) ==
    /\ \/ step[c] = "idle" /\ c \notin Reloads
       \/ step[c] = "begin"
    /\ Goto(c, FirstStep(c))
    /\ asked' = [asked EXCEPT ![c] = IF c \in Armings THEN now ELSE 0]
    /\ tries' = [tries EXCEPT ![c] = IF c \in Restores THEN @ + 1 ELSE @]
    /\ UNCHANGED <<now, row, lock, up, entries, advances, mailbox, checked, seen,
                   target, faults, fired, started>>

CreatedRow(c) ==
    [present |-> TRUE, enabled |-> TRUE, pending |-> FirstFuture(asked[c]), ref |-> NoRef]

Create(c) ==
    /\ step[c] = "create"
    /\ LET first == FirstFuture(asked[c])
       IN  /\ row' = CreatedRow(c)
           /\ IF first = Exhausted THEN Leave(c)
              ELSE /\ Goto(c, "lock")
                   /\ target' = [target EXCEPT ![c] = first]
                   /\ UNCHANGED <<lock, asked, seen, tries>>
    /\ UNCHANGED <<now, up, entries, advances, mailbox, checked, faults, fired, started>>

Reloadable(r) == r.enabled /\ r.pending.at # NoTime

\* list_armed_schedules, or the schedules of the version. Without a schedule
\* there is no lock to take, and unregister still cancels and deletes.
List(c) ==
    /\ step[c] = "list"
    /\ IF c \in Reloads
       THEN IF Reloadable(row) THEN Continue(c, "lock") ELSE Leave(c)
       ELSE Continue(c, IF row.present THEN "lock" ELSE "relist")
    /\ UNCHANGED <<now, row, up, entries, advances, mailbox, checked, faults,
                   fired, started>>

Relist(c) ==
    /\ step[c] = "relist"
    /\ seen' = [seen EXCEPT ![c] = row.ref]
    /\ Goto(c, "cancel")
    /\ UNCHANGED <<now, row, lock, up, entries, advances, mailbox, checked, asked,
                   target, tries, faults, fired, started>>

\* Under the lock the call reads the row again and decides; register does not.
Proceed(c, s, occurrence) ==
    /\ lock' = c
    /\ Goto(c, s)
    /\ seen' = [seen EXCEPT ![c] = row.ref]
    /\ target' = [target EXCEPT ![c] = occurrence]
    /\ UNCHANGED <<asked, tries>>

Lock(c) ==
    /\ step[c] = "lock" /\ lock = Free
    /\ \/ /\ c \in Registers
          /\ lock' = c /\ Goto(c, "schedule")
          /\ UNCHANGED <<asked, seen, target, tries>>
       \/ /\ c \in Enables
          /\ IF ~row.present THEN Leave(c)
             ELSE IF row.pending.left = 0 THEN Proceed(c, "mark", Exhausted)
             ELSE Proceed(c, "persist", EnabledOccurrence(row, asked[c]))
       \/ /\ c \in Reloads
          /\ IF ~Reloadable(row) THEN Leave(c)
             ELSE LET next == SkipMissed(row.pending, asked[c])
                  IN  Proceed(c, IF next = Exhausted THEN "cancel" ELSE "persist", next)
       \/ /\ c \in Disables
          /\ IF row.present THEN Proceed(c, "cancel", Exhausted) ELSE Leave(c)
       \/ c \in Unregisters /\ Proceed(c, "cancel", Exhausted)
    /\ UNCHANGED <<now, row, up, entries, advances, mailbox, checked, faults,
                   fired, started>>

\* Enabling an exhausted cycle only marks it.
MarkEnabled(c) ==
    /\ step[c] = "mark"
    /\ row' = [row EXCEPT !.enabled = row.present]
    /\ Leave(c)
    /\ UNCHANGED <<now, up, entries, advances, mailbox, checked, faults, fired, started>>

\* What the call writes. Only enabling an exhausted cycle and disabling clear
\* the ref here.
PersistedRow(c) ==
    IF c \in Disables THEN [row EXCEPT !.enabled = FALSE, !.ref = NoRef]
    ELSE [row EXCEPT !.pending = target[c],
                     !.enabled = @ \/ c \in Enables,
                     !.ref = IF c \in Enables /\ target[c] = Exhausted THEN NoRef ELSE @]

\* disable, and a reload that finds the cycle used up, cancel first and persist
\* last; the others persist first. A row deleted meanwhile ends the call.
Persist(c) ==
    /\ step[c] = "persist"
    /\ row' = IF row.present THEN PersistedRow(c) ELSE row
    /\ IF ~row.present \/ c \in Disables \/ (c \in Reloads /\ target[c] = Exhausted)
       THEN Leave(c) ELSE Continue(c, "cancel")
    /\ UNCHANGED <<now, up, entries, advances, mailbox, checked, faults, fired, started>>

\* Scheduler.cancel; an unknown ref, or no Scheduler, is ignored.
EntriesWithout(ref) == {e \in entries : e.ref # ref}

Cancel(c) ==
    /\ step[c] = "cancel"
    /\ entries' = EntriesWithout(seen[c])
    /\ IF c \in Unregisters THEN Continue(c, "delete")
       ELSE IF target[c] # Exhausted THEN Continue(c, "schedule")
       ELSE IF c \in Enables THEN Leave(c) ELSE Continue(c, "persist")
    /\ UNCHANGED <<now, row, up, advances, mailbox, checked, faults, fired, started>>

\* Scheduler.schedule. When the Scheduler is down the call ends, after it has
\* cleared the ref of the entry it cancelled.
Schedule(c) ==
    /\ step[c] = "schedule"
    /\ IF up THEN /\ entries' = entries \cup {[ref |-> c, pending |-> target[c]]}
                  /\ Continue(c, "store")
       ELSE /\ UNCHANGED entries
            /\ IF seen[c] = NoRef THEN Leave(c) ELSE Continue(c, "clear")
    /\ UNCHANGED <<now, row, up, advances, mailbox, checked, faults, fired, started>>

Clear(c) ==
    /\ step[c] = "clear"
    /\ row' = [row EXCEPT !.ref = NoRef]
    /\ Leave(c)
    /\ UNCHANGED <<now, up, entries, advances, mailbox, checked, faults, fired, started>>

Store(c) ==
    /\ step[c] = "store"
    /\ IF row.present THEN row' = [row EXCEPT !.ref = c] /\ Leave(c)
       ELSE Continue(c, "undo") /\ UNCHANGED row
    /\ UNCHANGED <<now, up, entries, advances, mailbox, checked, faults, fired, started>>

\* An entry whose ref was not persisted could never be cancelled.
Undo(c) ==
    /\ step[c] = "undo"
    /\ entries' = EntriesWithout(c)
    /\ Leave(c)
    /\ UNCHANGED <<now, row, up, advances, mailbox, checked, faults, fired, started>>

Delete(c) ==
    /\ step[c] = "delete"
    /\ row' = NoRow
    /\ Leave(c)
    /\ UNCHANGED <<now, up, entries, advances, mailbox, checked, faults, fired, started>>

\* A database access fails for good. A restore tries its listing again. A create
\* whose answer is lost was done: its retry fails on the unique version and node.
AccessFails(c) ==
    /\ faults < MaxFaults
    /\ faults' = faults + 1
    /\ row' = row \/ (step[c] = "create" /\ row' = CreatedRow(c))
    /\ \/ step[c] = "store" /\ Continue(c, "undo")
       \/ /\ step[c] = "list"
          /\ IF c \in Restores /\ tries[c] < RestoreAttempts
             THEN Continue(c, "begin") ELSE Leave(c)
       \/ step[c] = "lock" /\ c \notin Registers /\ lock = Free /\ Leave(c)
       \/ step[c] \in {"create", "relist", "mark", "persist", "clear", "delete"} /\ Leave(c)
    /\ UNCHANGED <<now, up, entries, advances, mailbox, checked, fired, started>>

-----------------------------------------------------------------------------
(* The Scheduler, its callback worker, and the listener.                   *)

\* A tick delivers one due entry, removes it, and arms it again under its ref.
Fire ==
    /\ up
    /\ \E e \in entries :
         LET next == NextFutureFire(e.pending, now)
         IN  /\ e.pending.at <= now
             /\ entries' = (entries \ {e}) \cup
                    (IF next = Exhausted THEN {} ELSE {[e EXCEPT !.pending = next]})
             /\ advances' = Append(advances, [e EXCEPT !.pending = next])
             /\ mailbox' = Append(mailbox, e.pending.at)
             /\ fired' = Append(fired, e.pending.at)
    /\ UNCHANGED <<now, row, lock, up, checked, callVars, faults, started>>

AdvanceApplies(a) == row.present /\ row.enabled /\ row.ref = a.ref

\* handle_cycle_advance, all of it under the lock, on the row alone. Its write
\* may fail; the worker logs it and goes on.
Advance ==
    /\ advances # <<>> /\ lock = Free
    /\ \/ /\ row' = IF AdvanceApplies(Head(advances))
                    THEN [row EXCEPT !.pending = Head(advances).pending] ELSE row
          /\ UNCHANGED faults
       \/ faults < MaxFaults /\ faults' = faults + 1 /\ UNCHANGED row
    /\ advances' = Tail(advances)
    /\ UNCHANGED <<now, lock, up, entries, mailbox, checked, callVars, fired, started>>

\* The listener reads the row ...
Check ==
    /\ mailbox # <<>> /\ ~checked
    /\ IF row.enabled THEN checked' = TRUE /\ UNCHANGED mailbox
       ELSE mailbox' = Tail(mailbox) /\ UNCHANGED checked
    /\ UNCHANGED <<now, row, lock, up, entries, advances, callVars, faults, fired, started>>

\* ... and starts a process instance, or skips the fire (version superseded or
\* not cached, engine at capacity).
Start ==
    /\ checked
    /\ started' \in {started, started + 1}
    /\ mailbox' = Tail(mailbox)
    /\ checked' = FALSE
    /\ UNCHANGED <<now, row, lock, up, entries, advances, callVars, faults, fired>>

\* The listener has no clause for a failing read: it dies with its mailbox.
ListenerCrash ==
    /\ mailbox # <<>> /\ ~checked /\ faults < MaxFaults
    /\ faults' = faults + 1
    /\ mailbox' = <<>>
    /\ UNCHANGED <<now, row, lock, up, entries, advances, checked, callVars, fired, started>>

\* The entries and the linked worker die with the Scheduler.
Crash ==
    /\ up /\ \E c \in Restores : step[c] = "idle"
    /\ up' = FALSE
    /\ entries' = {} /\ advances' = <<>>
    /\ UNCHANGED <<now, row, lock, mailbox, checked, callVars, faults, fired, started>>

\* Its supervisor restarts it, and it starts the restore in a Task.
Restart(c) ==
    /\ ~up /\ c \in Restores /\ step[c] = "idle"
    /\ up' = TRUE
    /\ Goto(c, "begin")
    /\ UNCHANGED <<now, row, lock, entries, advances, mailbox, checked, asked, seen,
                   target, tries, faults, fired, started>>

\* The engine stops at any point of any call and boots.
Reboot(c) ==
    /\ c \in Boots /\ step[c] = "idle"
    /\ step' = [d \in Calls |-> IF d = c THEN "begin"
                                ELSE IF step[d] = "idle" THEN "idle" ELSE "done"]
    /\ asked' = [d \in Calls |-> 0]
    /\ seen' = [d \in Calls |-> NoRef]
    /\ target' = [d \in Calls |-> Exhausted]
    /\ lock' = Free /\ up' = TRUE
    /\ entries' = {} /\ advances' = <<>> /\ mailbox' = <<>> /\ checked' = FALSE
    /\ UNCHANGED <<now, row, tries, faults, fired, started>>

Tick ==
    /\ now < MaxTime
    /\ now' = now + 1
    /\ UNCHANGED <<row, lock, up, entries, advances, mailbox, checked, callVars,
                   faults, fired, started>>

CallStep(c) ==
    \/ Begin(c) \/ Create(c) \/ List(c) \/ Relist(c) \/ Lock(c) \/ MarkEnabled(c)
    \/ Persist(c) \/ Cancel(c) \/ Schedule(c) \/ Clear(c) \/ Store(c) \/ Undo(c) \/ Delete(c)

Next ==
    \/ \E c \in Calls : CallStep(c) \/ AccessFails(c) \/ Restart(c) \/ Reboot(c)
    \/ Fire \/ Advance \/ Check \/ Start \/ ListenerCrash \/ Crash \/ Tick

Spec == Init /\ [][Next]_vars

\* A call that was begun is run to its end, the worker and the supervisor do
\* their work. Nothing obliges a caller to call, the Scheduler to crash or the
\* database to fail.
Fairness ==
    /\ \A c \in Calls : WF_vars(step[c] # "idle" /\ CallStep(c))
    /\ \A c \in Restores : WF_vars(Restart(c))
    /\ WF_vars(Advance)

FairSpec == Spec /\ Fairness

-----------------------------------------------------------------------------
\* Outside the locked sections every armed entry is the one the row knows, of a
\* schedule that exists and is enabled: nothing fires for a disabled or deleted
\* schedule, nothing is armed twice, nothing is beyond the reach of a cancel.
\* (The lock of StartEventManager, disable, unregister, store_scheduler_ref.)
ArmedIsAccounted ==
    lock = Free => \A e \in entries : row.present /\ row.enabled /\ row.ref = e.ref

\* Outside the locked sections, once the worker has caught up, the row says when
\* the armed entry fires and how often, so that a reload resumes it exactly.
\* (handle_cycle_advance drops the advances of replaced entries.)
PersistedMatchesArmed ==
    lock = Free =>
        \A e \in entries :
            (row.ref = e.ref /\ \A i \in DOMAIN advances : advances[i].ref # e.ref)
                => row.pending = e.pending

\* A schedule is armed once (reload_start_schedules, enable_schedule).
ArmedOnce == lock = Free => Cardinality(entries) <= 1

\* R<n> starts at most n process instances.
StartsWithinRepetitions == Repetitions = Infinite \/ started <= Repetitions

\* No occurrence of the cycle fires twice.
EachOccurrenceOnce == \A i, j \in DOMAIN fired : fired[i] = fired[j] => i = j

\* An enabled schedule with an occurrence left is not left unarmed by a crash:
\* it is armed again, or ceases to be one to arm. (maybe_restore_after_crash.)
ArmedAgain ==
    (row.enabled /\ row.pending.at # NoTime) ~>
        (entries # {} \/ ~row.enabled \/ row.pending.at = NoTime)
=============================================================================
